----------------------- MODULE RuntimeSurface_proofs -----------------------
(***************************************************************************)
(* Proofs about RuntimeSurface, for any number of clients, any batch       *)
(* sizes, any limits of the lanes and of the retained suffix, and any      *)
(* number of failed writes and crashes: an acknowledged commit is never    *)
(* lost, the state is what the log holds, a client misses nothing, and     *)
(* the whole implements PublishedLog.                                      *)
(*                                                                         *)
(* They rest on SurfaceInv, which is inductive.  LogInv is about the file  *)
(* alone.  IncompleteInv, IndexInv, JobInv and SuffixInv tie the memory of *)
(* the coordinator to the file while the thread is open: at most one batch *)
(* is incomplete, it is the last of the log, and nothing but it, a batch   *)
(* committed before or a new one is ever written.  ViewInv and LaneInv     *)
(* count places: what a client has seen is the first Len(view[l]) batches  *)
(* of the history, its cursor the boundary there, and its lane holds the   *)
(* places that follow.                                                     *)
(*                                                                         *)
(* A step of a commit may change the file in three ways only (LogStep),    *)
(* and the history in two (HistoryStep); the proofs are split along them.  *)
(***************************************************************************)
EXTENDS RuntimeSurface, Collections_proofs
-----------------------------------------------------------------------------
(***************************************************************************)
(* Events, suffixes and queues.                                            *)
(***************************************************************************)
(* A batch has a positive number of events.                                *)
LEMMA SizeNat == ASSUME NEW b \in Batches PROVE Size(b) \in Nat
  BY DEF Batches, Cursors, Size

(* The sizes of the batches of a sequence.                                 *)
SizesOf(s) == [k \in DOMAIN s |-> Size(s[k])]

LEMMA SizesOfType ==
    ASSUME NEW s \in Seq(Batches)
    PROVE  /\ SizesOf(s) \in [DOMAIN s -> Nat] /\ IsFiniteSet(DOMAIN s)
           /\ DOMAIN s = 1..Len(s) /\ Len(s) \in Nat
           /\ Events(s) = SumOver(SizesOf(s), DOMAIN s)
<1>1. DOMAIN s = 1..Len(s) /\ Len(s) \in Nat
  OBVIOUS
<1>2. IsFiniteSet(DOMAIN s)
  BY <1>1, FS_Interval
<1>3. \A k \in DOMAIN s : Size(s[k]) \in Nat
  BY SizeNat
<1> QED BY <1>1, <1>2, <1>3 DEF SizesOf, Events

(* No batches have no events.                                              *)
LEMMA EventsEmpty == Events(<< >>) = 0
<1>1. DOMAIN << >> = {}
  OBVIOUS
<1>2. Events(<< >>) = SumOver(SizesOf(<< >>), {})
  BY <1>1 DEF Events, SizesOf
<1> QED BY <1>2, SumEmpty

(* The events of a sequence are a number.                                  *)
LEMMA EventsNat ==
    ASSUME NEW s \in Seq(Batches) PROVE Events(s) \in Nat
<1> DEFINE f == SizesOf(s)  D == DOMAIN s
<1>1. f \in [D -> Nat] /\ IsFiniteSet(D) /\ Events(s) = SumOver(f, D) /\ D \in SUBSET D
  BY SizesOfType
<1> HIDE DEF f, D
<1> QED BY <1>1, SumNat

(* One more batch adds its events.                                         *)
LEMMA EventsAppend ==
    ASSUME NEW s \in Seq(Batches), NEW b \in Batches
    PROVE  Events(Append(s, b)) = Events(s) + Size(b)
<1> DEFINE t == Append(s, b)  n == Len(s)  f == SizesOf(s)  g == SizesOf(t)
           D == DOMAIN s  E == DOMAIN t  x == n + 1
<1>1. /\ t \in Seq(Batches) /\ n \in Nat
      /\ D = 1..n /\ E = 1..x
      /\ t[x] = b /\ \A k \in D : t[k] = s[k]
  OBVIOUS
<1>2. /\ f \in [D -> Nat] /\ IsFiniteSet(D) /\ Events(s) = SumOver(f, D)
      /\ g \in [E -> Nat] /\ IsFiniteSet(E) /\ Events(t) = SumOver(g, E)
  BY <1>1, SizesOfType
<1>3. D \in SUBSET E /\ x \in E /\ E \ {x} = D /\ E \in SUBSET E
  BY <1>1
<1>4. g[x] = Size(b) /\ \A k \in D : g[k] = f[k]
  BY <1>1, <1>3 DEF SizesOf
<1> HIDE DEF t, n, f, g, D, E, x
<1>5. SumOver(g, E) = g[x] + SumOver(g, E \ {x})
  BY <1>2, <1>3, SumRemove
<1>6. SumOver(g, D) = SumOver(f, D)
  BY <1>2, <1>4, SumCongruent
<1>7. SumOver(f, D) \in Nat /\ Size(b) \in Nat
  <2>1. D \in SUBSET D
    OBVIOUS
  <2> QED BY <1>2, <2>1, SumNat, SizeNat
<1>8. Events(t) = Events(s) + Size(b)
  <2>1. SumOver(g, E) = g[x] + SumOver(g, D)
    BY <1>3, <1>5
  <2>2. Events(t) = Size(b) + Events(s)
    BY <1>2, <1>4, <1>6, <2>1
  <2> QED BY <1>2, <1>7, <2>2
<1> QED BY <1>8 DEF t

(* One batch less takes its events away.                                   *)
LEMMA EventsTail ==
    ASSUME NEW s \in Seq(Batches), s # << >>
    PROVE  Events(Tail(s)) <= Events(s)
<1> DEFINE wrong(u) == u # << >> /\ ~(Events(Tail(u)) <= Events(u))
           Bad == {n \in Nat : \E u \in Seq(Batches) : Len(u) = n /\ wrong(u)}
<1>1. SUFFICES ASSUME Bad # {} PROVE FALSE
  <2>1. wrong(s) => Len(s) \in Bad
    OBVIOUS
  <2> QED BY <2>1
<1>2. PICK n \in Bad : \A i \in Bad : n <= i
  <2>1. Bad \in SUBSET Nat
    OBVIOUS
  <2> HIDE DEF Bad
  <2> QED BY <1>1, <2>1, LeastMember
<1>3. PICK u \in Seq(Batches) : Len(u) = n /\ wrong(u)
  BY <1>2
<1> DEFINE v == SubSeq(u, 1, Len(u) - 1)  b == u[Len(u)]
<1>4. /\ v \in Seq(Batches) /\ b \in Batches /\ u = Append(v, b)
      /\ Len(v) \in Nat /\ Len(v) < n
  BY <1>3
<1> HIDE DEF v, b
<1>5. Events(u) = Events(v) + Size(b) /\ Events(v) \in Nat /\ Size(b) \in Nat
  BY <1>4, EventsAppend, EventsNat, SizeNat
<1>6. CASE v = << >>
  <2>1. Tail(u) = << >>
    BY <1>4, <1>6
  <2>2. Events(Tail(u)) = 0
    BY <2>1, EventsEmpty, Zenon
  <2> QED BY <1>3, <1>5, <2>2
<1>7. CASE v # << >>
  <2>1. Tail(u) = Append(Tail(v), b) /\ Tail(v) \in Seq(Batches)
    BY <1>4, <1>7
  <2>2. Events(Tail(u)) = Events(Tail(v)) + Size(b) /\ Events(Tail(v)) \in Nat
    BY <1>4, <2>1, EventsAppend, EventsNat
  <2>3. Events(Tail(v)) <= Events(v)
    <3>1. Len(v) \notin Bad
      BY <1>2, <1>4
    <3> QED BY <1>4, <1>7, <3>1
  <2> QED BY <1>3, <1>5, <2>2, <2>3
<1> QED BY <1>6, <1>7

(* A sequence is the end of itself, and its end stays one when it grows.   *)
LEMMA EndOfSelf == ASSUME NEW s \in Seq(Batches) PROVE EndOf(s, s)
  BY DEF EndOf

LEMMA EndOfAppend ==
    ASSUME NEW s \in Seq(Batches), NEW t \in Seq(Batches), NEW b \in Batches,
           EndOf(s, t)
    PROVE  EndOf(Append(s, b), Append(t, b)) /\ EndOf(<< b >>, Append(t, b))
<1> DEFINE u == Append(s, b)  v == Append(t, b)
<1>1. /\ Len(u) = Len(s) + 1 /\ Len(v) = Len(t) + 1
      /\ DOMAIN u = 1..(Len(s) + 1)
      /\ u[Len(s) + 1] = b /\ v[Len(t) + 1] = b
      /\ \A k \in 1..Len(s) : u[k] = s[k]
      /\ \A k \in 1..Len(t) : v[k] = t[k]
      /\ Len(s) \in Nat /\ Len(t) \in Nat /\ DOMAIN s = 1..Len(s)
  OBVIOUS
<1>2. Len(s) <= Len(t) /\ \A k \in 1..Len(s) : s[k] = t[Len(t) - Len(s) + k]
  BY <1>1 DEF EndOf
<1> HIDE DEF u, v
<1>3. ASSUME NEW k \in 1..(Len(s) + 1)
      PROVE  u[k] = v[Len(v) - Len(u) + k]
  <2>1. CASE k = Len(s) + 1
    <3>1. Len(v) - Len(u) + k = Len(t) + 1
      BY <1>1, <2>1
    <3> QED BY <1>1, <2>1, <3>1
  <2>2. CASE k # Len(s) + 1
    <3>1. /\ k \in 1..Len(s) /\ Len(t) - Len(s) + k \in 1..Len(t)
          /\ Len(v) - Len(u) + k = Len(t) - Len(s) + k
      BY <1>1, <1>2, <2>2
    <3> QED BY <1>1, <1>2, <3>1
  <2> QED BY <2>1, <2>2
<1>4. EndOf(u, v)
  BY <1>1, <1>2, <1>3 DEF EndOf
<1>5. EndOf(<< b >>, v)
  BY <1>1 DEF EndOf
<1> QED BY <1>4, <1>5 DEF u, v

(* The end of an end.                                                      *)
LEMMA EndOfEnd ==
    ASSUME NEW r \in Seq(Batches), NEW s \in Seq(Batches),
           NEW t \in Seq(Batches), EndOf(r, s), EndOf(s, t)
    PROVE  EndOf(r, t)
<1>1. /\ Len(r) \in Nat /\ Len(s) \in Nat /\ Len(t) \in Nat
      /\ DOMAIN r = 1..Len(r) /\ DOMAIN s = 1..Len(s)
  OBVIOUS
<1>2. /\ Len(r) <= Len(s) /\ \A k \in 1..Len(r) : r[k] = s[Len(s) - Len(r) + k]
      /\ Len(s) <= Len(t) /\ \A k \in 1..Len(s) : s[k] = t[Len(t) - Len(s) + k]
  BY <1>1 DEF EndOf
<1>3. ASSUME NEW k \in 1..Len(r) PROVE r[k] = t[Len(t) - Len(r) + k]
  <2>1. Len(s) - Len(r) + k \in 1..Len(s)
    BY <1>1, <1>2
  <2>2. r[k] = t[Len(t) - Len(s) + (Len(s) - Len(r) + k)]
    BY <1>2, <2>1
  <2>3. Len(t) - Len(s) + (Len(s) - Len(r) + k) = Len(t) - Len(r) + k
    BY <1>1
  <2> QED BY <2>2, <2>3
<1> QED BY <1>1, <1>2, <1>3 DEF EndOf

(* The retained batches are the last ones.                                 *)
LEMMA WithinEnds ==
    ASSUME NEW s \in Seq(Batches)
    PROVE  Within(s) \in Seq(Batches) /\ EndOf(Within(s), s)
<1> DEFINE fits == {i \in 1..(Len(s) + 1) :
                      Events(SubSeq(s, i, Len(s))) <= RetainedLimit}
           from == Min(fits)
<1>1. Len(s) \in Nat /\ RetainedLimit \in Nat
  BY SurfaceBounds
<1>2. Len(s) + 1 \in fits
  <2>1. SubSeq(s, Len(s) + 1, Len(s)) = << >>
    BY <1>1
  <2>2. Events(SubSeq(s, Len(s) + 1, Len(s))) = 0
    BY <2>1, EventsEmpty, Zenon
  <2> QED BY <1>1, <2>2
<1>3. fits \in SUBSET Nat
  BY <1>1
<1>4. from \in fits
  <2> HIDE DEF fits
  <2>1. \E i \in fits : \A j \in fits : i <= j
    BY <1>2, <1>3, LeastMember
  <2> QED BY <2>1 DEF Min
<1>5. from \in 1..(Len(s) + 1)
  BY <1>4
<1>6. Within(s) = SubSeq(s, from, Len(s))
  BY DEF Within
<1> HIDE DEF from, fits
<1>7. /\ SubSeq(s, from, Len(s)) \in Seq(Batches)
      /\ Len(SubSeq(s, from, Len(s))) = Len(s) - from + 1
      /\ \A k \in 1..(Len(s) - from + 1) :
            SubSeq(s, from, Len(s))[k] = s[from + k - 1]
  BY <1>1, <1>5
<1> DEFINE w == SubSeq(s, from, Len(s))
<1>8. DOMAIN w = 1..Len(w)
  BY <1>7
<1> HIDE DEF w
<1>9. EndOf(w, s)
  <2>1. /\ w \in Seq(Batches) /\ Len(w) = Len(s) - from + 1
        /\ \A k \in 1..(Len(s) - from + 1) : w[k] = s[from + k - 1]
    BY <1>7 DEF w
  <2>2. Len(w) <= Len(s)
    BY <1>1, <1>5, <2>1
  <2>3. ASSUME NEW k \in DOMAIN w PROVE w[k] = s[Len(s) - Len(w) + k]
    <3>1. k \in 1..(Len(s) - from + 1) /\ Len(s) - Len(w) + k = from + k - 1
      BY <1>1, <1>5, <1>8, <2>1
    <3> QED BY <2>1, <3>1
  <2> QED BY <2>2, <2>3 DEF EndOf
<1> QED BY <1>6, <1>7, <1>9 DEF w

(* The batch items of a queue, and where they are.                         *)
BatchItems == [kind : {"batch"}, batch : Batches]
Places(q) == {k \in DOMAIN q : q[k].kind = "batch"}

LEMMA ItemKinds ==
    /\ \A i \in Items : i.kind = "batch" <=> i \in BatchItems
    /\ \A b \in Batches : Batch(b) \in BatchItems /\ Batch(b).batch = b
    /\ BatchItems \subseteq Items
    /\ Gap \in Items /\ Sealed \in Items
    /\ Gap.kind # "batch" /\ Sealed.kind # "batch" /\ Gap.kind = "gap"
    /\ \A i \in BatchItems : i.batch \in Batches /\ i.kind = "batch"
  BY DEF Items, BatchItems, Batch, Gap, Sealed

LEMMA PlacesSelect ==
    ASSUME NEW q \in Seq(Items)
    PROVE  Selected(q, Places(q)) \in Seq(BatchItems)
<1> DEFINE K == Places(q)
<1>1. \A k \in DOMAIN q : k \in K => q[k] \in BatchItems
  BY ItemKinds DEF Places
<1> HIDE DEF K
<1>2. Selected(q, K) \in Seq(BatchItems)
  BY <1>1, SelectedWithin
<1> QED BY <1>2 DEF K

(* The batches in a queue.                                                 *)
LEMMA QueuedType ==
    ASSUME NEW q \in Seq(Items)
    PROVE  /\ Queued(q) \in Seq(Batches)
           /\ Len(Queued(q)) = Len(Selected(q, Places(q)))
           /\ \A k \in DOMAIN Selected(q, Places(q)) :
                 Queued(q)[k] = Selected(q, Places(q))[k].batch
<1> DEFINE s == Selected(q, Places(q))
<1>1. s \in Seq(BatchItems)
  BY PlacesSelect
<1>2. Queued(q) = [k \in DOMAIN s |-> s[k].batch]
  BY DEF Queued, Places
<1> HIDE DEF s
<1>3. \A k \in DOMAIN s : s[k].batch \in Batches
  BY <1>1, ItemKinds
<1>4. DOMAIN s = 1..Len(s) /\ Len(s) \in Nat
  BY <1>1
<1>5. Queued(q) \in Seq(Batches) /\ Len(Queued(q)) = Len(s)
  BY <1>2, <1>3, <1>4, IsASeq
<1> QED BY <1>2, <1>5 DEF s

(* An empty queue has none.                                                *)
LEMMA QueuedEmpty == Queued(<< >>) = << >>
<1> DEFINE e == << >>
<1>1. e \in Seq(Items) /\ Len(e) = 0
  OBVIOUS
<1>2. Selected(e, Places(e)) = << >>
  BY SelectedEmpty
<1>3. Queued(e) \in Seq(Batches) /\ Len(Queued(e)) = Len(Selected(e, Places(e)))
  <2> HIDE DEF e
  <2> QED BY <1>1, QueuedType
<1>4. Len(Queued(e)) = 0
  BY <1>2, <1>3
<1> QED BY <1>3, <1>4

(* A batch is appended.                                                    *)
LEMMA QueuedAppend ==
    ASSUME NEW q \in Seq(Items), NEW b \in Batches
    PROVE  Queued(Append(q, Batch(b))) = Append(Queued(q), b)
<1> DEFINE x == Batch(b)  t == Append(q, x)  K == Places(q)  L == Places(t)
           n == Len(q)
<1>1. x \in Items /\ x.kind = "batch" /\ x.batch = b /\ x \in BatchItems
  BY ItemKinds
<1> HIDE DEF x
<1>2. /\ t \in Seq(Items) /\ DOMAIN t = 1..(n + 1) /\ t[n + 1] = x
      /\ \A k \in 1..n : t[k] = q[k]
      /\ n \in Nat /\ DOMAIN q = 1..n
  BY <1>1
<1>3. n + 1 \in L /\ \A k \in DOMAIN q : k \in L <=> k \in K
  BY <1>1, <1>2 DEF Places
<1> HIDE DEF K, L
<1>4. Selected(t, L) = Append(Selected(q, L), x)
  BY <1>1, <1>3, SelectedAppend
<1>5. Selected(q, L) = Selected(q, K)
  BY <1>3, SelectedSame
<1> DEFINE u == Selected(q, K)
<1>6. /\ u \in Seq(BatchItems)
      /\ Queued(q) \in Seq(Batches) /\ Len(Queued(q)) = Len(u)
      /\ \A k \in DOMAIN u : Queued(q)[k] = u[k].batch
  BY PlacesSelect, QueuedType DEF K
<1> HIDE DEF t
<1>7. /\ Queued(t) \in Seq(Batches) /\ Len(Queued(t)) = Len(Selected(t, L))
      /\ \A k \in DOMAIN Selected(t, L) : Queued(t)[k] = Selected(t, L)[k].batch
  BY <1>2, QueuedType DEF L
<1> DEFINE w == Append(u, x)
<1>8. Selected(t, L) = w
  BY <1>4, <1>5
<1> HIDE DEF u
<1>9. /\ w \in Seq(BatchItems) /\ Len(w) = Len(u) + 1 /\ w[Len(u) + 1] = x
      /\ \A k \in 1..Len(u) : w[k] = u[k]
      /\ DOMAIN w = 1..(Len(u) + 1) /\ DOMAIN u = 1..Len(u) /\ Len(u) \in Nat
  BY <1>1, <1>6
<1> HIDE DEF w
<1>10. /\ Len(Queued(t)) = Len(Queued(q)) + 1
       /\ Queued(t)[Len(Queued(q)) + 1] = b
       /\ \A k \in 1..Len(Queued(q)) : Queued(t)[k] = Queued(q)[k]
  <2>1. Len(Queued(t)) = Len(Queued(q)) + 1
    BY <1>6, <1>7, <1>8, <1>9
  <2>2. Queued(t)[Len(u) + 1] = b
    <3>1. Len(u) + 1 \in DOMAIN w
      BY <1>9
    <3> QED BY <1>1, <1>7, <1>8, <1>9, <3>1
  <2>3. ASSUME NEW k \in 1..Len(u) PROVE Queued(t)[k] = Queued(q)[k]
    <3>1. k \in DOMAIN w /\ k \in DOMAIN u
      BY <1>9
    <3> QED BY <1>6, <1>7, <1>8, <1>9, <3>1
  <2> QED BY <1>6, <2>1, <2>2, <2>3
<1> DEFINE Q == Queued(q)  R == Queued(t)
<1>11. R = Append(Q, b)
  <2>1. /\ R \in Seq(Batches) /\ Q \in Seq(Batches) /\ Len(R) = Len(Q) + 1
        /\ R[Len(Q) + 1] = b /\ \A k \in 1..Len(Q) : R[k] = Q[k]
    BY <1>6, <1>7, <1>10
  <2> HIDE DEF Q, R
  <2> QED BY <2>1
<1> QED BY <1>11 DEF t, x

(* A gap or the seal is appended.                                          *)
LEMMA QueuedOther ==
    ASSUME NEW q \in Seq(Items), NEW x \in Items, x.kind # "batch"
    PROVE  Queued(Append(q, x)) = Queued(q)
<1> DEFINE t == Append(q, x)  K == Places(q)  L == Places(t)  n == Len(q)
<1>2. /\ t \in Seq(Items) /\ DOMAIN t = 1..(n + 1) /\ t[n + 1] = x
      /\ \A k \in 1..n : t[k] = q[k]
      /\ n \in Nat /\ DOMAIN q = 1..n
  OBVIOUS
<1>3. n + 1 \notin L /\ \A k \in DOMAIN q : k \in L <=> k \in K
  BY <1>2 DEF Places
<1> HIDE DEF K, L
<1>4. Selected(t, L) = Selected(q, L)
  BY <1>3, SelectedAppend
<1>5. Selected(q, L) = Selected(q, K)
  BY <1>3, SelectedSame
<1>6. /\ Queued(q) = [k \in DOMAIN Selected(q, K) |-> Selected(q, K)[k].batch]
      /\ Queued(t) = [k \in DOMAIN Selected(t, L) |-> Selected(t, L)[k].batch]
  BY DEF Queued, Places, K, L
<1> HIDE DEF t
<1>7. Queued(t) = Queued(q)
  BY <1>4, <1>5, <1>6
<1> QED BY <1>7 DEF t

(* The first item is taken.                                                *)
LEMMA QueuedTail ==
    ASSUME NEW q \in Seq(Items), q # << >>
    PROVE  IF Head(q).kind = "batch"
           THEN /\ Queued(q) # << >> /\ Queued(q)[1] = Head(q).batch
                /\ Queued(Tail(q)) = Tail(Queued(q))
           ELSE Queued(Tail(q)) = Queued(q)
<1> DEFINE t == Tail(q)  K == Places(q)  L == Places(t)  n == Len(q) - 1
           a == Selected(q, K)  b == Selected(t, L)
<1>1. /\ t \in Seq(Items) /\ n \in Nat /\ DOMAIN t = 1..n /\ DOMAIN q = 1..(n + 1)
      /\ \A k \in 1..n : t[k] = q[k + 1]
      /\ Head(q) = q[1] /\ 1 \in DOMAIN q
  OBVIOUS
<1>2. /\ \A k \in 1..(Len(q) - 1) : k \in L <=> k + 1 \in K
      /\ 1 \in K <=> Head(q).kind = "batch"
  BY <1>1 DEF Places
<1>3. /\ a \in Seq(BatchItems)
      /\ Queued(q) \in Seq(Batches) /\ Len(Queued(q)) = Len(a)
      /\ \A k \in DOMAIN a : Queued(q)[k] = a[k].batch
  BY PlacesSelect, QueuedType
<1>4. /\ b \in Seq(BatchItems)
      /\ Queued(t) \in Seq(Batches) /\ Len(Queued(t)) = Len(b)
      /\ \A k \in DOMAIN b : Queued(t)[k] = b[k].batch
  <2> HIDE DEF t
  <2> QED BY <1>1, PlacesSelect, QueuedType
<1>5. IF 1 \in K
      THEN /\ Len(a) = Len(b) + 1 /\ a[1] = q[1]
           /\ \A i \in 1..Len(b) : a[i + 1] = b[i]
      ELSE a = b
  <2> HIDE DEF K, L
  <2> QED BY <1>2, SelectedTail
<1> DEFINE Q == Queued(q)  R == Queued(t)
<1>6. CASE 1 \in K
  <2>1. /\ Len(a) = Len(b) + 1 /\ a[1] = q[1] /\ Len(b) \in Nat
        /\ DOMAIN a = 1..(Len(b) + 1) /\ DOMAIN b = 1..Len(b)
        /\ \A i \in 1..Len(b) : a[i + 1] = b[i]
    BY <1>3, <1>4, <1>5, <1>6
  <2> HIDE DEF a, b
  <2>2. 1 \in DOMAIN a /\ \A i \in 1..Len(b) : i + 1 \in DOMAIN a
    BY <2>1
  <2>3. Q[1] = Head(q).batch
    BY <1>1, <1>3, <2>1, <2>2
  <2>4. \A i \in 1..Len(b) : R[i] = Q[i + 1]
    BY <1>3, <1>4, <2>1, <2>2
  <2>5. /\ Q \in Seq(Batches) /\ R \in Seq(Batches) /\ Len(Q) = Len(R) + 1
        /\ \A i \in 1..Len(R) : R[i] = Q[i + 1]
    BY <1>3, <1>4, <2>1, <2>4
  <2> HIDE DEF Q, R
  <2>6. Q # << >> /\ R = Tail(Q)
    BY <2>5
  <2> QED BY <1>2, <1>6, <2>3, <2>6 DEF Q, R, t
<1>7. CASE 1 \notin K
  <2>1. a = b
    BY <1>5, <1>7
  <2>2. /\ Queued(q) = [k \in DOMAIN a |-> a[k].batch]
        /\ Queued(t) = [k \in DOMAIN b |-> b[k].batch]
    BY DEF Queued, Places
  <2> HIDE DEF a, b, t
  <2>3. Queued(t) = Queued(q)
    BY <2>1, <2>2
  <2> QED BY <1>2, <1>7, <2>3 DEF t
<1> QED BY <1>6, <1>7
-----------------------------------------------------------------------------
(***************************************************************************)
(* The committed batches of a file.                                        *)
(***************************************************************************)
Files == [prepared : Seq(Batches), committed : SUBSET Nat]
CommittedIn(d) == {k \in DOMAIN d.prepared : d.prepared[k].id \in d.committed}
HistoryOf(d) == Selected(d.prepared, CommittedIn(d))

LEMMA HistoryIs == History = HistoryOf(disk) /\ History' = HistoryOf(disk')
  BY DEF History, HistoryOf, CommittedIn, IsCommitted

LEMMA HistoryType ==
    ASSUME NEW d \in Files PROVE HistoryOf(d) \in Seq(Batches)
<1> DEFINE s == d.prepared  K == CommittedIn(d)
<1>1. s \in Seq(Batches)
  BY DEF Files
<1> HIDE DEF s, K
<1>2. Selected(s, K) \in Seq(Batches)
  BY <1>1, SelectedType
<1> QED BY <1>2 DEF HistoryOf, s, K

(* A prepared batch without a committed record is no history.              *)
LEMMA HistoryPrepared ==
    ASSUME NEW d \in Files, NEW e \in Files, NEW b \in Batches,
           e.prepared = Append(d.prepared, b), e.committed = d.committed,
           b.id \notin d.committed
    PROVE  HistoryOf(e) = HistoryOf(d)
<1> DEFINE s == d.prepared  t == e.prepared  K == CommittedIn(d)
           L == CommittedIn(e)  n == Len(s)
<1>1. /\ s \in Seq(Batches) /\ t = Append(s, b) /\ n \in Nat
      /\ DOMAIN s = 1..n /\ DOMAIN t = 1..(n + 1)
      /\ t[n + 1] = b /\ \A k \in 1..n : t[k] = s[k]
  BY DEF Files
<1>2. Len(s) + 1 \notin L /\ \A k \in DOMAIN s : k \in L <=> k \in K
  BY <1>1 DEF CommittedIn
<1> HIDE DEF s, t, K, L
<1>3. Selected(t, L) = Selected(s, L)
  BY <1>1, <1>2, SelectedAppend
<1>4. Selected(s, L) = Selected(s, K)
  BY <1>1, <1>2, SelectedSame
<1> QED BY <1>3, <1>4 DEF HistoryOf, s, t, K, L

(* The last prepared batch is committed.                                   *)
LEMMA HistoryCommitted ==
    ASSUME NEW d \in Files, NEW e \in Files, d.prepared # << >>,
           e.prepared = d.prepared,
           e.committed = d.committed \cup {Last(d.prepared).id},
           Last(d.prepared).id \notin d.committed,
           \A i, j \in DOMAIN d.prepared :
              d.prepared[i].id = d.prepared[j].id => i = j
    PROVE  HistoryOf(e) = Append(HistoryOf(d), Last(d.prepared))
<1> DEFINE s == d.prepared  K == CommittedIn(d)  L == CommittedIn(e)  n == Len(s)
<1>1. /\ s \in Seq(Batches) /\ n \in Nat \ {0} /\ DOMAIN s = 1..n /\ s # << >>
      /\ n \in DOMAIN s /\ Last(s) = s[n] /\ e.prepared = s
  BY DEF Files, Last
<1>2. /\ Len(s) \notin K /\ Len(s) \in L
      /\ \A k \in 1..(Len(s) - 1) : k \in K <=> k \in L
  BY <1>1 DEF CommittedIn
<1> HIDE DEF s, K, L
<1>3. Selected(s, L) = Append(Selected(s, K), s[Len(s)])
  BY <1>1, <1>2, SelectedLast
<1> QED BY <1>1, <1>3 DEF HistoryOf, s, K, L

(* In a log that replays, all batches but perhaps the last are history.    *)
LEMMA HistoryReplayed ==
    ASSUME NEW d \in Files,
           \A k \in DOMAIN d.prepared :
              k < Len(d.prepared) => d.prepared[k].id \in d.committed
    PROVE  LET s == d.prepared
               h == HistoryOf(d)
           IN IF s # << >> => Last(s).id \in d.committed THEN h = s
              ELSE h # s /\ s # << >> /\ s = Append(h, Last(s))
<1> DEFINE s == d.prepared  K == CommittedIn(d)  h == Selected(s, K)
           full == s # << >> => Last(s).id \in d.committed
           n == IF full THEN Len(s) ELSE Len(s) - 1
           m == 1
<1>1. /\ s \in Seq(Batches) /\ Len(s) \in Nat /\ DOMAIN s = 1..Len(s)
      /\ s = << >> <=> Len(s) = 0
  BY DEF Files
<1>a. ~full => s # << >>
  OBVIOUS
<1>2. n \in Nat /\ n <= Len(s) /\ m <= n + 1 /\ m \in Nat \ {0}
  <2> HIDE DEF full
  <2> QED BY <1>1, <1>a
<1>b. \A k \in DOMAIN s : k \in K <=> k < Len(s) \/ full
  BY <1>1 DEF CommittedIn, Last
<1>3. \A k \in DOMAIN s : k \in K <=> m <= k /\ k <= n
  <2> HIDE DEF full, K
  <2> QED BY <1>1, <1>b
<1>4. /\ full => n = Len(s)
      /\ ~full => n = Len(s) - 1 /\ s # << >>
  <2> HIDE DEF full
  <2> QED BY <1>1, <1>a
<1>5. h \in Seq(Batches) /\ Last(s) = s[Len(s)]
  <2> HIDE DEF s, K
  <2> QED BY <1>1, SelectedType DEF Last
<1>6. Len(h) = n - m + 1 /\ \A i \in 1..(n - m + 1) : h[i] = s[m - 1 + i]
  <2> HIDE DEF s, K, n, m, full
  <2>1. s \in Seq(Batches)
    BY <1>1
  <2> QED BY <1>2, <1>3, <2>1, SelectedInterval
<1> HIDE DEF s, K, n, h, full
<1>7. Len(h) = n /\ \A i \in 1..n : h[i] = s[i]
  BY <1>2, <1>6
<1> HIDE DEF m
<1>8. CASE full
  <2>1. h = s
    BY <1>1, <1>4, <1>5, <1>7, <1>8
  <2> QED BY <1>8, <2>1 DEF HistoryOf, s, K, h, full
<1>9. CASE ~full
  <2>a. n = Len(s) - 1 /\ s # << >>
    BY <1>4, <1>9, Zenon
  <2>1. h # s /\ s # << >>
    BY <1>1, <1>7, <2>a
  <2>2. s = Append(h, Last(s))
    <3>1. /\ Last(s) \in Batches /\ Len(s) = Len(h) + 1
          /\ s[Len(h) + 1] = Last(s) /\ \A i \in 1..Len(h) : s[i] = h[i]
      BY <1>1, <1>2, <1>5, <1>7, <2>a
    <3> QED BY <1>1, <1>5, <3>1
  <2> QED BY <1>9, <2>1, <2>2 DEF HistoryOf, s, K, h, full
<1> QED BY <1>8, <1>9
-----------------------------------------------------------------------------
(***************************************************************************)
(* Types.                                                                  *)
(***************************************************************************)
Jobs == [kind : {"none", "recover", "takeover", "reconcile", "refresh", "actor",
                 "control", "goal"},
         batch : Batches \cup {None}, left : Nat,
         step : {"append", "checkpoint"}]
Hubs == [bound : BOOLEAN, ready : BOOLEAN, head : Cursors, retained : Seq(Batches)]
Subscribers == [st : {"none", "live", "retired"}, queue : Seq(Items)]

(* The part of the types that belongs to ledger and coordinator, and the   *)
(* one that belongs to hub and clients.                                    *)
CoreOK ==
    /\ disk \in Files /\ acked \in SUBSET Nat
    /\ epoch \in Nat /\ nextSeq \in Nat /\ built \in Nat
    /\ faults \in Nat /\ crashes \in Nat
    /\ pc \in {"down", "recovering", "starting", "refreshed", "up", "sealed"}
    /\ index \in [DOMAIN index -> BOOLEAN]
    /\ applied \in Seq(Batches) /\ publications \in Seq(Batches)
    /\ incomplete \in Batches \cup {None} /\ held \in Batches \cup {None}
    /\ job \in Jobs
HubOK == /\ hub \in Hubs
         /\ lane \in [Lanes -> Subscribers]
         /\ view \in [Lanes -> Seq(Nat)] /\ at \in [Lanes -> Cursors]

LEMMA TypeSplit == (TypeOK <=> CoreOK /\ HubOK) /\ (TypeOK' <=> CoreOK' /\ HubOK')
  BY DEF TypeOK, CoreOK, HubOK, Files, Jobs, Hubs, Subscribers

LEMMA HeadOfType == ASSUME NEW s \in Seq(Batches) PROVE HeadOf(s) \in Cursors
<1>1. Origin \in Cursors
  BY DEF Origin, Cursors
<1>2. s # << >> => Last(s) \in Batches
  BY DEF Last
<1>3. \A b \in Batches : b.after \in Cursors
  BY DEF Batches
<1> QED BY <1>1, <1>2, <1>3 DEF HeadOf

(* A new batch continues the state.                                        *)
LEMMA NewBatchIs ==
    ASSUME CoreOK, NEW n \in Nat \ {0}, NEW i \in Nat, NEW f \in Facts
    PROVE  /\ NewBatch(n, i, f) \in Batches
           /\ NewBatch(n, i, f).id = built + 1
           /\ NewBatch(n, i, f).before = HeadOf(applied)
           /\ NewBatch(n, i, f) # None
<1> DEFINE h == HeadOf(applied)
<1>1. h \in Cursors /\ built \in Nat
  BY HeadOfType DEF CoreOK
<1>2. NewBatch(n, i, f) = [id |-> built + 1, before |-> h,
                           after |-> [inc |-> i, seq |-> h.seq + n], fact |-> f]
  BY DEF NewBatch
<1> HIDE DEF h
<1>3. NewBatch(n, i, f) \in Batches
  BY <1>1, <1>2 DEF Batches, Cursors
<1> QED BY <1>1, <1>2, <1>3, NoneIsNoBatch DEF h

LEMMA JobTypes ==
    /\ NoJob \in Jobs /\ NoJob.batch = None /\ NoJob.kind = "none"
    /\ NoJob.step = "append"
    /\ \A k \in {"recover", "takeover", "reconcile", "refresh", "actor", "control", "goal"} :
       \A b \in Batches \cup {None} : \A n \in Nat :
          /\ Job(k, b, n) \in Jobs /\ Job(k, b, n).kind = k
          /\ Job(k, b, n).batch = b /\ Job(k, b, n).step = "append"
  BY DEF NoJob, Job, Jobs

(* What the two writes leave behind.                                       *)
LEMMA FileTypes ==
    ASSUME CoreOK, NEW b \in Batches
    PROVE  /\ WithPrepared(b) \in Files /\ WithCommitted(b.id) \in Files
           /\ WithPrepared(b).committed = disk.committed
           /\ WithPrepared(b).prepared = IF b \in Range(disk.prepared)
                                         THEN disk.prepared
                                         ELSE Append(disk.prepared, b)
           /\ WithCommitted(b.id).prepared = disk.prepared
           /\ WithCommitted(b.id).committed = disk.committed \cup {b.id}
<1>1. disk \in Files /\ b.id \in Nat
  BY DEF CoreOK, Batches
<1> QED BY <1>1 DEF Files, WithPrepared, WithCommitted

(* The retained batches and the publications are batches.                  *)
LEMMA SuffixTypes ==
    ASSUME NEW s \in Seq(Batches), NEW b \in Batches
    PROVE  /\ Push(s, b) \in Seq(Batches)
           /\ \A h : Repaired(s, h) \in Seq(Batches)
           /\ Within(Append(s, b)) \in Seq(Batches)
<1>1. Append(s, b) \in Seq(Batches) /\ Append(<< >>, b) \in Seq(Batches)
      /\ << >> \in Seq(Batches)
  OBVIOUS
<1> QED BY <1>1, WithinEnds DEF Push, Repaired

(* The steps of a commit that end it or go on with it.                     *)
LEMMA DownTypes ==
    ASSUME TypeOK, Down
    PROVE  /\ HubOK'
           /\ pc' = "down" /\ index' \in [DOMAIN index' -> BOOLEAN]
           /\ applied' \in Seq(Batches) /\ publications' \in Seq(Batches)
           /\ nextSeq' \in Nat /\ incomplete' = None /\ held' = None /\ job' \in Jobs
<1>1. NoHub \in Hubs
  BY DEF NoHub, Hubs, Origin, Cursors
<1>2. NoLane \in Subscribers
  BY DEF NoLane, Subscribers
<1>3. view' = view /\ at' = at /\ hub' = NoHub /\ lane' = [l \in Lanes |-> NoLane]
  BY DEF Down
<1>4. HubOK'
  BY <1>1, <1>2, <1>3, TypeSplit DEF HubOK
<1>5. /\ pc' = "down" /\ index' = << >> /\ applied' = << >> /\ nextSeq' = 0
      /\ incomplete' = None /\ publications' = << >> /\ job' = NoJob /\ held' = None
  BY DEF Down
<1>6. << >> \in Seq(Batches) /\ << >> \in [DOMAIN << >> -> BOOLEAN]
  OBVIOUS
<1> QED BY <1>4, <1>5, <1>6, JobTypes

(* Memory that has the types it should have after a step.                  *)
MemoryOK ==
    /\ nextSeq \in Nat
    /\ pc \in {"down", "recovering", "starting", "refreshed", "up", "sealed"}
    /\ index \in [DOMAIN index -> BOOLEAN]
    /\ applied \in Seq(Batches) /\ publications \in Seq(Batches)
    /\ incomplete \in Batches \cup {None} /\ held \in Batches \cup {None}
    /\ job \in Jobs /\ acked \in SUBSET Nat

LEMMA CoreSplit ==
    ASSUME MemoryOK', CoreOK, disk' \in Files, faults' \in Nat,
           epoch' \in Nat, built' \in Nat, crashes' \in Nat
    PROVE  CoreOK'
  BY DEF MemoryOK, CoreOK

LEMMA GiveUpTypes ==
    ASSUME TypeOK, NEW c \in BOOLEAN, GiveUp(c)
    PROVE  MemoryOK' /\ HubOK'
<1>1. CoreOK /\ HubOK
  BY TypeSplit
<1>2. CASE Down /\ UNCHANGED acked
  <2>1. MemoryOK'
    BY <1>1, <1>2, DownTypes DEF MemoryOK, CoreOK
  <2> QED BY <1>2, <2>1, DownTypes
<1>3. CASE /\ job' = NoJob
           /\ held' = IF job.kind = "control" /\ c THEN job.batch ELSE held
           /\ UNCHANGED <<pc, index, coordVars, hub, laneVars, acked>>
  <2>1. job.batch \in Batches \cup {None}
    BY <1>1 DEF CoreOK, Jobs
  <2>2. held' \in Batches \cup {None} /\ job' \in Jobs
    BY <1>1, <1>3, <2>1, JobTypes DEF CoreOK
  <2>3. MemoryOK'
    BY <1>1, <1>3, <2>2 DEF CoreOK, MemoryOK, coordVars
  <2> QED BY <1>1, <1>3, <2>3 DEF HubOK, laneVars
<1> QED BY <1>2, <1>3 DEF GiveUp

LEMMA RetryTypes ==
    ASSUME TypeOK, NEW c \in BOOLEAN, Retry(c)
    PROVE  MemoryOK' /\ HubOK'
<1>1. CoreOK /\ HubOK
  BY TypeSplit
<1>2. CASE /\ job.left > 1 /\ job' = [job EXCEPT !.left = @ - 1, !.step = "append"]
           /\ UNCHANGED <<pc, index, coordVars, held, hub, laneVars, acked>>
  <2>1. job' \in Jobs
    <3> DEFINE n == job.left - 1
    <3>1. job \in Jobs /\ n \in Nat
      BY <1>1, <1>2 DEF CoreOK, Jobs
    <3>2. job' = [job EXCEPT !.left = n, !.step = "append"]
      BY <1>2
    <3> HIDE DEF n
    <3> QED BY <3>1, <3>2 DEF Jobs
  <2>3. MemoryOK'
    BY <1>1, <1>2, <2>1 DEF CoreOK, MemoryOK, coordVars
  <2> QED BY <1>1, <1>2, <2>3 DEF HubOK, laneVars
<1>3. CASE GiveUp(c)
  BY <1>3, GiveUpTypes
<1> QED BY <1>2, <1>3 DEF Retry

(* Success.                                                                *)
LEMMA SucceedTypes ==
    ASSUME TypeOK, job.batch # None, Succeed
    PROVE  /\ acked' \in SUBSET Nat /\ held' \in Batches \cup {None}
           /\ job' \in Jobs
           /\ pc' \in {"down", "recovering", "starting", "refreshed", "up", "sealed"}
<1>1. CoreOK /\ job.batch \in Batches
  BY TypeSplit DEF CoreOK, Jobs
<1>2. job.batch.id \in Nat
  BY <1>1 DEF Batches
<1>3. Job("takeover", None, 1) \in Jobs /\ NoJob \in Jobs
  BY JobTypes
<1> QED BY <1>1, <1>2, <1>3 DEF CoreOK, Succeed

(* The batch becomes the incomplete one.                                   *)
LEMMA ReserveTypes ==
    ASSUME TypeOK, NEW b \in Batches, Reserve(b)
    PROVE  MemoryOK' /\ HubOK'
<1>1. CoreOK /\ HubOK
  BY TypeSplit
<1>2. job' \in Jobs
  BY <1>1 DEF CoreOK, Jobs, Reserve
<1>3. b.after.seq \in Nat
  BY DEF Batches, Cursors
<1>4. index' \in [DOMAIN index' -> BOOLEAN]
  BY <1>1 DEF CoreOK, Reserve
<1>5. MemoryOK'
  BY <1>1, <1>2, <1>3, <1>4 DEF MemoryOK, CoreOK, Reserve
<1>6. UNCHANGED <<hub, lane, view, at>>
  BY DEF Reserve, laneVars
<1> QED BY <1>1, <1>5, <1>6 DEF HubOK

(* What happens to a lane keeps it one.                                    *)
LEMMA LaneTypes ==
    ASSUME NEW n \in Subscribers, NEW b \in Batches
    PROVE  /\ Delivered(n, b) \in Subscribers /\ Gapped(n) \in Subscribers
           /\ [n EXCEPT !.queue = Append(@, Sealed)] \in Subscribers
           /\ n.queue # << >> => Taken(n) \in Subscribers
           /\ NoLane \in Subscribers
           /\ [st |-> "live", queue |-> << >>] \in Subscribers
<1> DEFINE q == n.queue
<1>1. q \in Seq(Items) /\ n.st \in {"none", "live", "retired"}
  BY DEF Subscribers
<1>2. Batch(b) \in Items /\ Gap \in Items /\ Sealed \in Items
  BY ItemKinds
<1>3. /\ Append(q, Batch(b)) \in Seq(Items) /\ Append(q, Gap) \in Seq(Items)
      /\ Append(q, Sealed) \in Seq(Items) /\ << >> \in Seq(Items)
      /\ q # << >> => Tail(q) \in Seq(Items)
  BY <1>1, <1>2
<1>4. \A r \in Seq(Items) : /\ [n EXCEPT !.queue = r] \in Subscribers
                            /\ [st |-> "retired", queue |-> r] \in Subscribers
                            /\ [st |-> "live", queue |-> r] \in Subscribers
                            /\ [st |-> "none", queue |-> r] \in Subscribers
  BY DEF Subscribers
<1>5. Delivered(n, b) \in Subscribers /\ Gapped(n) \in Subscribers
  BY <1>3, <1>4 DEF Delivered, Gapped
<1>6. /\ [st |-> "live", queue |-> << >>] \in Subscribers
      /\ NoLane \in Subscribers
  BY <1>3, <1>4, Zenon DEF NoLane
<1>7. n.queue # << >> => Taken(n) \in Subscribers
  BY <1>3, <1>4, <1>6 DEF Taken
<1>8. [n EXCEPT !.queue = Append(@, Sealed)] \in Subscribers
  BY <1>3, <1>4
<1> QED BY <1>5, <1>6, <1>7, <1>8

(* The batch becomes state.                                                *)
LEMMA MaterializeTypes ==
    ASSUME TypeOK, NEW b \in Batches, Materialize(b)
    PROVE  /\ HubOK' /\ index' \in [DOMAIN index' -> BOOLEAN]
           /\ applied' \in Seq(Batches) /\ publications' \in Seq(Batches)
           /\ nextSeq' \in Nat /\ incomplete' = None
<1>1. CoreOK /\ HubOK
  BY TypeSplit
<1>a. index \in [DOMAIN index -> BOOLEAN] /\ index' = [index EXCEPT ![b.id] = TRUE]
  BY <1>1 DEF CoreOK, Materialize
<1>b. \A D : index \in [D -> BOOLEAN] => index' \in [D -> BOOLEAN]
  BY <1>a, Zenon
<1>c. index' \in [DOMAIN index -> BOOLEAN] /\ DOMAIN index' = DOMAIN index
  BY <1>a, <1>b
<1>2. applied' \in Seq(Batches) /\ index' \in [DOMAIN index' -> BOOLEAN]
  BY <1>1, <1>c DEF CoreOK, Materialize
<1>3. nextSeq' \in Nat /\ incomplete' = None /\ view' = view /\ at' = at
  BY <1>1 DEF CoreOK, Materialize
<1>4. CASE hub.bound
  <2>1. ApplyCommitted(b) /\ publications' = publications
    BY <1>4 DEF Materialize
  <2>2. b.after \in Cursors /\ hub.retained \in Seq(Batches)
    BY <1>1 DEF Batches, HubOK, Hubs
  <2>3. Within(Append(hub.retained, b)) \in Seq(Batches) /\ << >> \in Seq(Batches)
    BY <2>2, SuffixTypes
  <2>4. hub' \in Hubs
    BY <1>1, <2>1, <2>2, <2>3 DEF ApplyCommitted, Hubs, HubOK
  <2>5. \A l \in Lanes : lane[l] \in Subscribers
    BY <1>1 DEF HubOK
  <2>6. \A l \in Lanes : Delivered(lane[l], b) \in Subscribers
                         /\ Gapped(lane[l]) \in Subscribers
    BY <2>5, LaneTypes
  <2>7. lane' \in [Lanes -> Subscribers]
    BY <2>1, <2>6 DEF ApplyCommitted
  <2> QED BY <1>1, <1>2, <1>3, <2>1, <2>4, <2>7 DEF HubOK, CoreOK
<1>5. CASE ~hub.bound
  <2>1. publications' = Push(publications, b) /\ hub' = hub /\ lane' = lane
    BY <1>5 DEF Materialize
  <2>2. publications' \in Seq(Batches)
    BY <1>1, <2>1, SuffixTypes DEF CoreOK
  <2> QED BY <1>1, <1>2, <1>3, <2>1, <2>2 DEF HubOK
<1> QED BY <1>4, <1>5

(* A log that replays, and whether its last batch is committed.            *)
LEMMA LogReplayed ==
    ASSUME CoreOK, Replays
    PROVE  IF disk.prepared = History THEN TRUE
           ELSE /\ disk.prepared # << >> /\ Last(disk.prepared) \in Batches
                /\ disk.prepared = Append(History, Last(disk.prepared))
                /\ Last(disk.prepared).id \notin disk.committed
<1> DEFINE s == disk.prepared
<1>1. disk \in Files /\ s \in Seq(Batches)
  BY DEF CoreOK, Files
<1>2. \A k \in DOMAIN s : k < Len(s) => s[k].id \in disk.committed
  BY DEF Replays
<1>3. IF s # << >> => Last(s).id \in disk.committed THEN HistoryOf(disk) = s
      ELSE HistoryOf(disk) # s /\ s # << >> /\ s = Append(HistoryOf(disk), Last(s))
  BY <1>1, <1>2, HistoryReplayed
<1>4. s # << >> => Last(s) \in Batches
  BY <1>1 DEF Last
<1> HIDE DEF s
<1> QED BY <1>3, <1>4, HistoryIs DEF s

LEMMA AppendTypes ==
    ASSUME TypeOK, CommitAppend
    PROVE  TypeOK'
<1> DEFINE b == job.batch
<1>1. CoreOK /\ HubOK /\ b # None /\ b \in Batches
  BY TypeSplit DEF CommitAppend, CoreOK, Jobs
<1>2. /\ epoch' = epoch /\ built' = built /\ crashes' = crashes
      /\ epoch \in Nat /\ built \in Nat /\ crashes \in Nat /\ faults \in Nat
      /\ disk \in Files
  BY <1>1 DEF CommitAppend, CoreOK
<1>3. WithPrepared(b) \in Files
  BY <1>1, FileTypes
<1>4. CASE Succeed /\ UNCHANGED <<disk, index, coordVars, hub, laneVars, faults>>
  <2>1. MemoryOK' /\ HubOK'
    BY <1>1, <1>4, SucceedTypes DEF MemoryOK, HubOK, CoreOK, coordVars, laneVars
  <2> QED BY <1>1, <1>2, <1>4, <2>1, CoreSplit, TypeSplit
<1>5. CASE GiveUp(FALSE) /\ UNCHANGED <<disk, faults>>
  BY <1>1, <1>2, <1>5, GiveUpTypes, CoreSplit, TypeSplit
<1>6. CASE Reserve(b) /\ UNCHANGED <<disk, faults>>
  BY <1>1, <1>2, <1>6, ReserveTypes, CoreSplit, TypeSplit
<1>7. CASE Written(WithPrepared(b)) /\ Reserve(b)
  <2>1. disk' \in Files /\ faults' \in Nat
    BY <1>2, <1>3, <1>7 DEF Written
  <2> QED BY <1>1, <1>2, <1>7, <2>1, ReserveTypes, CoreSplit, TypeSplit
<1>8. CASE WriteFails(WithPrepared(b)) /\ Retry(FALSE)
  <2>1. disk' \in Files /\ faults' \in Nat
    BY <1>2, <1>3, <1>8 DEF WriteFails
  <2> QED BY <1>1, <1>2, <1>8, <2>1, RetryTypes, CoreSplit, TypeSplit
<1> QED BY <1>4, <1>5, <1>6, <1>7, <1>8 DEF CommitAppend

LEMMA CheckpointTypes ==
    ASSUME TypeOK, CommitCheckpoint
    PROVE  TypeOK'
<1> DEFINE b == job.batch
<1>1. CoreOK /\ HubOK /\ b # None /\ b \in Batches
  BY TypeSplit DEF CommitCheckpoint, CoreOK, Jobs
<1>2. /\ epoch' = epoch /\ built' = built /\ crashes' = crashes
      /\ epoch \in Nat /\ built \in Nat /\ crashes \in Nat /\ faults \in Nat
      /\ disk \in Files
  BY <1>1 DEF CommitCheckpoint, CoreOK
<1>3. WithCommitted(b.id) \in Files
  BY <1>1, FileTypes
<1>4. CASE Written(WithCommitted(b.id)) /\ Materialize(b) /\ Succeed
  <2>1. disk' \in Files /\ faults' \in Nat
    BY <1>2, <1>3, <1>4 DEF Written
  <2>2. MemoryOK' /\ HubOK'
    BY <1>1, <1>4, SucceedTypes, MaterializeTypes DEF MemoryOK
  <2> QED BY <1>1, <1>2, <2>1, <2>2, CoreSplit, TypeSplit
<1>5. CASE WriteFails(WithCommitted(b.id)) /\ Retry(TRUE)
  <2>1. disk' \in Files /\ faults' \in Nat
    BY <1>2, <1>3, <1>5 DEF WriteFails
  <2> QED BY <1>1, <1>2, <1>5, <2>1, RetryTypes, CoreSplit, TypeSplit
<1> QED BY <1>4, <1>5 DEF CommitCheckpoint

LEMMA StartTypes ==
    ASSUME TypeOK, Start
    PROVE  TypeOK'
<1>1. CoreOK /\ HubOK /\ disk \in Files
  BY TypeSplit DEF CoreOK
<1>2. /\ epoch' \in Nat /\ built' \in Nat /\ crashes' \in Nat /\ faults' \in Nat
      /\ disk' \in Files /\ acked' = acked /\ held' = held
      /\ UNCHANGED <<hub, lane, view, at>>
  BY <1>1 DEF Start, CoreOK, laneVars
<1>3. HubOK'
  BY <1>1, <1>2 DEF HubOK
<1>o. Opens => Replays
  BY DEF Opens
<1>4. CASE ~Opens
  <2>1. UNCHANGED <<pc, index, applied, nextSeq, incomplete, publications, job>>
    BY <1>4 DEF Start, coordVars
  <2>2. MemoryOK'
    BY <1>1, <1>2, <2>1 DEF MemoryOK, CoreOK
  <2> QED BY <1>1, <1>2, <1>3, <2>2, CoreSplit, TypeSplit
<1>5. CASE Opens
  <2>1. History \in Seq(Batches)
    BY <1>1, HistoryIs, HistoryType
  <2>2. applied' \in Seq(Batches) /\ publications' \in Seq(Batches)
    BY <1>5, <2>1, WithinEnds DEF Start
  <2>3. index' \in [DOMAIN index' -> BOOLEAN]
    <3> DEFINE D == Range(Ids(disk.prepared))
    <3>1. index' = [id \in D |-> id \in disk.committed]
      BY <1>5 DEF Start
    <3> HIDE DEF D
    <3> DEFINE f == [id \in D |-> id \in disk.committed]
    <3>2. DOMAIN f = D
      OBVIOUS
    <3>3. \A id \in D : f[id] \in BOOLEAN
      OBVIOUS
    <3>4. f = [id \in D |-> f[id]]
      OBVIOUS
    <3> HIDE DEF f
    <3>5. f \in [D -> BOOLEAN]
      BY <3>2, <3>3, <3>4
    <3> QED BY <3>1, <3>2, <3>5 DEF f
  <2>4. nextSeq' \in Nat
    <3>1. HeadOf(disk.prepared) \in Cursors
      BY <1>1, HeadOfType DEF Files
    <3> QED BY <1>5, <3>1 DEF Start, Cursors
  <2>5. /\ incomplete' \in Batches \cup {None}
        /\ job' \in Jobs /\ pc' \in {"starting", "recovering"}
    <3>1. CASE disk.prepared = History
      <4>1. Job("takeover", None, 1) \in Jobs /\ NoJob \in Jobs
        BY JobTypes
      <4> QED BY <1>5, <3>1, <4>1 DEF Start
    <3>2. CASE disk.prepared # History
      <4>1. Last(disk.prepared) \in Batches
        BY <1>1, <1>o, <1>5, <3>2, LogReplayed
      <4>2. Job("recover", Last(disk.prepared), 1) \in Jobs
        BY <4>1, JobTypes
      <4> QED BY <1>5, <3>2, <4>1, <4>2 DEF Start
    <3> QED BY <3>1, <3>2
  <2>6. MemoryOK'
    BY <1>1, <1>2, <2>2, <2>3, <2>4, <2>5 DEF MemoryOK, CoreOK
  <2> QED BY <1>1, <1>2, <1>3, <2>6, CoreSplit, TypeSplit
<1> QED BY <1>4, <1>5

LEMMA LifeTypes ==
    ASSUME TypeOK, Bind \/ Seal \/ Close \/ Crash
    PROVE  TypeOK'
<1>1. CoreOK /\ HubOK /\ disk \in Files
  BY TypeSplit DEF CoreOK
<1>2. CASE Bind
  <2>1. HeadOf(applied) \in Cursors
    BY <1>1, HeadOfType DEF CoreOK
  <2>2. Repaired(publications, HeadOf(applied)) \in Seq(Batches)
    BY <1>1, WithinEnds DEF CoreOK, Repaired
  <2>3. hub' \in Hubs
    BY <1>2, <2>1, <2>2 DEF Bind, Hubs
  <2>4. HubOK'
    BY <1>1, <1>2, <2>3 DEF Bind, HubOK, laneVars
  <2>5. CoreOK'
    BY <1>1, <1>2 DEF Bind, CoreOK
  <2> QED BY <2>4, <2>5, TypeSplit
<1>3. CASE Seal
  <2>1. hub' \in Hubs
    BY <1>1, <1>3 DEF Seal, HubOK, Hubs
  <2>2. \A l \in Lanes : /\ lane[l] \in Subscribers
                         /\ [lane[l] EXCEPT !.queue = Append(@, Sealed)] \in Subscribers
    <3>1. \A n \in Subscribers : [n EXCEPT !.queue = Append(@, Sealed)] \in Subscribers
      <4>1. ASSUME NEW n \in Subscribers
            PROVE  [n EXCEPT !.queue = Append(@, Sealed)] \in Subscribers
        <5>1. n.queue \in Seq(Items) /\ Sealed \in Items
          BY ItemKinds DEF Subscribers
        <5>2. Append(n.queue, Sealed) \in Seq(Items)
          BY <5>1
        <5> QED BY <5>2 DEF Subscribers
      <4> QED BY <4>1
    <3> QED BY <1>1, <3>1 DEF HubOK
  <2>3. lane' \in [Lanes -> Subscribers]
    BY <1>3, <2>2 DEF Seal
  <2>4. HubOK'
    BY <1>1, <1>3, <2>1, <2>3 DEF Seal, HubOK
  <2>5. CoreOK'
    BY <1>1, <1>3 DEF Seal, CoreOK, coordVars
  <2> QED BY <2>4, <2>5, TypeSplit
<1>4. CASE Close \/ Crash
  <2>1. Down /\ UNCHANGED <<disk, epoch, acked, built, faults>> /\ crashes' \in Nat
    BY <1>1, <1>4 DEF Close, Crash, CoreOK
  <2>2. MemoryOK'
    BY <1>1, <2>1, DownTypes DEF MemoryOK, CoreOK
  <2>3. CoreOK'
    BY <1>1, <2>1, <2>2, CoreSplit DEF CoreOK
  <2> QED BY <2>1, <2>3, DownTypes, TypeSplit
<1> QED BY <1>2, <1>3, <1>4

(* A step that only sets the actor's next commit up.                       *)
LEMMA JobStepTypes ==
    ASSUME TypeOK, job' \in Jobs, built' \in Nat,
           pc' \in {"down", "recovering", "starting", "refreshed", "up", "sealed"},
           UNCHANGED <<disk, epoch, index, coordVars, held, hub, laneVars, acked,
                       faults, crashes>>
    PROVE  TypeOK'
<1>1. CoreOK /\ HubOK
  BY TypeSplit
<1>2. CoreOK'
  BY <1>1 DEF CoreOK, coordVars
<1>3. HubOK'
  BY <1>1 DEF HubOK, laneVars
<1> QED BY <1>2, <1>3, TypeSplit

Calls == Takeover \/ Reconcile \/ Refresh \/ Semantic \/ Control \/ Poll \/ RetryControl
         \/ RetryIncomplete

SubmitAny(b, k, n) ==
    /\ pc = "up" /\ job = NoJob /\ b \in Batches /\ b.id = built + 1
    /\ b.before = HeadOf(applied)
    /\ k \in {"actor", "control"} /\ n \in Nat
    /\ job' = Job(k, b, n)
    /\ built' = IF Admits(b) THEN built + 1 ELSE built
    /\ UNCHANGED <<disk, epoch, pc, index, coordVars, held, hub, laneVars, acked,
                   faults, crashes>>

(* The callers submit a batch at the head of the state.                    *)
LEMMA Submitted ==
    ASSUME TypeOK, Semantic \/ Control \/ Poll
    PROVE  \E b, k, n : SubmitAny(b, k, n)
<1>1. CoreOK /\ HeadOf(applied).inc \in Nat /\ Attempts \in Nat
      /\ \A n \in Sizes : n \in Nat \ {0}
  BY TypeSplit, HeadOfType, SurfaceBounds DEF CoreOK, Cursors
<1>2. ASSUME NEW k \in {"actor", "control"}, NEW n \in Nat \ {0}, NEW f \in Facts,
             NEW a \in Nat, Submit(k, n, f, a)
      PROVE  \E b, x, y : SubmitAny(b, x, y)
  <2> DEFINE b == NewBatch(n, HeadOf(applied).inc, f)
  <2>1. b \in Batches /\ b.id = built + 1 /\ b.before = HeadOf(applied)
    BY <1>1, NewBatchIs
  <2>2. /\ pc = "up" /\ job = NoJob /\ job' = Job(k, b, a)
        /\ built' = IF Admits(b) THEN built + 1 ELSE built
        /\ UNCHANGED <<disk, epoch, pc, index, coordVars, held, hub, laneVars,
                       acked, faults, crashes>>
    BY <1>2 DEF Submit
  <2> HIDE DEF b
  <2>3. SubmitAny(b, k, a)
    BY <2>1, <2>2 DEF SubmitAny
  <2> QED BY <2>3
<1>3. CASE Semantic
  BY <1>1, <1>2, <1>3 DEF Semantic, Facts
<1>4. CASE Control
  BY <1>1, <1>2, <1>4 DEF Control, Facts
<1>5. CASE Poll
  <2>1. 1 \in Nat \ {0} /\ "settles" \in Facts /\ "actor" \in {"actor", "control"}
    BY DEF Facts
  <2>2. Submit("actor", 1, "settles", Attempts)
    BY <1>5 DEF Poll
  <2> QED BY <1>1, <1>2, <2>1, <2>2, Zenon
<1> QED BY <1>3, <1>4, <1>5

LEMMA CallTypes ==
    ASSUME TypeOK, Calls
    PROVE  TypeOK'
<1>1. CoreOK /\ HeadOf(applied).inc \in Nat /\ Attempts \in Nat
  BY TypeSplit, HeadOfType, SurfaceBounds DEF CoreOK, Cursors
<1>2. CASE Takeover
  <2>1. NewBatch(1, epoch, "none") \in Batches
    <3>1. epoch \in Nat /\ 1 \in Nat \ {0} /\ "none" \in Facts
      BY <1>1 DEF CoreOK, Facts
    <3> QED BY <1>1, <3>1, NewBatchIs, Zenon
  <2>2. job' \in Jobs
    BY <1>1, <1>2, <2>1 DEF CoreOK, Jobs, Takeover
  <2> QED BY <1>1, <1>2, <2>2, JobStepTypes DEF Takeover, CoreOK
<1>3. CASE Refresh
  <2>1. NewBatch(1, HeadOf(applied).inc, "none") \in Batches
    <3>1. 1 \in Nat \ {0} /\ "none" \in Facts
      BY DEF Facts
    <3> QED BY <1>1, <3>1, NewBatchIs, Zenon
  <2>2. job' \in Jobs
    BY <1>1, <1>3, <2>1, JobTypes DEF Refresh
  <2> QED BY <1>1, <1>3, <2>2, JobStepTypes DEF Refresh, CoreOK
<1>7. CASE Reconcile
  <2>1. PICK n \in Sizes : job' = Job("reconcile", NewBatch(n, HeadOf(applied).inc, "none"), 1)
    BY <1>7 DEF Reconcile
  <2>2. NewBatch(n, HeadOf(applied).inc, "none") \in Batches
    <3>1. n \in Nat \ {0} /\ "none" \in Facts
      BY SurfaceBounds DEF Facts
    <3> QED BY <1>1, <3>1, NewBatchIs, Zenon
  <2>3. job' \in Jobs
    BY <2>1, <2>2, JobTypes
  <2> QED BY <1>1, <1>7, <2>3, JobStepTypes DEF Reconcile, CoreOK
<1>4. CASE Semantic \/ Control \/ Poll
  <2>1. PICK b, k, n : SubmitAny(b, k, n)
    BY <1>4, Submitted
  <2>2. job' \in Jobs
    BY <2>1, JobTypes DEF SubmitAny
  <2> QED BY <1>1, <2>1, <2>2, JobStepTypes DEF SubmitAny, CoreOK
<1>5. CASE RetryControl
  <2>1. job' \in Jobs
    BY <1>1, <1>5, JobTypes DEF RetryControl, CoreOK
  <2> QED BY <1>1, <1>5, <2>1, JobStepTypes DEF RetryControl, CoreOK
<1>6. CASE RetryIncomplete
  <2>1. job' \in Jobs
    BY <1>1, <1>6, JobTypes DEF RetryIncomplete, CoreOK
  <2> QED BY <1>1, <1>6, <2>1, JobStepTypes DEF RetryIncomplete, CoreOK
<1> QED BY <1>2, <1>3, <1>4, <1>5, <1>6, <1>7 DEF Calls

(* The ids of a sequence of batches.                                       *)
LEMMA IdsType ==
    ASSUME NEW s \in Seq(Batches)
    PROVE  /\ Ids(s) \in Seq(Nat) /\ Len(Ids(s)) = Len(s)
           /\ DOMAIN s = 1..Len(s) /\ Len(s) \in Nat /\ DOMAIN Ids(s) = 1..Len(s)
           /\ \A k \in 1..Len(s) : Ids(s)[k] = s[k].id
<1>1. DOMAIN s = 1..Len(s) /\ Len(s) \in Nat /\ \A k \in 1..Len(s) : s[k] \in Batches
  OBVIOUS
<1>2. \A b \in Batches : b.id \in Nat
  BY DEF Batches
<1>3. Ids(s) = [k \in 1..Len(s) |-> s[k].id]
  BY <1>1 DEF Ids
<1>4. \A k \in 1..Len(s) : s[k].id \in Nat
  BY <1>1, <1>2
<1> QED BY <1>1, <1>3, <1>4, IsASeq

LEMMA ReplayType ==
    ASSUME TypeOK, NEW c PROVE Replay(c) \in Seq(Batches)
<1> DEFINE s == hub.retained  K == {k \in DOMAIN s : s[k].after.seq > c.seq}
<1>1. s \in Seq(Batches)
  BY TypeSplit DEF HubOK, Hubs
<1>2. Replay(c) = Selected(s, K)
  BY DEF Replay
<1> HIDE DEF s, K
<1> QED BY <1>1, <1>2, SelectedType

LEMMA ClientTypes ==
    ASSUME TypeOK, NEW l \in Lanes, Client(l)
    PROVE  TypeOK'
<1>1. /\ CoreOK /\ HubOK /\ lane[l] \in Subscribers /\ view[l] \in Seq(Nat)
      /\ lane[l].queue \in Seq(Items)
  BY TypeSplit DEF HubOK, Subscribers
<1>2. UNCHANGED <<disk, epoch, pc, index, coordVars, job, held, hub, acked, built,
                  faults, crashes>>
  BY DEF Client, AttachFresh, AttachAfter, Registers, Receive, Leave
<1>3. CoreOK'
  BY <1>1, <1>2 DEF CoreOK, coordVars
<1>4. CASE AttachFresh(l) \/ AttachAfter(l)
  <2>a. Registers(l)
    BY <1>4 DEF AttachFresh, AttachAfter
  <2>1. [st |-> "live", queue |-> << >>] \in Subscribers
    <3>1. << >> \in Seq(Items)
      OBVIOUS
    <3> QED BY <3>1 DEF Subscribers
  <2>2. /\ lane' \in [Lanes -> Subscribers]
        /\ at' \in [Lanes -> Cursors]
    <3>1. hub.head \in Cursors
      BY <1>1 DEF HubOK, Hubs
    <3> QED BY <1>1, <2>a, <2>1, <3>1 DEF HubOK, Registers
  <2>3. /\ Ids(applied) \in Seq(Nat) /\ Ids(Replay(at[l])) \in Seq(Nat)
    BY <1>1, IdsType, ReplayType DEF CoreOK
  <2>4. (view[l] \o Ids(Replay(at[l]))) \in Seq(Nat)
    BY <1>1, <2>3
  <2>5. CASE AttachFresh(l)
    <3>1. view' \in [Lanes -> Seq(Nat)]
      BY <1>1, <2>3, <2>5 DEF HubOK, AttachFresh
    <3> QED BY <1>1, <1>2, <1>3, <2>2, <3>1, TypeSplit DEF HubOK
  <2>6. CASE AttachAfter(l)
    <3>1. view' \in [Lanes -> Seq(Nat)]
      BY <1>1, <2>4, <2>6 DEF HubOK, AttachAfter
    <3> QED BY <1>1, <1>2, <1>3, <2>2, <3>1, TypeSplit DEF HubOK
  <2> QED BY <1>4, <2>5, <2>6
<1>5. CASE Receive(l)
  <2>1. Taken(lane[l]) \in Subscribers
    <3>1. << >> \in Seq(Items) /\ Tail(lane[l].queue) \in Seq(Items)
      BY <1>1, <1>5 DEF Receive
    <3> QED BY <1>1, <3>1 DEF Taken, Subscribers, NoLane
  <2>2. lane' \in [Lanes -> Subscribers]
    BY <1>1, <1>5, <2>1 DEF Receive, HubOK
  <2>3. view' \in [Lanes -> Seq(Nat)] /\ at' \in [Lanes -> Cursors]
    <3> DEFINE x == Head(lane[l].queue)
    <3>1. x \in Items
      BY <1>1, <1>5 DEF Receive
    <3>2. CASE x.kind = "batch"
      <4>1. x.batch \in Batches
        BY <3>1, <3>2, ItemKinds
      <4>2. x.batch.id \in Nat /\ x.batch.after \in Cursors
        BY <4>1 DEF Batches
      <4>3. Append(view[l], x.batch.id) \in Seq(Nat)
        BY <1>1, <4>2
      <4>4. /\ view' = [view EXCEPT ![l] = Append(view[l], x.batch.id)]
            /\ at' = [at EXCEPT ![l] = x.batch.after]
        BY <1>5, <3>2 DEF Receive
      <4> QED BY <1>1, <4>2, <4>3, <4>4 DEF HubOK
    <3>3. CASE x.kind # "batch"
      BY <1>1, <1>5, <3>3 DEF Receive, HubOK
    <3> QED BY <3>2, <3>3
  <2> QED BY <1>1, <1>2, <1>3, <2>2, <2>3, TypeSplit DEF HubOK
<1>6. CASE Leave(l)
  <2>1. NoLane \in Subscribers
    <3>1. << >> \in Seq(Items)
      OBVIOUS
    <3> QED BY <3>1 DEF Subscribers, NoLane
  <2> QED BY <1>1, <1>2, <1>3, <1>6, <2>1, TypeSplit DEF HubOK, Leave
<1> QED BY <1>4, <1>5, <1>6 DEF Client

LEMMA InitTypes == Init => TypeOK
<1> SUFFICES ASSUME Init PROVE TypeOK
  OBVIOUS
<1>1. /\ NoJob \in Jobs /\ << >> \in Seq(Batches) /\ << >> \in Seq(Items)
      /\ << >> \in Seq(Nat) /\ Origin \in Cursors
  BY JobTypes DEF Origin, Cursors
<1>2. NoLane \in Subscribers /\ NoHub \in Hubs
  BY <1>1 DEF NoLane, Subscribers, NoHub, Hubs
<1>3. HubOK
  BY <1>1, <1>2 DEF Init, HubOK
<1>4. disk \in Files
  BY <1>1 DEF Init, Files
<1>5. index \in [DOMAIN index -> BOOLEAN]
  BY DEF Init
<1>6. CoreOK
  BY <1>1, <1>4, <1>5 DEF Init, CoreOK
<1> QED BY <1>3, <1>6, TypeSplit

LEMMA TypesKept == TypeOK /\ [Next]_vars => TypeOK'
<1> SUFFICES ASSUME TypeOK, [Next]_vars PROVE TypeOK'
  OBVIOUS
<1>1. CASE UNCHANGED vars
  BY <1>1 DEF vars, TypeOK
<1>2. CASE Next
  BY <1>2, AppendTypes, CheckpointTypes, StartTypes, LifeTypes, CallTypes,
     ClientTypes DEF Next, Calls
<1> QED BY <1>1, <1>2
-----------------------------------------------------------------------------
(***************************************************************************)
(* The log.                                                                *)
(***************************************************************************)
(* The ids that occur in a sequence of batches.                            *)
LEMMA IdsRange ==
    ASSUME NEW s \in Seq(Batches), NEW x
    PROVE  x \in Range(Ids(s)) <=> \E k \in 1..Len(s) : s[k].id = x
<1>1. /\ DOMAIN Ids(s) = 1..Len(s)
      /\ \A k \in 1..Len(s) : Ids(s)[k] = s[k].id
  BY IdsType
<1> QED BY <1>1 DEF Range

LEMMA IdsAppend ==
    ASSUME NEW s \in Seq(Batches), NEW b \in Batches
    PROVE  /\ Ids(Append(s, b)) = Append(Ids(s), b.id)
           /\ Range(Ids(Append(s, b))) = Range(Ids(s)) \cup {b.id}
<1> DEFINE t == Append(s, b)
<1>1. /\ t \in Seq(Batches) /\ Len(t) = Len(s) + 1 /\ t[Len(s) + 1] = b
      /\ \A k \in 1..Len(s) : t[k] = s[k]
      /\ b.id \in Nat /\ Len(s) \in Nat
  BY DEF Batches
<1> HIDE DEF t
<1>2. /\ Ids(t) \in Seq(Nat) /\ Len(Ids(t)) = Len(s) + 1
      /\ \A k \in 1..(Len(s) + 1) : Ids(t)[k] = t[k].id
      /\ Ids(s) \in Seq(Nat) /\ Len(Ids(s)) = Len(s)
      /\ \A k \in 1..Len(s) : Ids(s)[k] = s[k].id
  BY <1>1, IdsType
<1>3. /\ \A k \in 1..Len(s) : k \in 1..(Len(s) + 1)
      /\ Len(s) + 1 \in 1..(Len(s) + 1)
  BY <1>1
<1> DEFINE u == Ids(t)  v == Ids(s)
<1>4. Ids(t) = Append(Ids(s), b.id)
  <2>1. /\ u \in Seq(Nat) /\ v \in Seq(Nat) /\ Len(u) = Len(v) + 1
        /\ u[Len(v) + 1] = b.id /\ \A k \in 1..Len(v) : u[k] = v[k]
    BY <1>1, <1>2, <1>3
  <2> HIDE DEF u, v
  <2>2. u = Append(v, b.id)
    BY <1>1, <2>1
  <2> QED BY <2>2 DEF u, v
<1>5. ASSUME NEW x PROVE x \in Range(Ids(t)) <=> x \in Range(Ids(s)) \cup {b.id}
  <2>1. x \in Range(Ids(t)) <=> \E k \in 1..(Len(s) + 1) : t[k].id = x
    BY <1>1, IdsRange
  <2>2. x \in Range(Ids(s)) <=> \E k \in 1..Len(s) : s[k].id = x
    BY IdsRange
  <2>3. (\E k \in 1..(Len(s) + 1) : t[k].id = x)
        <=> (\E k \in 1..Len(s) : s[k].id = x) \/ x = b.id
    BY <1>1
  <2> QED BY <2>1, <2>2, <2>3, Zenon
<1> QED BY <1>4, <1>5 DEF t

(* Batches that follow each other.                                         *)
Chain(s) == \A k \in DOMAIN s : s[k].before = CursorAt(s, k - 1)

LEMMA HeadIsCursor ==
    ASSUME NEW s \in Seq(Batches) PROVE HeadOf(s) = CursorAt(s, Len(s))
<1>1. s = << >> <=> Len(s) = 0
  OBVIOUS
<1> QED BY <1>1 DEF HeadOf, CursorAt, Last

LEMMA ChainAppend ==
    ASSUME NEW s \in Seq(Batches), NEW b \in Batches, Chain(s),
           b.before = HeadOf(s)
    PROVE  Chain(Append(s, b))
<1> DEFINE t == Append(s, b)
<1>1. /\ DOMAIN t = 1..(Len(s) + 1) /\ t[Len(s) + 1] = b /\ Len(s) \in Nat
      /\ \A k \in 1..Len(s) : t[k] = s[k]
      /\ DOMAIN s = 1..Len(s)
  OBVIOUS
<1> HIDE DEF t
<1>2. \A n \in 0..Len(s) : CursorAt(t, n) = CursorAt(s, n)
  BY <1>1 DEF CursorAt
<1>3. ASSUME NEW k \in DOMAIN t PROVE t[k].before = CursorAt(t, k - 1)
  <2>1. CASE k = Len(s) + 1
    <3>1. k - 1 = Len(s) /\ Len(s) \in 0..Len(s)
      BY <1>1, <2>1
    <3> QED BY <1>1, <1>2, <2>1, <3>1, HeadIsCursor
  <2>2. CASE k # Len(s) + 1
    <3>1. k \in 1..Len(s) /\ k - 1 \in 0..Len(s)
      BY <1>1, <2>2
    <3> QED BY <1>1, <1>2, <3>1 DEF Chain
  <2> QED BY <2>1, <2>2
<1> QED BY <1>3 DEF Chain, t

(* Along a chain the sequence numbers grow.                                *)
LEMMA ChainGrows ==
    ASSUME NEW s \in Seq(Batches), Chain(s),
           NEW i \in DOMAIN s, NEW j \in DOMAIN s, i < j
    PROVE  s[i].after.seq < s[j].after.seq
<1> DEFINE bad(m) == \E n \in DOMAIN s : n < m /\ ~(s[n].after.seq < s[m].after.seq)
           Bad == {m \in 1..Len(s) : bad(m)}
<1>1. SUFFICES ASSUME Bad # {} PROVE FALSE
  <2>1. ~(s[i].after.seq < s[j].after.seq) => bad(j)
    OBVIOUS
  <2>2. bad(j) => j \in Bad
    OBVIOUS
  <2> QED BY <2>1, <2>2
<1>2. PICK m \in Bad : \A n \in Bad : m <= n
  <2>1. Bad \in SUBSET Nat
    OBVIOUS
  <2> HIDE DEF Bad
  <2> QED BY <1>1, <2>1, LeastMember
<1>3. PICK n \in DOMAIN s : n < m /\ ~(s[n].after.seq < s[m].after.seq)
  BY <1>2
<1>4. /\ DOMAIN s = 1..Len(s) /\ Len(s) \in Nat
      /\ \A k \in 1..Len(s) : /\ s[k].before.seq \in Nat /\ s[k].after.seq \in Nat
                              /\ s[k].before.seq < s[k].after.seq
  <2>1. \A b \in Batches : /\ b.before.seq \in Nat /\ b.after.seq \in Nat
                           /\ b.before.seq < b.after.seq
    BY DEF Batches, Cursors
  <2>2. DOMAIN s = 1..Len(s) /\ Len(s) \in Nat /\ \A k \in 1..Len(s) : s[k] \in Batches
    OBVIOUS
  <2> QED BY <2>1, <2>2
<1>5. /\ m \in 1..Len(s) /\ m - 1 \in 1..Len(s) /\ m # 1
      /\ n \in 1..Len(s) /\ n <= m - 1
  BY <1>2, <1>3, <1>4
<1>6. s[m].before = s[m - 1].after
  <2>1. m \in DOMAIN s /\ m - 1 # 0
    BY <1>4, <1>5
  <2>2. s[m].before = CursorAt(s, m - 1)
    BY <2>1 DEF Chain
  <2> QED BY <2>1, <2>2, Zenon DEF CursorAt
<1>7. s[n].after.seq <= s[m - 1].after.seq
  <2>1. CASE n = m - 1
    BY <1>4, <1>5, <2>1
  <2>2. CASE n # m - 1
    <3>1. n < m - 1
      BY <1>5, <2>2
    <3>2. m - 1 \notin Bad
      BY <1>2, <1>5
    <3>3. ~bad(m - 1)
      BY <1>5, <3>2
    <3>4. s[n].after.seq < s[m - 1].after.seq
      BY <3>1, <3>3
    <3> QED BY <1>4, <1>5, <3>4
  <2> QED BY <2>1, <2>2
<1> QED BY <1>3, <1>4, <1>5, <1>6, <1>7

(* A batch of a chain starts before the chain's end.                       *)
LEMMA ChainBefore ==
    ASSUME NEW s \in Seq(Batches), Chain(s), NEW b \in Range(s)
    PROVE  b.before.seq # HeadOf(s).seq
<1>1. PICK i \in DOMAIN s : b = s[i]
  BY DEF Range
<1>2. /\ DOMAIN s = 1..Len(s) /\ Len(s) \in Nat /\ Len(s) \in DOMAIN s
      /\ s # << >> /\ HeadOf(s) = s[Len(s)].after
  BY DEF HeadOf, Last
<1>3. \A k \in 1..Len(s) : /\ s[k].before.seq \in Nat /\ s[k].after.seq \in Nat
                           /\ s[k].before.seq < s[k].after.seq
  BY DEF Batches, Cursors
<1>4. s[i].after.seq <= s[Len(s)].after.seq
  <2>1. CASE i = Len(s)
    BY <1>2, <1>3, <2>1
  <2>2. CASE i # Len(s)
    <3>1. i < Len(s)
      BY <1>2, <2>2
    <3>2. s[i].after.seq < s[Len(s)].after.seq
      BY <1>2, <3>1, ChainGrows
    <3> QED BY <1>2, <1>3, <3>2
  <2> QED BY <2>1, <2>2
<1> QED BY <1>1, <1>2, <1>3, <1>4

(* The writes that reach the file.                                         *)
Prepares ==
    /\ disk'.prepared = Append(disk.prepared, job.batch)
    /\ disk'.committed = disk.committed
    /\ job.batch \in Batches /\ Fresh(job.batch)
    /\ job.batch.id \notin Range(Ids(disk.prepared))
Commits == /\ incomplete # None /\ disk'.prepared = disk.prepared
           /\ disk'.committed = disk.committed \cup {incomplete.id}
LogStep == disk' = disk \/ Prepares \/ Commits

(* The history after them.                                                 *)
HistoryStep ==
    \/ History' = History
    \/ /\ incomplete # None /\ History = applied
       /\ History' = Append(applied, incomplete)

LogUnique(d) == \A i, j \in DOMAIN d.prepared :
                   d.prepared[i].id = d.prepared[j].id => i = j
LogIds(d, n) == \A i \in DOMAIN d.prepared : d.prepared[i].id \in 1..n

LEMMA LogInvIs ==
    /\ LogInv <=> /\ LogUnique(disk) /\ LogIds(disk, built) /\ Chain(History)
                  /\ disk.committed \subseteq Range(Ids(disk.prepared))
    /\ LogInv' <=> /\ LogUnique(disk') /\ LogIds(disk', built') /\ Chain(History')
                   /\ disk'.committed \subseteq Range(Ids(disk'.prepared))
  BY DEF LogInv, LogUnique, LogIds, Chain

LEMMA LogKept ==
    ASSUME TypeOK, TypeOK', LogInv, IncompleteInv, LogStep, built <= built'
    PROVE  LogInv' /\ HistoryStep
<1>1. /\ disk \in Files /\ disk' \in Files /\ built \in Nat /\ built' \in Nat
      /\ applied \in Seq(Batches) /\ incomplete \in Batches \cup {None}
      /\ disk.prepared \in Seq(Batches) /\ disk'.prepared \in Seq(Batches)
  BY TypeSplit DEF CoreOK, Files
<1>2. /\ LogUnique(disk) /\ LogIds(disk, built) /\ Chain(History)
      /\ disk.committed \subseteq Range(Ids(disk.prepared))
  BY LogInvIs
<1>3. CASE disk' = disk
  <2>1. LogIds(disk, built')
    BY <1>1, <1>2 DEF LogIds
  <2>2. History' = History
    BY <1>3, HistoryIs
  <2> QED BY <1>2, <1>3, <2>1, <2>2, LogInvIs DEF HistoryStep
<1>4. CASE Prepares
  <2> DEFINE b == job.batch  s == disk.prepared  t == disk'.prepared
  <2>1. /\ b \in Batches /\ t = Append(s, b) /\ disk'.committed = disk.committed
        /\ b.id \notin Range(Ids(s)) /\ b.id \in 1..built
        /\ b.id \notin disk.committed
    BY <1>4 DEF Prepares, Fresh
  <2>2. HistoryOf(disk') = HistoryOf(disk)
    BY <1>1, <2>1, HistoryPrepared
  <2>3. History' = History
    BY <2>2, HistoryIs
  <2>4. /\ DOMAIN s = 1..Len(s) /\ DOMAIN t = 1..(Len(s) + 1) /\ Len(s) \in Nat
        /\ t[Len(s) + 1] = b /\ \A k \in 1..Len(s) : t[k] = s[k]
    BY <1>1, <2>1
  <2>5. \A k \in 1..Len(s) : s[k].id # b.id
    BY <1>1, <2>1, IdsRange
  <2>6. LogUnique(disk')
    <3>1. ASSUME NEW i \in DOMAIN t, NEW j \in DOMAIN t, t[i].id = t[j].id PROVE i = j
      <4>1. CASE i \in 1..Len(s) /\ j \in 1..Len(s)
        BY <1>2, <2>4, <3>1, <4>1 DEF LogUnique
      <4>2. CASE i = Len(s) + 1 /\ j \in 1..Len(s)
        BY <2>4, <2>5, <3>1, <4>2
      <4>3. CASE j = Len(s) + 1 /\ i \in 1..Len(s)
        BY <2>4, <2>5, <3>1, <4>3
      <4> QED BY <2>4, <4>1, <4>2, <4>3
    <3> QED BY <3>1 DEF LogUnique
  <2>7. LogIds(disk', built')
    <3>1. \A k \in DOMAIN t : t[k].id \in 1..built
      BY <1>2, <2>1, <2>4 DEF LogIds
    <3> QED BY <1>1, <3>1 DEF LogIds
  <2>8. disk'.committed \subseteq Range(Ids(t))
    <3>1. Range(Ids(t)) = Range(Ids(s)) \cup {b.id}
      BY <1>1, <2>1, IdsAppend
    <3> QED BY <1>2, <2>1, <3>1
  <2> QED BY <1>2, <2>3, <2>6, <2>7, <2>8, LogInvIs DEF HistoryStep
<1>5. CASE Commits
  <2> DEFINE s == disk.prepared  b == incomplete
  <2>1. /\ b # None /\ b \in Batches /\ s # << >> /\ Last(s) = b
        /\ b.before = HeadOf(applied)
        /\ History = IF b.id \in disk.committed THEN Append(applied, b) ELSE applied
        /\ disk'.prepared = s /\ disk'.committed = disk.committed \cup {b.id}
    BY <1>1, <1>5 DEF Commits, IncompleteInv
  <2>2. LogUnique(disk') /\ LogIds(disk', built')
    BY <1>1, <1>2, <2>1 DEF LogUnique, LogIds
  <2>3. disk'.committed \subseteq Range(Ids(disk'.prepared))
    <3>1. Len(s) \in 1..Len(s) /\ s[Len(s)].id = b.id
      BY <1>1, <2>1 DEF Last
    <3>2. b.id \in Range(Ids(s))
      BY <1>1, <3>1, IdsRange
    <3> QED BY <1>2, <2>1, <3>2
  <2>4. CASE b.id \in disk.committed
    <3>1. disk'.committed = disk.committed
      BY <2>1, <2>4
    <3>2. HistoryOf(disk') = HistoryOf(disk)
      BY <2>1, <3>1 DEF HistoryOf, CommittedIn
    <3> QED BY <1>2, <2>2, <2>3, <3>2, HistoryIs, LogInvIs DEF HistoryStep
  <2>5. CASE b.id \notin disk.committed
    <3>1. HistoryOf(disk') = Append(HistoryOf(disk), b)
      BY <1>1, <1>2, <2>1, <2>5, HistoryCommitted DEF LogUnique
    <3>2. History' = Append(applied, b) /\ History = applied
      BY <2>1, <2>5, <3>1, HistoryIs
    <3>3. Chain(History')
      BY <1>1, <1>2, <2>1, <3>2, ChainAppend
    <3> QED BY <2>1, <2>2, <2>3, <3>2, <3>3, LogInvIs DEF HistoryStep
  <2> QED BY <2>4, <2>5
<1> QED BY <1>3, <1>4, <1>5 DEF LogStep

(* A record that is committed is history.                                  *)
LEMMA HistoryIsSeq == ASSUME TypeOK PROVE History \in Seq(Batches)
  BY TypeSplit, HistoryIs, HistoryType DEF CoreOK

LEMMA HistoryGrows ==
    ASSUME TypeOK, TypeOK', HistoryStep
    PROVE  /\ History \in Seq(Batches) /\ History' \in Seq(Batches)
           /\ Len(History) \in Nat /\ Len(History') \in Nat
           /\ DOMAIN History = 1..Len(History) /\ DOMAIN History' = 1..Len(History')
           /\ Len(History) <= Len(History')
           /\ \A k \in 1..Len(History) : History'[k] = History[k]
           /\ Range(Ids(History)) \subseteq Range(Ids(History'))
<1> DEFINE h == History  g == History'
<1>1. h \in Seq(Batches) /\ g \in Seq(Batches)
  BY TypeSplit, HistoryIs, HistoryType DEF CoreOK
<1>2. g = h \/ \E b \in Batches : g = Append(h, b)
  BY TypeSplit DEF HistoryStep, CoreOK
<1> HIDE DEF h, g
<1>3. /\ Len(h) <= Len(g) /\ \A k \in 1..Len(h) : g[k] = h[k]
      /\ Len(h) \in Nat /\ Len(g) \in Nat
      /\ DOMAIN h = 1..Len(h) /\ DOMAIN g = 1..Len(g)
  BY <1>1, <1>2
<1>4. Range(Ids(h)) \subseteq Range(Ids(g))
  BY <1>1, <1>2, IdsAppend
<1> QED BY <1>1, <1>3, <1>4 DEF h, g

(* A client's view of a history stays one when the history grows.          *)
LEMMA ViewGrown ==
    ASSUME TypeOK, TypeOK', HistoryStep, ViewInv, view' = view, at' = at,
           pc' # "down" => \A l \in Lanes : Len(view[l]) <= Len(applied')
    PROVE  ViewInv'
<1>1. /\ Len(History) \in Nat /\ Len(History') \in Nat
      /\ Len(History) <= Len(History')
      /\ \A k \in 1..Len(History) : History'[k] = History[k]
  BY HistoryGrows
<1> SUFFICES ASSUME NEW l \in Lanes
             PROVE  /\ Len(view[l]) <= Len(History')
                    /\ \A k \in DOMAIN view[l] : view[l][k] = History'[k].id
                    /\ at[l] = CursorAt(History', Len(view[l]))
                    /\ pc' # "down" => Len(view[l]) <= Len(applied')
  BY DEF ViewInv, CursorAt
<1> DEFINE v == view[l]
<1>2. v \in Seq(Nat)
  BY TypeSplit DEF HubOK
<1>3. /\ Len(v) <= Len(History)
      /\ \A k \in DOMAIN v : v[k] = History[k].id
      /\ at[l] = CursorAt(History, Len(v))
  BY DEF ViewInv
<1>4. Len(v) \in Nat /\ DOMAIN v = 1..Len(v)
  BY <1>2
<1> HIDE DEF v
<1>5. \A k \in DOMAIN v : v[k] = History'[k].id
  BY <1>1, <1>3, <1>4
<1>6. CursorAt(History', Len(v)) = CursorAt(History, Len(v))
  <2>1. CASE Len(v) = 0
    BY <2>1 DEF CursorAt
  <2>2. CASE Len(v) # 0
    <3>1. Len(v) \in 1..Len(History)
      BY <1>1, <1>3, <1>4, <2>2
    <3> QED BY <1>1, <2>2, <3>1 DEF CursorAt
  <2> QED BY <2>1, <2>2
<1> QED BY <1>1, <1>3, <1>4, <1>5, <1>6 DEF v

(* The process is gone.                                                    *)
LEMMA DownKept ==
    ASSUME SurfaceInv, TypeOK', pc # "down", LogStep, Down, acked' = acked,
           built' = built
    PROVE  SurfaceInv'
<1>1. /\ TypeOK /\ LogInv /\ IncompleteInv /\ AckedSurvives /\ ViewInv
      /\ built <= built'
  BY TypeSplit DEF SurfaceInv, CoordInv, CoreOK
<1>2. LogInv' /\ HistoryStep
  BY <1>1, LogKept
<1>3. /\ pc' = "down" /\ hub' = NoHub /\ lane' = [l \in Lanes |-> NoLane]
      /\ view' = view /\ at' = at /\ job' = NoJob /\ held' = None
  BY DEF Down
<1>4. ViewInv'
  BY <1>1, <1>2, <1>3, ViewGrown
<1>5. AckedSurvives'
  <2>1. acked' \subseteq Range(Ids(History'))
    BY <1>1, <1>2, HistoryGrows DEF AckedSurvives
  <2> QED BY <1>3, <2>1 DEF AckedSurvives
<1>6. PhaseInv'
  BY <1>3 DEF PhaseInv, NoHub, NoJob
<1>7. LaneInv'
  <2>1. Events(Queued(<< >>)) <= LaneLimit
    <3>1. Events(Queued(<< >>)) = 0
      BY QueuedEmpty, EventsEmpty, Zenon
    <3> QED BY <3>1, SurfaceBounds
  <2>2. ASSUME NEW l \in Lanes
        PROVE  lane'[l].queue = << >> /\ lane'[l].st = "none"
    BY <1>3 DEF NoLane
  <2>3. ASSUME NEW l \in Lanes PROVE Events(Queued(lane'[l].queue)) <= LaneLimit
    BY <2>1, <2>2, Zenon
  <2> QED BY <2>2, <2>3 DEF LaneInv
<1> QED BY <1>2, <1>3, <1>4, <1>5, <1>6, <1>7 DEF SurfaceInv, CoordInv

(* What the hub and the lanes owe is untouched.                            *)
LEMMA LanesSame ==
    ASSUME LaneInv, UNCHANGED <<lane, view, applied>>, hub'.bound = hub.bound
    PROVE  LaneInv'
  BY DEF LaneInv

(* A step that changes the log and the actor's business only.              *)
LEMMA StateSame ==
    ASSUME SurfaceInv, TypeOK', pc # "down", pc' # "down", LogStep,
           UNCHANGED <<index, coordVars, hub, laneVars>>, built <= built',
           acked' \subseteq acked \cup Range(Ids(applied))
    PROVE  /\ LogInv' /\ AckedSurvives' /\ IncompleteInv' /\ IndexInv' /\ SuffixInv'
           /\ ViewInv' /\ LaneInv'
<1>1. /\ TypeOK /\ LogInv /\ IncompleteInv /\ IndexInv /\ SuffixInv
      /\ AckedSurvives /\ ViewInv /\ LaneInv
  BY DEF SurfaceInv, CoordInv
<1>2. LogInv' /\ HistoryStep
  BY <1>1, LogKept
<1>3. UNCHANGED <<index, applied, nextSeq, incomplete, publications, hub, lane,
                  view, at>>
  BY DEF coordVars, laneVars
<1>4. ViewInv'
  BY <1>1, <1>2, <1>3, ViewGrown DEF ViewInv
<1>5. LaneInv'
  BY <1>1, <1>3, LanesSame
<1>6. SuffixInv'
  BY <1>1, <1>3 DEF SuffixInv
<1>7. AckedSurvives'
  <2>1. Range(Ids(applied)) \subseteq Range(Ids(History))
    <3>1. applied = History \/ \E b \in Batches : History = Append(applied, b)
      BY <1>1, TypeSplit DEF IncompleteInv, CoreOK
    <3> QED BY <1>1, <3>1, IdsAppend, TypeSplit DEF CoreOK
  <2>2. Range(Ids(History)) \subseteq Range(Ids(History'))
    BY <1>1, <1>2, HistoryGrows
  <2> QED BY <1>1, <1>3, <2>1, <2>2 DEF AckedSurvives
<1>8. disk.committed \subseteq disk'.committed
  BY DEF LogStep, Prepares, Commits
<1>9. IndexInv'
  BY <1>1, <1>3, <1>8 DEF IndexInv
<1>10. IncompleteInv'
  <2>1. CASE incomplete = None
    <3>1. History' = History
      BY <1>2, <2>1 DEF HistoryStep
    <3> QED BY <1>1, <1>3, <2>1, <3>1 DEF IncompleteInv
  <2>2. CASE incomplete # None
    <3>1. ~Prepares
      BY <2>2 DEF Prepares, Fresh
    <3>2. disk'.prepared = disk.prepared
      BY <3>1 DEF LogStep, Commits
    <3>3. CASE disk' = disk
      BY <1>1, <1>3, <2>2, <3>3, HistoryIs DEF IncompleteInv
    <3>4. CASE Commits
      <4>1. incomplete.id \in disk'.committed
        BY <3>4 DEF Commits
      <4>2. History' = Append(applied, incomplete)
        <5>1. CASE incomplete.id \in disk.committed
          <6>1. disk'.committed = disk.committed
            BY <3>4, <5>1 DEF Commits
          <6>2. HistoryOf(disk') = HistoryOf(disk)
            BY <3>2, <6>1 DEF HistoryOf, CommittedIn
          <6> QED BY <1>1, <2>2, <5>1, <6>2, HistoryIs DEF IncompleteInv
        <5>2. CASE incomplete.id \notin disk.committed
          <6>1. /\ disk.prepared # << >> /\ Last(disk.prepared) = incomplete
                /\ History = applied
            BY <1>1, <2>2, <5>2 DEF IncompleteInv
          <6>2. /\ disk \in Files /\ disk' \in Files
            BY <1>1, TypeSplit DEF CoreOK
          <6>3. \A i, j \in DOMAIN disk.prepared :
                   disk.prepared[i].id = disk.prepared[j].id => i = j
            BY <1>1 DEF LogInv
          <6>4. HistoryOf(disk') = Append(HistoryOf(disk), incomplete)
            BY <3>2, <3>4, <5>2, <6>1, <6>2, <6>3, HistoryCommitted DEF Commits
          <6> QED BY <6>1, <6>4, HistoryIs
        <5> QED BY <5>1, <5>2
      <4> QED BY <1>1, <1>3, <2>2, <3>2, <4>1, <4>2 DEF IncompleteInv
    <3> QED BY <3>1, <3>3, <3>4 DEF LogStep
  <2> QED BY <2>1, <2>2
<1> QED BY <1>2, <1>4, <1>5, <1>6, <1>7, <1>9, <1>10
-----------------------------------------------------------------------------
(***************************************************************************)
(* The steps of a commit.                                                  *)
(***************************************************************************)
(* A batch that is being appended is the incomplete one or a fresh one,    *)
(* and its record reaches a file that has no other for its id.             *)
LEMMA AppendWrites ==
    ASSUME SurfaceInv, pc # "down", NEW b \in Batches, b = job.batch, Admits(b)
    PROVE  /\ incomplete = b \/ Fresh(b)
           /\ incomplete = b => WithPrepared(b) = disk
           /\ Fresh(b) => b.id \notin DOMAIN index
           /\ disk' \in {disk, WithPrepared(b)} => LogStep
<1>1. /\ TypeOK /\ LogInv /\ IncompleteInv /\ IndexInv /\ JobInv
  BY DEF SurfaceInv, CoordInv
<1>2. /\ CoreOK /\ b # None /\ disk \in Files /\ disk.prepared \in Seq(Batches)
      /\ applied \in Seq(Batches)
  BY <1>1, TypeSplit, NoneIsNoBatch DEF CoreOK, Files
<1>3. b \in Range(applied) => incomplete = b
  <2>1. SUFFICES ASSUME b \in Range(applied), incomplete = None PROVE FALSE
    BY <1>2 DEF Admits
  <2>2. applied = History /\ nextSeq = HeadOf(applied).seq /\ b.before.seq = nextSeq
    BY <1>1, <2>1 DEF IncompleteInv, Admits
  <2>3. Chain(applied)
    BY <1>1, <2>2, LogInvIs
  <2> QED BY <1>2, <2>1, <2>2, <2>3, ChainBefore
<1>4. incomplete = b \/ Fresh(b)
  <2>1. ~Refused(b)
    BY <1>2 DEF Admits, Refused
  <2> QED BY <1>1, <1>2, <1>3, <2>1 DEF JobInv
<1>5. /\ WithPrepared(b) \in Files
      /\ WithPrepared(b).committed = disk.committed
      /\ WithPrepared(b).prepared = IF b \in Range(disk.prepared)
                                    THEN disk.prepared ELSE Append(disk.prepared, b)
  BY <1>2, FileTypes
<1>6. disk.prepared # << >> /\ Last(disk.prepared) = b => b \in Range(disk.prepared)
  BY <1>2 DEF Last, Range
<1>7. b \in Range(disk.prepared) => WithPrepared(b) = disk
  BY <1>2, <1>5 DEF Files
<1>8. incomplete = b => WithPrepared(b) = disk
  BY <1>1, <1>2, <1>6, <1>7 DEF IncompleteInv
<1>9. Fresh(b) => b.id \notin DOMAIN index
  BY <1>1 DEF Fresh, IndexInv
<1>10. ASSUME Fresh(b), b \notin Range(disk.prepared), disk' = WithPrepared(b)
       PROVE  Prepares
  <2>1. b.id \notin Range(Ids(disk.prepared))
    <3>1. SUFFICES ASSUME b.id \in Range(Ids(disk.prepared)) PROVE FALSE
      OBVIOUS
    <3>2. disk.prepared # << >>
      <4>1. \E k \in 1..Len(disk.prepared) : TRUE
        BY <1>2, <3>1, IdsRange
      <4> QED BY <1>2, <4>1
    <3> QED BY <1>6, <1>10, <3>1, <3>2 DEF Fresh
  <2> QED BY <1>5, <1>10, <2>1 DEF Prepares
<1>11. disk' \in {disk, WithPrepared(b)} => LogStep
  BY <1>4, <1>7, <1>8, <1>10 DEF LogStep
<1> QED BY <1>4, <1>8, <1>9, <1>11

(* A batch that is being checkpointed is the incomplete one.               *)
LEMMA CheckpointWrites ==
    ASSUME SurfaceInv, pc # "down", NEW b \in Batches, b = job.batch,
           job.step = "checkpoint"
    PROVE  /\ incomplete = b
           /\ disk' = WithCommitted(b.id) => Commits
           /\ disk' \in {disk, WithCommitted(b.id)} => LogStep
<1>1. /\ TypeOK /\ JobInv /\ CoreOK /\ b # None
  BY TypeSplit, NoneIsNoBatch DEF SurfaceInv, CoordInv
<1>2. incomplete = b
  BY <1>1 DEF JobInv
<1>3. disk' = WithCommitted(b.id) => Commits
  BY <1>1, <1>2, FileTypes DEF Commits
<1> QED BY <1>2, <1>3 DEF LogStep

(* What may be said of the batch of a job stays true of it while the state *)
(* does not change.                                                        *)
LEMMA BatchKept ==
    ASSUME TypeOK, TypeOK', LogStep, UNCHANGED <<applied, incomplete>>,
           built <= built', NEW CONSTANT b \in Batches, b = job.batch,
           incomplete = b \/ b \in Range(applied) \/ Fresh(b) \/ Refused(b)
    PROVE  incomplete' = b \/ b \in Range(applied') \/ Fresh(b)' \/ Refused(b)'
<1>1. CASE Fresh(b)
  <2>1. built \in Nat /\ built' \in Nat /\ disk.prepared \in Seq(Batches)
    BY TypeSplit DEF CoreOK, Files
  <2>2. ~Commits
    BY <1>1 DEF Fresh, Commits
  <2>3. b.id \in 1..built' /\ disk'.committed = disk.committed
    BY <1>1, <2>1, <2>2 DEF Fresh, LogStep, Prepares
  <2>4. b.id \in Range(Ids(disk'.prepared)) => Last(disk'.prepared) = b
    <3>1. CASE disk' = disk
      BY <1>1, <3>1 DEF Fresh
    <3>2. CASE Prepares
      BY <2>1, <3>2 DEF Prepares, Last
    <3> QED BY <2>2, <3>1, <3>2 DEF LogStep
  <2> QED BY <1>1, <2>3, <2>4 DEF Fresh
<1>2. CASE incomplete = b \/ b \in Range(applied) \/ Refused(b)
  BY <1>2 DEF Refused
<1> QED BY <1>1, <1>2

(* The caller is told the commit failed.                                   *)
LEMMA GiveUpKept ==
    ASSUME SurfaceInv, TypeOK', job.batch # None, LogStep, built' = built,
           NEW c \in BOOLEAN, GiveUp(c), c => job.step = "checkpoint"
    PROVE  SurfaceInv'
<1>1. /\ TypeOK /\ PhaseInv /\ CoreOK /\ pc # "down" /\ JobInv /\ built <= built'
  BY TypeSplit DEF SurfaceInv, CoordInv, PhaseInv, NoJob, CoreOK
<1>2. CASE Down /\ UNCHANGED acked
  BY <1>1, <1>2, DownKept
<1>3. CASE /\ job' = NoJob
           /\ held' = IF job.kind = "control" /\ c THEN job.batch ELSE held
           /\ UNCHANGED <<pc, index, coordVars, hub, laneVars, acked>>
  <2>1. /\ LogInv' /\ AckedSurvives' /\ IncompleteInv' /\ IndexInv' /\ SuffixInv'
        /\ ViewInv' /\ LaneInv'
    BY <1>1, <1>3, StateSame
  <2>2. /\ UNCHANGED <<pc, hub, applied, incomplete>>
        /\ job'.batch = None /\ job'.kind = "none" /\ job'.step = "append"
    BY <1>3, JobTypes DEF coordVars
  <2>3. held' # None => held' = incomplete' \/ held' \in Range(applied')
    BY <1>1, <1>3, <2>2 DEF JobInv
  <2>4. JobInv'
    BY <2>2, <2>3 DEF JobInv
  <2>5. PhaseInv'
    BY <1>1, <1>3, <2>2 DEF PhaseInv
  <2> QED BY <1>1, <2>1, <2>2, <2>4, <2>5 DEF SurfaceInv, CoordInv
<1> QED BY <1>2, <1>3 DEF GiveUp

(* The loop tries again.                                                   *)
LEMMA RetryKept ==
    ASSUME SurfaceInv, TypeOK', job.batch # None, LogStep, built' = built,
           NEW c \in BOOLEAN, Retry(c), c => job.step = "checkpoint"
    PROVE  SurfaceInv'
<1>1. /\ TypeOK /\ PhaseInv /\ CoreOK /\ pc # "down" /\ JobInv /\ built <= built'
      /\ job.batch \in Batches /\ job \in Jobs
  BY TypeSplit DEF SurfaceInv, CoordInv, PhaseInv, NoJob, CoreOK, Jobs
<1>2. CASE /\ job' = [job EXCEPT !.left = @ - 1, !.step = "append"]
           /\ UNCHANGED <<pc, index, coordVars, held, hub, laneVars, acked>>
  <2>1. /\ LogInv' /\ AckedSurvives' /\ IncompleteInv' /\ IndexInv' /\ SuffixInv'
        /\ ViewInv' /\ LaneInv'
    BY <1>1, <1>2, StateSame
  <2>2. /\ job'.batch = job.batch /\ job'.kind = job.kind /\ job'.step = "append"
        /\ UNCHANGED <<pc, hub, applied, incomplete, held>>
    BY <1>1, <1>2 DEF coordVars, Jobs
  <2>3. JobInv'
    <3>1. PICK b \in Batches : b = job.batch
      BY <1>1
    <3>2. incomplete = b \/ b \in Range(applied) \/ Fresh(b) \/ Refused(b)
      BY <1>1, <3>1 DEF JobInv
    <3>3. incomplete' = b \/ b \in Range(applied') \/ Fresh(b)' \/ Refused(b)'
      BY <1>1, <2>2, <3>1, <3>2, BatchKept
    <3> QED BY <1>1, <2>2, <3>1, <3>3 DEF JobInv, Fresh, Refused
  <2>4. PhaseInv'
    <3>1. pc # "sealed"
      BY <1>1 DEF PhaseInv, NoJob
    <3> QED BY <1>1, <2>2, <3>1 DEF PhaseInv
  <2> QED BY <1>1, <2>1, <2>2, <2>3, <2>4 DEF SurfaceInv, CoordInv
<1>3. CASE GiveUp(c)
  BY <1>3, GiveUpKept
<1> QED BY <1>2, <1>3 DEF Retry

(* What the caller does after a success, to the thread's life.             *)
LEMMA SucceedPhase ==
    ASSUME SurfaceInv, job.batch # None, Succeed, hub'.bound = hub.bound,
           hub'.ready = hub.ready
    PROVE  /\ PhaseInv' /\ pc' # "down" /\ job'.batch = None
           /\ job'.step = "append" /\ (held' = None \/ held' = held)
<1>1. /\ TypeOK /\ PhaseInv /\ pc # "down" /\ pc # "sealed"
  BY DEF SurfaceInv, CoordInv, PhaseInv, NoJob
<1>2. /\ job'.batch = None /\ job'.kind \in {"none", "takeover"}
      /\ job'.step = "append"
      /\ job'.kind = "takeover" => job.kind = "recover"
  BY JobTypes DEF Succeed
<1>3. held' = None \/ held' = held
  BY DEF Succeed
<1>4. pc' = IF job.kind = "takeover" THEN "starting" ELSE pc
  BY DEF Succeed
<1>5. PhaseInv' /\ pc' # "down"
  <2>1. CASE job.kind = "takeover"
    <3>1. pc = "recovering" /\ pc' = "starting" /\ job'.kind = "none"
      BY <1>1, <1>2, <1>4, <2>1 DEF PhaseInv
    <3>2. ~hub.bound /\ ~hub.ready
      BY <1>1, <3>1 DEF PhaseInv
    <3> QED BY <3>1, <3>2 DEF PhaseInv
  <2>2. CASE job.kind # "takeover"
    <3>1. pc' = pc
      BY <1>4, <2>2
    <3>2. job'.kind = "takeover" => pc' = "recovering"
      BY <1>1, <1>2, <3>1 DEF PhaseInv
    <3> QED BY <1>1, <1>2, <3>1, <3>2 DEF PhaseInv
  <2> QED BY <2>1, <2>2
<1> QED BY <1>2, <1>3, <1>5

(* The batch was committed before.                                         *)
LEMMA PresentKept ==
    ASSUME SurfaceInv, TypeOK', job.batch # None, AlreadyPresent(job.batch), Succeed,
           built' = built, UNCHANGED <<disk, index, coordVars, hub, laneVars>>
    PROVE  SurfaceInv'
<1>1. /\ TypeOK /\ PhaseInv /\ CoreOK /\ pc # "down" /\ JobInv /\ built <= built'
      /\ IndexInv
  BY TypeSplit DEF SurfaceInv, CoordInv, PhaseInv, NoJob, CoreOK
<1>2. job.batch.id \in Range(Ids(applied))
  BY <1>1 DEF AlreadyPresent, IndexInv
<1>3. acked' \subseteq acked \cup Range(Ids(applied))
  BY <1>2 DEF Succeed
<1>4. /\ PhaseInv' /\ pc' # "down" /\ job'.batch = None
      /\ job'.step = "append" /\ (held' = None \/ held' = held)
  BY SucceedPhase
<1>5. /\ LogInv' /\ AckedSurvives' /\ IncompleteInv' /\ IndexInv' /\ SuffixInv'
      /\ ViewInv' /\ LaneInv'
  BY <1>1, <1>3, <1>4, StateSame DEF LogStep
<1>6. JobInv'
  BY <1>1, <1>4 DEF JobInv, coordVars
<1> QED BY <1>4, <1>5, <1>6 DEF SurfaceInv, CoordInv

(* The batch is on disk and becomes the incomplete one.                    *)
LEMMA ReserveKept ==
    ASSUME SurfaceInv, TypeOK', NEW b \in Batches, b = job.batch, job.step = "append",
           Admits(b), Reserve(b), built' = built, acked' = acked,
           (disk' = disk /\ b.id \in DOMAIN index) \/ disk' = WithPrepared(b)
    PROVE  SurfaceInv'
<1>1. /\ TypeOK /\ LogInv /\ AckedSurvives /\ PhaseInv /\ pc # "down"
      /\ IncompleteInv /\ IndexInv /\ JobInv /\ SuffixInv /\ ViewInv /\ LaneInv
      /\ CoreOK /\ b # None /\ built <= built' /\ job \in Jobs
  BY TypeSplit, NoneIsNoBatch DEF SurfaceInv, CoordInv, PhaseInv, NoJob, CoreOK
<1>2. /\ UNCHANGED <<pc, applied, publications, held, hub, lane, view, at, acked>>
      /\ nextSeq' = b.after.seq /\ incomplete' = b
      /\ job' = [job EXCEPT !.step = "checkpoint"]
  BY DEF Reserve, laneVars
<1>3. /\ incomplete = b \/ Fresh(b)
      /\ incomplete = b => disk' = disk
      /\ Fresh(b) => disk' = WithPrepared(b)
      /\ LogStep
  BY <1>1, AppendWrites
<1>4. LogInv' /\ HistoryStep
  BY <1>1, <1>3, LogKept
<1>5. ViewInv'
  BY <1>1, <1>2, <1>4, ViewGrown DEF ViewInv
<1>6. LaneInv'
  BY <1>1, <1>2, LanesSame
<1>7. SuffixInv'
  BY <1>1, <1>2 DEF SuffixInv
<1>8. History' = History
  <2>1. CASE incomplete = b
    BY <1>3, <2>1, HistoryIs
  <2>2. CASE Fresh(b)
    BY <1>4, <2>2 DEF HistoryStep, Fresh
  <2> QED BY <1>3, <2>1, <2>2
<1>9. AckedSurvives'
  BY <1>1, <1>2, <1>8 DEF AckedSurvives
<1>10. IncompleteInv'
  <2>1. CASE incomplete = b
    BY <1>1, <1>2, <1>3, <1>8, <2>1 DEF IncompleteInv
  <2>2. CASE Fresh(b)
    <3>1. /\ disk.prepared \in Seq(Batches) /\ disk'.committed = disk.committed
          /\ disk'.prepared = IF b \in Range(disk.prepared) THEN disk.prepared
                              ELSE Append(disk.prepared, b)
      BY <1>1, <1>3, <2>2, FileTypes DEF CoreOK, Files
    <3>2. disk'.prepared # << >> /\ Last(disk'.prepared) = b
      <4>1. CASE b \in Range(disk.prepared)
        <5>1. b.id \in Range(Ids(disk.prepared)) /\ disk.prepared # << >>
          <6>1. PICK k \in DOMAIN disk.prepared : disk.prepared[k] = b
            BY <4>1 DEF Range
          <6>2. k \in 1..Len(disk.prepared) /\ disk.prepared # << >>
            BY <3>1
          <6> QED BY <3>1, <6>1, <6>2, IdsRange
        <5> QED BY <2>2, <3>1, <4>1, <5>1 DEF Fresh
      <4>2. CASE b \notin Range(disk.prepared)
        BY <3>1, <4>2 DEF Last
      <4> QED BY <4>1, <4>2
    <3>3. /\ incomplete = None /\ b.before = HeadOf(applied)
          /\ b.id \notin disk.committed
      BY <2>2 DEF Fresh
    <3>4. History = applied
      BY <1>1, <3>3 DEF IncompleteInv
    <3> QED BY <1>1, <1>2, <1>8, <3>1, <3>2, <3>3, <3>4 DEF IncompleteInv
  <2> QED BY <1>3, <2>1, <2>2
<1>11. IndexInv'
  <2>1. disk.committed \subseteq disk'.committed
    BY <1>3 DEF LogStep, Prepares, Commits
  <2>2. index' = [id \in DOMAIN index \cup {b.id} |->
                     IF id \in DOMAIN index THEN index[id] ELSE FALSE]
    BY DEF Reserve
  <2>3. ASSUME NEW id \in DOMAIN index'
        PROVE  /\ index'[id] => id \in Range(Ids(applied))
               /\ id \in disk'.committed \/ id = b.id
    <3>1. CASE id \in DOMAIN index
      <4>1. index'[id] = index[id]
        BY <2>2, <3>1
      <4>2. index[id] => id \in Range(Ids(applied))
        BY <1>1, <3>1 DEF IndexInv
      <4>3. id \in disk.committed \/ (incomplete # None /\ id = incomplete.id)
        BY <1>1, <3>1 DEF IndexInv
      <4>4. incomplete # None => incomplete = b
        BY <1>3 DEF Fresh
      <4> QED BY <2>1, <4>1, <4>2, <4>3, <4>4
    <3>2. CASE id \notin DOMAIN index
      BY <2>2, <3>2
    <3> QED BY <3>1, <3>2
  <2> QED BY <1>1, <1>2, <2>3 DEF IndexInv
<1>12. /\ job'.batch = b /\ job'.kind = job.kind
  BY <1>1, <1>2 DEF Jobs
<1>13. JobInv'
  <2>1. held # None => held = incomplete \/ held \in Range(applied)
    BY <1>1 DEF JobInv
  <2>2. held' # None => held' = incomplete' \/ held' \in Range(applied')
    BY <1>2, <1>3, <2>1 DEF Fresh
  <2> QED BY <1>1, <1>2, <1>12, <2>2 DEF JobInv
<1>14. PhaseInv'
  <2>1. pc # "sealed"
    BY <1>1 DEF PhaseInv, NoJob
  <2> QED BY <1>1, <1>2, <1>12, <2>1 DEF PhaseInv
<1> QED BY <1>1, <1>2, <1>4, <1>5, <1>6, <1>7, <1>9, <1>10, <1>11, <1>13, <1>14
        DEF SurfaceInv, CoordInv

(* What a lane with subscriber n owes a client that has seen v of the      *)
(* state s.                                                                *)
LaneOK(n, v, s, bound) ==
    LET q == Queued(n.queue)
    IN /\ Events(q) <= LaneLimit
       /\ n.st = "none" => n.queue = << >>
       /\ n.st # "none" => /\ bound /\ Len(v) + Len(q) <= Len(s)
                           /\ \A k \in DOMAIN q : q[k] = s[Len(v) + k]
       /\ n.st = "live" => Len(v) + Len(q) = Len(s)
       /\ n.st = "retired" => /\ Len(v) + Len(q) < Len(s)
                              /\ n.queue # << >> /\ Last(n.queue) = Gap

LEMMA LaneInvIs ==
    /\ LaneInv <=> \A l \in Lanes : LaneOK(lane[l], view[l], applied, hub.bound)
    /\ LaneInv' <=> \A l \in Lanes : LaneOK(lane'[l], view'[l], applied', hub'.bound)
  BY DEF LaneInv, LaneOK

LEMMA LastAppended ==
    ASSUME NEW q \in Seq(Items), NEW x \in Items
    PROVE  Append(q, x) # << >> /\ Last(Append(q, x)) = x
  BY DEF Last

LEMMA DeliveredOK ==
    ASSUME NEW n \in Subscribers, NEW v \in Seq(Nat), NEW s \in Seq(Batches),
           NEW b \in Batches, NEW bound, LaneOK(n, v, s, bound)
    PROVE  LaneOK(Delivered(n, b), v, Append(s, b), bound)
<1> DEFINE q == Queued(n.queue)  t == Append(s, b)
<1>1. n.queue \in Seq(Items) /\ Len(v) \in Nat /\ Len(s) \in Nat
      /\ n.st \in {"none", "live", "retired"}
  BY DEF Subscribers
<1>2. q \in Seq(Batches) /\ Len(q) \in Nat /\ DOMAIN q = 1..Len(q)
  BY <1>1, QueuedType
<1>3. /\ Len(t) = Len(s) + 1 /\ t[Len(s) + 1] = b
      /\ \A k \in 1..Len(s) : t[k] = s[k]
  OBVIOUS
<1>4. /\ Events(q) <= LaneLimit
      /\ n.st = "none" => n.queue = << >>
      /\ n.st # "none" => /\ bound /\ Len(v) + Len(q) <= Len(s)
                          /\ \A k \in DOMAIN q : q[k] = s[Len(v) + k]
      /\ n.st = "live" => Len(v) + Len(q) = Len(s)
      /\ n.st = "retired" => /\ Len(v) + Len(q) < Len(s)
                             /\ n.queue # << >> /\ Last(n.queue) = Gap
  BY DEF LaneOK
<1> HIDE DEF t, q
<1>a. n.st # "none" => \A k \in DOMAIN q : q[k] = t[Len(v) + k]
  <2> SUFFICES ASSUME n.st # "none", NEW k \in DOMAIN q PROVE q[k] = t[Len(v) + k]
    OBVIOUS
  <2>1. Len(v) + k \in 1..Len(s)
    BY <1>1, <1>2, <1>4
  <2> QED BY <1>3, <1>4, <2>1
<1>5. CASE n.st = "none" \/ n.st = "retired"
  <2>1. Delivered(n, b) = n
    BY <1>5 DEF Delivered
  <2>2. LaneOK(n, v, t, bound)
    <3>1. n.st # "none" => /\ bound /\ Len(v) + Len(q) <= Len(t)
                           /\ \A k \in DOMAIN q : q[k] = t[Len(v) + k]
      BY <1>1, <1>2, <1>3, <1>4, <1>a
    <3>2. n.st = "retired" => Len(v) + Len(q) < Len(t)
      BY <1>1, <1>2, <1>3, <1>4
    <3> QED BY <1>4, <1>5, <3>1, <3>2 DEF LaneOK, q
  <2> QED BY <2>1, <2>2 DEF t
<1>6. CASE n.st = "live" /\ HasRoom(n.queue, b)
  <2> DEFINE m == [n EXCEPT !.queue = Append(n.queue, Batch(b))]  r == Queued(m.queue)
  <2>1. Delivered(n, b) = m /\ m.queue = Append(n.queue, Batch(b)) /\ m.st = "live"
    BY <1>6 DEF Delivered, Subscribers
  <2>2. r = Append(q, b)
    BY <1>1, <2>1, QueuedAppend DEF q
  <2>3. Events(r) <= LaneLimit
    BY <1>2, <1>6, <2>2, EventsAppend DEF HasRoom, q
  <2>4. Len(r) = Len(q) + 1 /\ DOMAIN r = 1..(Len(q) + 1) /\ r[Len(q) + 1] = b
        /\ \A k \in 1..Len(q) : r[k] = q[k]
    BY <1>2, <2>2
  <2> HIDE DEF m, r
  <2>5. \A k \in DOMAIN r : r[k] = t[Len(v) + k]
    <3>1. ASSUME NEW k \in 1..(Len(q) + 1) PROVE r[k] = t[Len(v) + k]
      <4>1. CASE k = Len(q) + 1
        <5>1. Len(v) + k = Len(s) + 1
          BY <1>1, <1>2, <1>4, <1>6, <4>1
        <5> QED BY <1>3, <2>4, <4>1, <5>1
      <4>2. CASE k # Len(q) + 1
        <5>1. k \in 1..Len(q)
          BY <1>2, <4>2
        <5> QED BY <1>2, <1>6, <1>a, <2>4, <5>1
      <4> QED BY <4>1, <4>2
    <3> QED BY <2>4, <3>1
  <2>6. Len(v) + Len(r) = Len(t) /\ Len(v) + Len(r) <= Len(t)
    BY <1>1, <1>2, <1>3, <1>4, <1>6, <2>4
  <2>7. LaneOK(m, v, t, bound)
    BY <1>4, <1>6, <2>1, <2>3, <2>5, <2>6 DEF LaneOK, r
  <2> QED BY <2>1, <2>7 DEF t
<1>7. CASE n.st = "live" /\ ~HasRoom(n.queue, b)
  <2> DEFINE m == [st |-> "retired", queue |-> Append(n.queue, Gap)]
  <2>1. Delivered(n, b) = m /\ m.st = "retired" /\ m.queue = Append(n.queue, Gap)
    BY <1>7 DEF Delivered
  <2>2. Queued(m.queue) = q
    BY <1>1, <2>1, QueuedOther, ItemKinds DEF q
  <2>3. m.queue # << >> /\ Last(m.queue) = Gap
    BY <1>1, <2>1, ItemKinds, LastAppended
  <2> HIDE DEF m
  <2>4. Len(v) + Len(q) < Len(t) /\ Len(v) + Len(q) <= Len(t)
    BY <1>1, <1>2, <1>3, <1>4, <1>7
  <2>5. LaneOK(m, v, t, bound)
    BY <1>4, <1>7, <1>a, <2>1, <2>2, <2>3, <2>4 DEF LaneOK
  <2> QED BY <2>1, <2>5 DEF t
<1> QED BY <1>1, <1>5, <1>6, <1>7

(* The suffixes that are kept for replay still end with the state.         *)
LEMMA PushEnds ==
    ASSUME NEW s \in Seq(Batches), NEW t \in Seq(Batches), NEW b \in Batches,
           EndOf(s, t)
    PROVE  /\ EndOf(Within(Append(s, b)), Append(t, b))
           /\ EndOf(Push(s, b), Append(t, b))
<1> DEFINE e == << >>  u == Append(t, b)
<1>1. /\ e \in Seq(Batches) /\ Append(e, b) = << b >> /\ Append(s, b) \in Seq(Batches)
      /\ << b >> \in Seq(Batches) /\ u \in Seq(Batches)
  OBVIOUS
<1>2. EndOf(Append(s, b), u) /\ EndOf(<< b >>, u)
  BY EndOfAppend
<1> HIDE DEF u, e
<1>3. \A w \in Seq(Batches) : EndOf(w, u) => EndOf(Within(w), u)
  BY <1>1, WithinEnds, EndOfEnd
<1>4. EndOf(Within(Append(s, b)), u)
  BY <1>1, <1>2, <1>3
<1>5. EndOf(Push(s, b), u)
  <2>1. Push(s, b) = Within(Append(e, b)) \/ Push(s, b) = Within(Append(s, b))
    BY DEF Push, e
  <2>2. EndOf(Within(Append(e, b)), u)
    BY <1>1, <1>2, <1>3
  <2> QED BY <1>4, <2>1, <2>2
<1> QED BY <1>4, <1>5 DEF u

(* The batch is committed.                                                 *)
LEMMA MaterializeKept ==
    ASSUME SurfaceInv, TypeOK', NEW b \in Batches, b = job.batch,
           job.step = "checkpoint", disk' = WithCommitted(b.id), Materialize(b),
           Succeed, built' = built
    PROVE  SurfaceInv'
<1>1. /\ TypeOK /\ LogInv /\ AckedSurvives /\ PhaseInv /\ pc # "down"
      /\ IncompleteInv /\ IndexInv /\ JobInv /\ SuffixInv /\ ViewInv /\ LaneInv
      /\ CoreOK /\ HubOK /\ job.batch # None /\ built <= built'
  BY TypeSplit, NoneIsNoBatch DEF SurfaceInv, CoordInv, PhaseInv, NoJob, CoreOK
<1>2. /\ incomplete = b /\ Commits /\ LogStep
  BY <1>1, CheckpointWrites
<1>3. LogInv' /\ HistoryStep
  BY <1>1, <1>2, LogKept
<1>4. /\ disk \in Files /\ disk' \in Files /\ applied \in Seq(Batches)
      /\ applied' = Append(applied, b) /\ incomplete' = None
      /\ nextSeq' = nextSeq /\ view' = view /\ at' = at
  BY <1>1, TypeSplit DEF CoreOK, Materialize
<1>5. History' = applied'
  <2>1. CASE b.id \in disk.committed
    <3>1. disk'.committed = disk.committed /\ disk'.prepared = disk.prepared
      BY <1>2, <2>1 DEF Commits
    <3>2. HistoryOf(disk') = HistoryOf(disk)
      BY <3>1 DEF HistoryOf, CommittedIn
    <3> QED BY <1>1, <1>2, <1>4, <2>1, <3>2, HistoryIs DEF IncompleteInv
  <2>2. CASE b.id \notin disk.committed
    <3>1. /\ disk.prepared # << >> /\ Last(disk.prepared) = b /\ History = applied
      BY <1>1, <1>2, <2>2 DEF IncompleteInv
    <3>2. \A i, j \in DOMAIN disk.prepared :
             disk.prepared[i].id = disk.prepared[j].id => i = j
      BY <1>1 DEF LogInv
    <3>3. HistoryOf(disk') = Append(HistoryOf(disk), b)
      BY <1>2, <1>4, <2>2, <3>1, <3>2, HistoryCommitted DEF Commits
    <3> QED BY <1>4, <3>1, <3>3, HistoryIs
  <2> QED BY <2>1, <2>2
<1>6. /\ Range(Ids(applied')) = Range(Ids(applied)) \cup {b.id}
      /\ Range(applied) \subseteq Range(applied') /\ b \in Range(applied')
      /\ Len(applied) <= Len(applied') /\ HeadOf(applied') = b.after
  <2>1. Range(Ids(applied')) = Range(Ids(applied)) \cup {b.id}
    BY <1>4, IdsAppend
  <2>2. /\ Range(applied) \subseteq Range(applied') /\ b \in Range(applied')
        /\ Len(applied) <= Len(applied')
    BY <1>4 DEF Range
  <2>3. HeadOf(applied') = b.after
    BY <1>4 DEF HeadOf, Last
  <2> QED BY <2>1, <2>2, <2>3
<1>7. AckedSurvives'
  <2>1. acked' = acked \cup {b.id}
    BY DEF Succeed
  <2> QED BY <1>1, <1>5, <1>6, <2>1 DEF AckedSurvives
<1>8. IncompleteInv'
  BY <1>1, <1>2, <1>4, <1>5, <1>6 DEF IncompleteInv
<1>9. IndexInv'
  <2>1. index' = [index EXCEPT ![b.id] = TRUE] /\ DOMAIN index' = DOMAIN index
    BY DEF Materialize
  <2>2. disk'.committed = disk.committed \cup {b.id}
    BY <1>2 DEF Commits
  <2>3. ASSUME NEW id \in DOMAIN index'
        PROVE  (index'[id] => id \in Range(Ids(applied'))) /\ id \in disk'.committed
    <3>1. CASE id = b.id
      BY <1>6, <2>2, <3>1
    <3>2. CASE id # b.id
      <4>1. index'[id] = index[id] /\ id \in DOMAIN index
        BY <2>1, <3>2
      <4>2. /\ index[id] => id \in Range(Ids(applied))
            /\ id \in disk.committed \/ (incomplete # None /\ id = incomplete.id)
        BY <1>1, <4>1 DEF IndexInv
      <4> QED BY <1>2, <1>6, <2>2, <3>2, <4>1, <4>2
    <3> QED BY <3>1, <3>2
  <2> QED BY <2>3 DEF IndexInv
<1>10. ASSUME hub.bound
       PROVE  /\ hub'.bound = hub.bound /\ hub'.ready = hub.ready
              /\ SuffixInv' /\ LaneInv'
  <2>1. /\ hub.head = HeadOf(applied) /\ EndOf(hub.retained, applied)
        /\ b.before = HeadOf(applied) /\ hub \in Hubs /\ hub.retained \in Seq(Batches)
    BY <1>1, <1>2, <1>10 DEF SuffixInv, IncompleteInv, HubOK, Hubs
  <2> DEFINE r == Within(Append(hub.retained, b))
  <2>2. /\ hub' = [hub EXCEPT !.head = b.after, !.retained = r]
        /\ lane' = [l \in Lanes |-> Delivered(lane[l], b)]
    BY <1>10, <2>1 DEF Materialize, ApplyCommitted
  <2>3. EndOf(r, applied')
    BY <1>4, <2>1, PushEnds
  <2> HIDE DEF r
  <2>4. /\ hub'.bound = hub.bound /\ hub'.ready = hub.ready
        /\ hub'.head = b.after /\ hub'.retained = r
    BY <2>1, <2>2 DEF Hubs
  <2>5. SuffixInv'
    BY <1>6, <1>10, <2>3, <2>4 DEF SuffixInv
  <2>6. \A l \in Lanes : LaneOK(lane[l], view[l], applied, hub.bound)
    BY <1>1, LaneInvIs
  <2>7. ASSUME NEW l \in Lanes
        PROVE  LaneOK(lane'[l], view'[l], applied', hub'.bound)
    <3>1. lane[l] \in Subscribers /\ view[l] \in Seq(Nat)
      BY <1>1 DEF HubOK
    <3>2. LaneOK(Delivered(lane[l], b), view[l], Append(applied, b), hub.bound)
      BY <1>4, <2>6, <3>1, DeliveredOK
    <3>3. lane'[l] = Delivered(lane[l], b)
      BY <2>2
    <3> QED BY <1>4, <2>4, <3>2, <3>3
  <2>8. LaneInv'
    BY <2>7, LaneInvIs
  <2> QED BY <1>10, <2>4, <2>5, <2>8
<1>11. ASSUME ~hub.bound
       PROVE  /\ hub'.bound = hub.bound /\ hub'.ready = hub.ready
              /\ SuffixInv' /\ LaneInv'
  <2>1. publications' = Push(publications, b) /\ hub' = hub /\ lane' = lane
    BY <1>11 DEF Materialize
  <2>2. publications \in Seq(Batches) /\ EndOf(publications, applied)
    BY <1>1, <1>11 DEF CoreOK, SuffixInv
  <2>3. SuffixInv'
    BY <1>4, <1>11, <2>1, <2>2, PushEnds DEF SuffixInv
  <2>4. LaneInv'
    BY <1>1, <1>4, <1>11, <2>1 DEF LaneInv
  <2> QED BY <2>1, <2>3, <2>4
<1>12. /\ hub'.bound = hub.bound /\ hub'.ready = hub.ready
       /\ SuffixInv' /\ LaneInv'
  BY <1>10, <1>11
<1>13. /\ PhaseInv' /\ pc' # "down" /\ job'.batch = None
       /\ job'.step = "append" /\ (held' = None \/ held' = held)
  BY <1>1, <1>12, SucceedPhase
<1>14. JobInv'
  <2>1. held # None => held = b \/ held \in Range(applied)
    BY <1>1, <1>2 DEF JobInv
  <2> QED BY <1>6, <1>13, <2>1 DEF JobInv
<1>15. ViewInv'
  <2>1. \A l \in Lanes : Len(view[l]) <= Len(applied')
    <3>1. ASSUME NEW l \in Lanes PROVE Len(view[l]) <= Len(applied')
      <4>1. Len(view[l]) <= Len(applied) /\ view[l] \in Seq(Nat)
        BY <1>1 DEF ViewInv, HubOK
      <4>2. Len(view[l]) \in Nat /\ Len(applied) \in Nat /\ Len(applied') \in Nat
        BY <1>4, <4>1
      <4> QED BY <1>6, <4>1, <4>2
    <3> QED BY <3>1
  <2> QED BY <1>1, <1>3, <1>4, <2>1, ViewGrown
<1> QED BY <1>3, <1>7, <1>8, <1>9, <1>12, <1>13, <1>14, <1>15
        DEF SurfaceInv, CoordInv

LEMMA AppendKept ==
    ASSUME SurfaceInv, TypeOK', CommitAppend
    PROVE  SurfaceInv'
<1> DEFINE b == job.batch
<1>1. /\ b # None /\ b \in Batches /\ pc # "down" /\ TypeOK
      /\ job.step = "append" /\ built' = built
  BY TypeSplit DEF CommitAppend, SurfaceInv, CoordInv, PhaseInv, NoJob, CoreOK, Jobs
<1>2. CASE AlreadyPresent(b) /\ Succeed
           /\ UNCHANGED <<disk, index, coordVars, hub, laneVars, faults>>
  BY <1>1, <1>2, PresentKept
<1>3. CASE GiveUp(FALSE) /\ UNCHANGED <<disk, faults>>
  <2>1. LogStep /\ FALSE \in BOOLEAN
    BY <1>3 DEF LogStep
  <2> QED BY <1>1, <1>3, <2>1, GiveUpKept, Zenon
<1>4. CASE Admits(b) /\ b.id \in DOMAIN index /\ Reserve(b) /\ UNCHANGED <<disk, faults>>
  BY <1>1, <1>4, ReserveKept DEF Reserve
<1>5. CASE Admits(b) /\ Written(WithPrepared(b)) /\ Reserve(b)
  BY <1>1, <1>5, ReserveKept DEF Reserve, Written
<1>6. CASE Admits(b) /\ WriteFails(WithPrepared(b)) /\ Retry(FALSE)
  <2>1. LogStep
    BY <1>1, <1>6, AppendWrites DEF WriteFails
  <2>2. FALSE \in BOOLEAN
    OBVIOUS
  <2> QED BY <1>1, <1>6, <2>1, <2>2, RetryKept, Zenon
<1> QED BY <1>2, <1>3, <1>4, <1>5, <1>6 DEF CommitAppend

LEMMA CheckpointKept ==
    ASSUME SurfaceInv, TypeOK', CommitCheckpoint
    PROVE  SurfaceInv'
<1> DEFINE b == job.batch
<1>1. /\ b # None /\ b \in Batches /\ pc # "down" /\ TypeOK
      /\ job.step = "checkpoint" /\ built' = built
  BY TypeSplit DEF CommitCheckpoint, SurfaceInv, CoordInv, PhaseInv, NoJob, CoreOK, Jobs
<1>2. CASE Written(WithCommitted(b.id)) /\ Materialize(b) /\ Succeed
  BY <1>1, <1>2, MaterializeKept DEF Written
<1>3. CASE WriteFails(WithCommitted(b.id)) /\ Retry(TRUE)
  <2>1. LogStep
    BY <1>1, <1>3, CheckpointWrites DEF WriteFails
  <2>2. TRUE \in BOOLEAN
    OBVIOUS
  <2> QED BY <1>1, <1>3, <2>1, <2>2, RetryKept, Zenon
<1> QED BY <1>2, <1>3 DEF CommitCheckpoint
-----------------------------------------------------------------------------
(***************************************************************************)
(* The callers and the thread's life.                                      *)
(***************************************************************************)
(* A batch built on the state is fresh, or will be refused.                *)
LEMMA NewBatchOK ==
    ASSUME SurfaceInv, TypeOK', pc # "down", NEW CONSTANT b \in Batches,
           b.id = built + 1, b.before = HeadOf(applied),
           incomplete = None => built' = built + 1,
           UNCHANGED <<disk, applied, incomplete>>
    PROVE  incomplete' = b \/ b \in Range(applied') \/ Fresh(b)' \/ Refused(b)'
<1>1. /\ TypeOK /\ LogInv /\ built \in Nat /\ built' \in Nat
      /\ disk.prepared \in Seq(Batches)
  BY TypeSplit DEF SurfaceInv, CoordInv, CoreOK, Files
<1>2. CASE incomplete = None
  <2>1. built' = built + 1 /\ b.id \in 1..built'
    BY <1>1, <1>2
  <2>2. b.id \notin Range(Ids(disk.prepared))
    <3>1. \A k \in 1..Len(disk.prepared) : disk.prepared[k].id \in 1..built
      BY <1>1 DEF LogInv
    <3>2. \A k \in 1..Len(disk.prepared) : disk.prepared[k].id # b.id
      BY <1>1, <3>1
    <3> QED BY <1>1, <3>2, IdsRange
  <2>3. b.id \notin disk.committed
    BY <1>1, <2>2 DEF LogInv
  <2> QED BY <1>2, <2>1, <2>2, <2>3 DEF Fresh
<1>3. CASE incomplete # None
  BY <1>3 DEF Refused
<1> QED BY <1>2, <1>3

(* A step that only gives the actor something to commit.                   *)
LEMMA CallStepKept ==
    ASSUME SurfaceInv, TypeOK', pc # "down", pc' # "down", PhaseInv',
           built <= built', job'.step = "append",
           UNCHANGED <<disk, index, coordVars, held, hub, laneVars, acked>>,
           NEW CONSTANT b \in Batches, job'.batch = b,
           incomplete' = b \/ b \in Range(applied') \/ Fresh(b)' \/ Refused(b)'
    PROVE  SurfaceInv'
<1>1. /\ LogInv' /\ AckedSurvives' /\ IncompleteInv' /\ IndexInv' /\ SuffixInv'
      /\ ViewInv' /\ LaneInv'
  BY StateSame DEF LogStep
<1>2. JobInv /\ UNCHANGED <<held, applied, incomplete>>
  BY DEF SurfaceInv, CoordInv, coordVars
<1>3. JobInv'
  BY <1>2 DEF JobInv, Fresh, Refused
<1> QED BY <1>1, <1>3 DEF SurfaceInv, CoordInv

LEMMA CallsKept ==
    ASSUME SurfaceInv, TypeOK', Calls
    PROVE  SurfaceInv'
<1>1. /\ TypeOK /\ CoreOK /\ PhaseInv /\ HeadOf(applied).inc \in Nat
      /\ epoch \in Nat /\ built \in Nat
  BY TypeSplit, HeadOfType DEF SurfaceInv, CoordInv, CoreOK, Cursors
<1>a. 1 \in Nat \ {0} /\ "none" \in Facts
  BY DEF Facts
<1>2. CASE Takeover
  <2> DEFINE x == NewBatch(1, epoch, "none")
  <2>1. x \in Batches /\ x.id = built + 1 /\ x.before = HeadOf(applied)
    BY <1>1, <1>a, NewBatchIs, Zenon
  <2>2. /\ job' = [job EXCEPT !.batch = x] /\ built' = built + 1
        /\ UNCHANGED <<disk, pc, index, coordVars, held, hub, laneVars, acked>>
        /\ job.kind = "takeover" /\ job.batch = None
    BY <1>2 DEF Takeover
  <2> HIDE DEF x
  <2>3. PICK b \in Batches : b = x
    BY <2>1
  <2>4. pc = "recovering" /\ pc' = "recovering"
    BY <1>1, <2>2 DEF PhaseInv
  <2>5. /\ job'.batch = b /\ job'.kind = "takeover" /\ job'.step = "append"
    <3>1. job \in Jobs /\ JobInv
      BY <1>1, <2>4 DEF CoreOK, SurfaceInv, CoordInv
    <3>2. job.step = "append"
      BY <2>2, <3>1 DEF Jobs, JobInv
    <3> QED BY <2>2, <2>3, <3>1, <3>2 DEF Jobs
  <2>6. incomplete' = b \/ b \in Range(applied') \/ Fresh(b)' \/ Refused(b)'
    BY <2>1, <2>2, <2>3, <2>4, NewBatchOK DEF coordVars
  <2>7. PhaseInv'
    BY <1>1, <2>2, <2>4, <2>5 DEF PhaseInv
  <2>8. built <= built'
    BY <1>1, <2>2
  <2> QED BY <2>2, <2>4, <2>5, <2>6, <2>7, <2>8, CallStepKept
<1>3. CASE Refresh
  <2> DEFINE x == NewBatch(1, HeadOf(applied).inc, "none")
  <2>1. x \in Batches /\ x.id = built + 1 /\ x.before = HeadOf(applied)
    BY <1>1, <1>a, NewBatchIs, Zenon
  <2>2. /\ job' = Job("refresh", x, Attempts) /\ built' = built + 1
        /\ UNCHANGED <<disk, index, coordVars, held, hub, laneVars, acked>>
        /\ pc = "starting" /\ pc' = "refreshed"
    BY <1>3 DEF Refresh
  <2> HIDE DEF x
  <2>3. PICK b \in Batches : b = x
    BY <2>1
  <2>4. /\ job'.batch = b /\ job'.kind = "refresh" /\ job'.step = "append"
    BY <2>2, <2>3, JobTypes, SurfaceBounds
  <2>5. incomplete' = b \/ b \in Range(applied') \/ Fresh(b)' \/ Refused(b)'
    BY <2>1, <2>2, <2>3, NewBatchOK DEF coordVars
  <2>6. PhaseInv'
    BY <1>1, <2>2, <2>4 DEF PhaseInv
  <2>7. built <= built'
    BY <1>1, <2>2
  <2> QED BY <2>2, <2>4, <2>5, <2>6, <2>7, CallStepKept
<1>4. CASE Semantic \/ Control \/ Poll
  <2>1. PICK x, k, n : SubmitAny(x, k, n)
    BY <1>1, <1>4, Submitted
  <2>2. /\ job' = Job(k, x, n) /\ built' = IF Admits(x) THEN built + 1 ELSE built
        /\ UNCHANGED <<disk, pc, index, coordVars, held, hub, laneVars, acked>>
        /\ pc = "up" /\ x \in Batches /\ x.id = built + 1
        /\ x.before = HeadOf(applied) /\ k \in {"actor", "control"} /\ n \in Nat
    BY <2>1 DEF SubmitAny
  <2>3. PICK b \in Batches : b = x
    BY <2>2
  <2>4. /\ job'.batch = b /\ job'.kind = k /\ job'.step = "append"
    BY <2>2, <2>3, JobTypes
  <2>5. incomplete = None => built' = built + 1
    <3>1. incomplete = None => nextSeq = HeadOf(applied).seq
      BY <2>2 DEF SurfaceInv, CoordInv, IncompleteInv
    <3> QED BY <2>2, <3>1 DEF Admits
  <2>6. incomplete' = b \/ b \in Range(applied') \/ Fresh(b)' \/ Refused(b)'
    BY <2>2, <2>3, <2>5, NewBatchOK DEF coordVars
  <2>7. PhaseInv'
    BY <1>1, <2>2, <2>4 DEF PhaseInv
  <2>8. built <= built'
    BY <1>1, <2>2
  <2> QED BY <2>2, <2>4, <2>6, <2>7, <2>8, CallStepKept
<1>5. CASE RetryControl \/ RetryIncomplete
  <2>1. /\ UNCHANGED <<disk, pc, index, coordVars, held, hub, laneVars, acked, built>>
        /\ pc = "up" /\ built <= built'
    BY <1>1, <1>5 DEF RetryControl, RetryIncomplete
  <2>2. PICK x \in Batches : /\ x = incomplete \/ x \in Range(applied)
                             /\ \/ job' = Job("control", x, 1)
                                \/ job' = Job("goal", x, 1)
    <3>1. JobInv /\ held \in Batches \cup {None} /\ incomplete \in Batches \cup {None}
      BY <1>1, <2>1 DEF SurfaceInv, CoordInv, CoreOK
    <3> QED BY <1>5, <3>1 DEF RetryControl, RetryIncomplete, JobInv
  <2>3. PICK b \in Batches : b = x
    BY <2>2
  <2>4. /\ job'.batch = b /\ job'.kind \in {"control", "goal"} /\ job'.step = "append"
    BY <2>2, <2>3, JobTypes
  <2>5. incomplete' = b \/ b \in Range(applied') \/ Fresh(b)' \/ Refused(b)'
    BY <2>1, <2>2, <2>3 DEF coordVars
  <2>6. PhaseInv'
    BY <1>1, <2>1, <2>4 DEF PhaseInv
  <2> QED BY <2>1, <2>4, <2>5, <2>6, CallStepKept
<1>6. CASE Reconcile
  <2>1. PICK n \in Sizes : job' = Job("reconcile", NewBatch(n, HeadOf(applied).inc, "none"), 1)
    BY <1>6 DEF Reconcile
  <2> DEFINE x == NewBatch(n, HeadOf(applied).inc, "none")
  <2>2. x \in Batches /\ x.id = built + 1 /\ x.before = HeadOf(applied)
    <3>1. n \in Nat \ {0}
      BY SurfaceBounds
    <3> QED BY <1>1, <1>a, <3>1, NewBatchIs, Zenon
  <2>3. /\ job' = Job("reconcile", x, 1) /\ built' = built + 1
        /\ UNCHANGED <<disk, pc, index, coordVars, held, hub, laneVars, acked>>
        /\ pc = "starting"
    BY <1>6, <2>1 DEF Reconcile
  <2> HIDE DEF x
  <2>4. PICK b \in Batches : b = x
    BY <2>2
  <2>5. /\ job'.batch = b /\ job'.kind = "reconcile" /\ job'.step = "append"
    BY <2>3, <2>4, JobTypes
  <2>6. incomplete' = b \/ b \in Range(applied') \/ Fresh(b)' \/ Refused(b)'
    BY <2>2, <2>3, <2>4, NewBatchOK DEF coordVars
  <2>7. PhaseInv'
    BY <1>1, <2>3, <2>5 DEF PhaseInv
  <2>8. built <= built'
    BY <1>1, <2>3
  <2> QED BY <2>3, <2>5, <2>6, <2>7, <2>8, CallStepKept
<1> QED BY <1>2, <1>3, <1>4, <1>5, <1>6 DEF Calls

(* The thread is opened.                                                   *)
LEMMA StartKept ==
    ASSUME SurfaceInv, TypeOK', Start
    PROVE  SurfaceInv'
<1>1. /\ TypeOK /\ CoreOK /\ LogInv /\ AckedSurvives /\ PhaseInv /\ ViewInv /\ LaneInv
      /\ pc = "down" /\ disk \in Files /\ disk.prepared \in Seq(Batches)
      /\ History \in Seq(Batches)
  BY TypeSplit, HistoryIsSeq DEF SurfaceInv, CoordInv, Start, CoreOK, Files
<1>2. UNCHANGED <<disk, held, hub, lane, view, at, acked, built>>
  BY DEF Start, laneVars
<1>3. /\ job = NoJob /\ held = None /\ hub = NoHub /\ ~hub.bound
  BY <1>1 DEF PhaseInv, NoHub
<1>4. History' = History /\ HistoryStep
  BY <1>2, HistoryIs DEF HistoryStep
<1>5. LogInv'
  <2>1. disk' = disk /\ built' = built
    BY <1>2
  <2> QED BY <1>1, <1>4, <2>1, LogInvIs
<1>6. LaneInv'
  BY <1>1, <1>2, <1>3 DEF LaneInv
<1>o. Opens => Replays
  BY DEF Opens
<1>7. CASE ~Opens
  <2>1. UNCHANGED <<pc, index, applied, nextSeq, incomplete, publications, job>>
    BY <1>7 DEF Start, coordVars
  <2>2. ViewInv'
    BY <1>1, <1>2, <1>4, <2>1, ViewGrown
  <2>3. AckedSurvives' /\ PhaseInv'
    BY <1>1, <1>2, <1>4, <2>1 DEF AckedSurvives, PhaseInv
  <2> QED BY <1>1, <1>5, <1>6, <2>1, <2>2, <2>3 DEF SurfaceInv, CoordInv
<1>8. CASE Opens
  <2>1. /\ applied' = History /\ publications' = Within(History)
        /\ nextSeq' = HeadOf(disk.prepared).seq
        /\ index' = [id \in Range(Ids(disk.prepared)) |-> id \in disk.committed]
    BY <1>8 DEF Start
  <2>2. /\ pc' # "down" /\ pc' \in {"starting", "recovering"}
        /\ job'.step = "append" /\ job'.batch = incomplete'
        /\ job'.kind \in {"none", "takeover", "recover"}
        /\ job'.kind \in {"takeover", "recover"} => pc' = "recovering"
        /\ IF disk.prepared = History THEN incomplete' = None
           ELSE incomplete' = Last(disk.prepared)
    <3>1. CASE disk.prepared = History
      BY <1>8, <3>1, JobTypes DEF Start
    <3>2. CASE disk.prepared # History
      <4>1. Last(disk.prepared) \in Batches
        BY <1>1, <1>o, <1>8, <3>2, LogReplayed
      <4> QED BY <1>8, <3>2, <4>1, JobTypes DEF Start
    <3> QED BY <3>1, <3>2
  <2>3. ViewInv'
    <3>1. \A l \in Lanes : Len(view[l]) <= Len(applied')
      BY <1>1, <2>1 DEF ViewInv
    <3> QED BY <1>1, <1>2, <1>4, <3>1, ViewGrown
  <2>4. AckedSurvives'
    BY <1>1, <1>2, <1>4, <2>1 DEF AckedSurvives
  <2>5. PhaseInv'
    BY <1>1, <1>2, <1>3, <2>2 DEF PhaseInv, NoHub
  <2>6. SuffixInv'
    BY <1>1, <1>2, <1>3, <2>1, WithinEnds DEF SuffixInv
  <2>7. /\ disk.prepared = History => incomplete' = None
        /\ disk.prepared # History =>
             /\ incomplete' = Last(disk.prepared) /\ disk.prepared # << >>
             /\ disk.prepared = Append(History, incomplete')
             /\ incomplete' \in Batches /\ incomplete' # None
             /\ incomplete'.id \notin disk.committed
    BY <1>1, <1>o, <1>8, <2>2, LogReplayed, NoneIsNoBatch
  <2>8. IncompleteInv'
    <3>1. CASE disk.prepared = History
      BY <1>2, <1>4, <2>1, <2>7, <3>1 DEF IncompleteInv
    <3>2. CASE disk.prepared # History
      <4> DEFINE s == disk.prepared  x == incomplete'  n == Len(s)
      <4>1. /\ s = Append(History, x) /\ s # << >> /\ x = Last(s) /\ x \in Batches
            /\ x.id \notin disk.committed /\ x # None
        BY <2>7, <3>2
      <4>2. HeadOf(s).seq = x.after.seq
        BY <4>1 DEF HeadOf
      <4>3. x.before = HeadOf(History)
        <5>1. /\ n \in DOMAIN s /\ n = Len(History) + 1 /\ s[n] = x
              /\ Len(History) \in Nat /\ n - 1 = Len(History)
              /\ \A k \in 1..Len(History) : s[k] = History[k]
          BY <1>1, <4>1
        <5>2. x.before = IF n = 1 THEN Origin ELSE s[n - 1].after
          BY <1>o, <1>8, <5>1 DEF Replays
        <5>3. HeadOf(History) = CursorAt(History, Len(History))
          BY <1>1, HeadIsCursor
        <5>4. CASE Len(History) = 0
          BY <5>1, <5>2, <5>3, <5>4 DEF CursorAt
        <5>5. CASE Len(History) # 0
          <6>1. s[n - 1] = History[Len(History)] /\ n # 1
            BY <5>1, <5>5
          <6> QED BY <5>2, <5>3, <5>5, <6>1 DEF CursorAt
        <5> QED BY <5>4, <5>5
      <4> QED BY <1>2, <1>4, <2>1, <4>1, <4>2, <4>3 DEF IncompleteInv
    <3> QED BY <3>1, <3>2
  <2>9. IndexInv'
    <3>1. ASSUME NEW id \in DOMAIN index'
          PROVE  /\ id \in Range(Ids(disk.prepared))
                 /\ index'[id] => id \in disk.committed
      BY <2>1
    <3>2. CASE disk.prepared = History
      <4>1. \A id \in DOMAIN index' : /\ id \in Range(Ids(History))
                                      /\ id \in disk.committed
        <5>1. ASSUME NEW id \in DOMAIN index' PROVE id \in disk.committed
          <6>1. PICK k \in 1..Len(disk.prepared) : disk.prepared[k].id = id
            BY <1>1, <3>1, IdsRange
          <6>2. \A j \in DOMAIN disk.prepared :
                   j < Len(disk.prepared) => disk.prepared[j].id \in disk.committed
            BY <1>o, <1>8 DEF Replays
          <6>3. IF disk.prepared # << >> => Last(disk.prepared).id \in disk.committed
                THEN TRUE ELSE HistoryOf(disk) # disk.prepared
            BY <1>1, <6>2, HistoryReplayed
          <6>4. disk.prepared # << >> /\ k \in DOMAIN disk.prepared
            BY <1>1
          <6>5. Last(disk.prepared).id \in disk.committed
            BY <3>2, <6>3, <6>4, HistoryIs
          <6> QED BY <1>1, <6>1, <6>2, <6>4, <6>5 DEF Last
        <5> QED BY <3>1, <3>2, <5>1
      <4> QED BY <1>2, <2>1, <4>1 DEF IndexInv
    <3>3. CASE disk.prepared # History
      <4> DEFINE x == incomplete'
      <4>1. /\ disk.prepared = Append(History, x) /\ x \in Batches /\ x # None
            /\ x.id \notin disk.committed
        BY <2>7, <3>3
      <4>2. Range(Ids(disk.prepared)) = Range(Ids(History)) \cup {x.id}
        BY <1>1, <4>1, IdsAppend
      <4>3. ASSUME NEW id \in Range(Ids(History)) PROVE id \in disk.committed
        <5>1. PICK k \in 1..Len(History) : History[k].id = id
          BY <1>1, IdsRange
        <5>2. /\ k \in DOMAIN disk.prepared /\ k < Len(disk.prepared)
              /\ disk.prepared[k] = History[k]
          BY <1>1, <4>1
        <5> QED BY <1>o, <1>8, <5>1, <5>2 DEF Replays
      <4>4. ASSUME NEW id \in DOMAIN index'
            PROVE  /\ index'[id] => id \in Range(Ids(History))
                   /\ id \in disk.committed \/ id = x.id
        BY <3>1, <4>1, <4>2, <4>3
      <4> QED BY <1>2, <2>1, <4>1, <4>4 DEF IndexInv
    <3> QED BY <3>2, <3>3
  <2>10. JobInv'
    BY <1>2, <1>3, <2>2 DEF JobInv
  <2> QED BY <1>5, <1>6, <2>2, <2>3, <2>4, <2>5, <2>6, <2>8, <2>9, <2>10
          DEF SurfaceInv, CoordInv
<1> QED BY <1>7, <1>8

(* A lane that is sealed owes what it owed.                                *)
LEMMA SealedOK ==
    ASSUME NEW n \in Subscribers, NEW v \in Seq(Nat), NEW s \in Seq(Batches),
           NEW bound, LaneOK(n, v, s, bound), n.st = "live"
    PROVE  LaneOK([n EXCEPT !.queue = Append(@, Sealed)], v, s, bound)
<1> DEFINE m == [n EXCEPT !.queue = Append(@, Sealed)]
<1>1. n.queue \in Seq(Items) /\ m.queue = Append(n.queue, Sealed) /\ m.st = "live"
  BY DEF Subscribers
<1>2. Queued(m.queue) = Queued(n.queue)
  BY <1>1, QueuedOther, ItemKinds
<1> HIDE DEF m
<1>3. LaneOK(m, v, s, bound)
  BY <1>1, <1>2 DEF LaneOK
<1> QED BY <1>3 DEF m

LEMMA LifeKept ==
    ASSUME SurfaceInv, TypeOK', Bind \/ Seal \/ Close \/ Crash
    PROVE  SurfaceInv'
<1>1. /\ TypeOK /\ CoreOK /\ HubOK /\ LogInv /\ AckedSurvives /\ PhaseInv
      /\ ViewInv /\ LaneInv /\ applied \in Seq(Batches)
      /\ publications \in Seq(Batches)
  BY TypeSplit DEF SurfaceInv, CoordInv, CoreOK
<1>2. CASE Bind
  <2>1. /\ pc \in {"starting", "refreshed"} /\ job = NoJob /\ pc' = "up"
        /\ hub' = [bound |-> TRUE, ready |-> TRUE, head |-> HeadOf(applied),
                   retained |-> Repaired(publications, HeadOf(applied))]
        /\ UNCHANGED <<disk, index, applied, nextSeq, incomplete, job, held, lane,
                       view, at, acked, built>>
    BY <1>2 DEF Bind, laneVars
  <2>2. ~hub.bound /\ IncompleteInv /\ IndexInv /\ JobInv
        /\ EndOf(publications, applied)
    BY <1>1, <2>1 DEF SurfaceInv, CoordInv, PhaseInv, SuffixInv
  <2>3. HistoryStep /\ History' = History
    BY <2>1, HistoryIs DEF HistoryStep
  <2>4. LogInv' /\ AckedSurvives' /\ IncompleteInv' /\ IndexInv' /\ JobInv'
    <3>1. LogInv'
      BY <1>1, <2>1, <2>3 DEF LogInv
    <3>2. AckedSurvives' /\ IncompleteInv' /\ IndexInv'
      BY <1>1, <2>1, <2>2, <2>3 DEF AckedSurvives, IncompleteInv, IndexInv
    <3>3. JobInv'
      BY <2>1, <2>2 DEF JobInv, Fresh, Refused
    <3> QED BY <3>1, <3>2, <3>3
  <2>5. PhaseInv'
    BY <2>1 DEF PhaseInv, NoJob
  <2>6. SuffixInv'
    <3>1. EndOf(Within(publications), applied)
      BY <1>1, <2>2, WithinEnds, EndOfEnd
    <3>2. EndOf(<< >>, applied)
      BY <1>1 DEF EndOf
    <3>3. EndOf(Repaired(publications, HeadOf(applied)), applied)
      BY <3>1, <3>2 DEF Repaired
    <3> QED BY <2>1, <3>3 DEF SuffixInv
  <2>7. ViewInv'
    BY <1>1, <2>1, <2>3, ViewGrown DEF ViewInv
  <2>8. LaneInv'
    BY <1>1, <2>1, <2>2 DEF LaneInv
  <2> QED BY <2>4, <2>5, <2>6, <2>7, <2>8 DEF SurfaceInv, CoordInv
<1>3. CASE Seal
  <2>1. /\ pc = "up" /\ job = NoJob /\ pc' = "sealed"
        /\ hub' = [hub EXCEPT !.ready = FALSE]
        /\ lane' = [l \in Lanes |-> IF lane[l].st = "live"
                                    THEN [lane[l] EXCEPT !.queue = Append(@, Sealed)]
                                    ELSE lane[l]]
        /\ UNCHANGED <<disk, index, applied, nextSeq, incomplete, publications, job,
                       held, view, at, acked, built>>
    BY <1>3 DEF Seal, coordVars
  <2>2. /\ hub.bound /\ IncompleteInv /\ IndexInv /\ JobInv /\ SuffixInv
        /\ hub'.bound = hub.bound /\ hub'.head = hub.head /\ ~hub'.ready
        /\ hub'.retained = hub.retained
    BY <1>1, <2>1 DEF SurfaceInv, CoordInv, PhaseInv, HubOK, Hubs
  <2>3. HistoryStep /\ History' = History
    BY <2>1, HistoryIs DEF HistoryStep
  <2>4. LogInv' /\ AckedSurvives' /\ IncompleteInv' /\ IndexInv' /\ JobInv'
    <3>1. LogInv'
      BY <1>1, <2>1, <2>3 DEF LogInv
    <3>2. AckedSurvives' /\ IncompleteInv' /\ IndexInv'
      BY <1>1, <2>1, <2>2, <2>3 DEF AckedSurvives, IncompleteInv, IndexInv
    <3>3. JobInv'
      BY <2>1, <2>2 DEF JobInv, Fresh, Refused
    <3> QED BY <3>1, <3>2, <3>3
  <2>5. PhaseInv'
    BY <2>1, <2>2 DEF PhaseInv, NoJob
  <2>6. SuffixInv'
    BY <2>1, <2>2 DEF SuffixInv
  <2>7. ViewInv'
    BY <1>1, <2>1, <2>3, ViewGrown DEF ViewInv
  <2>8. LaneInv'
    <3>1. ASSUME NEW l \in Lanes
          PROVE  LaneOK(lane'[l], view'[l], applied', hub'.bound)
      <4>1. /\ LaneOK(lane[l], view[l], applied, hub.bound)
            /\ lane[l] \in Subscribers /\ view[l] \in Seq(Nat)
        BY <1>1, LaneInvIs DEF HubOK
      <4>2. CASE lane[l].st = "live"
        <5>1. lane'[l] = [lane[l] EXCEPT !.queue = Append(@, Sealed)]
          BY <2>1, <4>2
        <5>2. LaneOK([lane[l] EXCEPT !.queue = Append(@, Sealed)], view[l], applied,
                     hub.bound)
          BY <1>1, <4>1, <4>2, SealedOK
        <5> QED BY <2>1, <2>2, <5>1, <5>2
      <4>3. CASE lane[l].st # "live"
        BY <2>1, <2>2, <4>1, <4>3
      <4> QED BY <4>2, <4>3
    <3> QED BY <3>1, LaneInvIs
  <2> QED BY <2>4, <2>5, <2>6, <2>7, <2>8 DEF SurfaceInv, CoordInv
<1>4. CASE Close \/ Crash
  <2>1. /\ Down /\ pc # "down" /\ disk' = disk /\ acked' = acked /\ built' = built
    BY <1>4 DEF Close, Crash
  <2> QED BY <2>1, DownKept DEF LogStep
<1> QED BY <1>2, <1>3, <1>4
-----------------------------------------------------------------------------
(***************************************************************************)
(* The clients.                                                            *)
(***************************************************************************)
(* The state is a beginning of the history.                                *)
LEMMA StateStarts ==
    ASSUME TypeOK, IncompleteInv
    PROVE  /\ Len(applied) <= Len(History) /\ Len(applied) \in Nat
           /\ Len(History) \in Nat
           /\ \A k \in 1..Len(applied) : History[k] = applied[k]
           /\ \A n \in 0..Len(applied) : CursorAt(History, n) = CursorAt(applied, n)
<1>1. /\ applied \in Seq(Batches) /\ History \in Seq(Batches)
      /\ applied = History \/ \E b \in Batches : History = Append(applied, b)
  BY TypeSplit, HistoryIsSeq DEF IncompleteInv, CoreOK
<1>2. /\ Len(applied) <= Len(History) /\ Len(applied) \in Nat /\ Len(History) \in Nat
      /\ \A k \in 1..Len(applied) : History[k] = applied[k]
  BY <1>1
<1>3. ASSUME NEW n \in 0..Len(applied)
      PROVE  CursorAt(History, n) = CursorAt(applied, n)
  <2>1. CASE n = 0
    BY <2>1 DEF CursorAt
  <2>2. CASE n # 0
    <3>1. n \in 1..Len(applied)
      BY <1>2, <2>2
    <3> QED BY <1>2, <2>2, <3>1 DEF CursorAt
  <2> QED BY <2>1, <2>2
<1> QED BY <1>2, <1>3

(* The state's batches follow each other.                                  *)
LEMMA StateChain ==
    ASSUME TypeOK, LogInv, IncompleteInv
    PROVE  Chain(applied)
<1>1. /\ applied \in Seq(Batches) /\ History \in Seq(Batches) /\ Chain(History)
  BY TypeSplit, HistoryIsSeq, LogInvIs DEF CoreOK
<1>2. /\ Len(applied) <= Len(History) /\ Len(applied) \in Nat
      /\ Len(History) \in Nat
      /\ \A k \in 1..Len(applied) : History[k] = applied[k]
      /\ \A n \in 0..Len(applied) : CursorAt(History, n) = CursorAt(applied, n)
  BY StateStarts
<1>3. ASSUME NEW k \in DOMAIN applied
      PROVE  applied[k].before = CursorAt(applied, k - 1)
  <2>1. k \in 1..Len(applied) /\ k \in DOMAIN History /\ k - 1 \in 0..Len(applied)
    BY <1>1, <1>2
  <2>2. History[k].before = CursorAt(History, k - 1)
    BY <1>1, <2>1 DEF Chain
  <2> QED BY <1>2, <2>1, <2>2
<1> QED BY <1>3 DEF Chain

(* Where the cursors of a chain are.                                       *)
LEMMA CursorsGrow ==
    ASSUME NEW s \in Seq(Batches), Chain(s), NEW m \in 0..Len(s),
           NEW n \in 0..Len(s), m < n
    PROVE  /\ CursorAt(s, m).seq \in Nat /\ CursorAt(s, n).seq \in Nat
           /\ CursorAt(s, m).seq < CursorAt(s, n).seq
<1>1. /\ DOMAIN s = 1..Len(s) /\ Len(s) \in Nat /\ n \in 1..Len(s)
      /\ \A k \in 1..Len(s) : s[k] \in Batches
  OBVIOUS
<1>2. \A b \in Batches : /\ b.before.seq \in Nat /\ b.after.seq \in Nat
                         /\ b.before.seq < b.after.seq
  BY DEF Batches, Cursors
<1>3. CursorAt(s, n) = s[n].after
  BY <1>1 DEF CursorAt
<1>4. CASE m = 0
  <2>1. CursorAt(s, m).seq = 0
    BY <1>4 DEF CursorAt, Origin
  <2>2. s[n].after.seq \in Nat /\ 0 < s[n].after.seq
    BY <1>1, <1>2
  <2> QED BY <1>3, <2>1, <2>2
<1>5. CASE m # 0
  <2>1. m \in 1..Len(s) /\ CursorAt(s, m) = s[m].after
    BY <1>1, <1>5 DEF CursorAt
  <2>2. s[m].after.seq < s[n].after.seq
    BY <1>1, <2>1, ChainGrows
  <2>3. s[m].after.seq \in Nat /\ s[n].after.seq \in Nat
    BY <1>1, <1>2, <2>1
  <2> QED BY <1>3, <2>1, <2>2, <2>3
<1> QED BY <1>4, <1>5

(* The batches from a position on.                                         *)
LEMMA SelectedFrom ==
    ASSUME NEW s \in Seq(Batches), NEW K, NEW a \in Nat \ {0}, NEW m \in Nat,
           m = Len(s), a <= m + 1, \A k \in 1..m : k \in K <=> a <= k
    PROVE  /\ Len(Selected(s, K)) = m - a + 1
           /\ \A i \in 1..(m - a + 1) : Selected(s, K)[i] = s[a - 1 + i]
<1>1. m <= Len(s) /\ \A k \in DOMAIN s : k \in K <=> a <= k /\ k <= m
  OBVIOUS
<1>2. s \in Seq(Batches)
  OBVIOUS
<1> QED BY <1>1, <1>2, SelectedInterval

(* A client whose cursor can be replayed gets exactly what it has not seen *)
(* of the state.                                                           *)
LEMMA ReplayIs ==
    ASSUME SurfaceInv, pc = "up", NEW l \in Lanes, CanReplay(at[l])
    PROVE  LET r == Replay(at[l])
               n == Len(view[l])
           IN /\ Len(r) = Len(applied) - n
              /\ \A i \in 1..(Len(applied) - n) : r[i] = applied[n + i]
<1> DEFINE c == at[l]  r == Replay(c)  n == Len(view[l])  N == Len(applied)
           s == hub.retained  m == Len(s)  d == N - m
           K == {k \in DOMAIN s : s[k].after.seq > c.seq}
<1>1. /\ TypeOK /\ LogInv /\ IncompleteInv /\ SuffixInv /\ ViewInv /\ hub.bound
      /\ applied \in Seq(Batches) /\ s \in Seq(Batches) /\ view[l] \in Seq(Nat)
      /\ r \in Seq(Batches)
  BY TypeSplit, ReplayType DEF SurfaceInv, CoordInv, PhaseInv, CoreOK, HubOK, Hubs
<1>2. Chain(applied)
  BY <1>1, StateChain
<1>3. /\ n \in Nat /\ N \in Nat /\ n <= N /\ c = CursorAt(applied, n)
      /\ n \in 0..N
  <2>1. n \in Nat /\ N \in Nat /\ n <= N
    BY <1>1 DEF ViewInv
  <2>2. c = CursorAt(History, n)
    BY <1>1 DEF ViewInv
  <2>3. \A k \in 0..N : CursorAt(History, k) = CursorAt(applied, k)
    BY <1>1, StateStarts
  <2> QED BY <2>1, <2>2, <2>3
<1>4. /\ m \in Nat /\ m <= N /\ d \in Nat /\ DOMAIN s = 1..m
      /\ \A k \in 1..m : s[k] = applied[d + k]
      /\ hub.head = HeadOf(applied) /\ HeadOf(applied) = CursorAt(applied, N)
  <2>1. hub.head = HeadOf(applied) /\ EndOf(s, applied)
    BY <1>1 DEF SuffixInv
  <2>2. HeadOf(applied) = CursorAt(applied, N)
    BY <1>1, HeadIsCursor
  <2>3. m \in Nat /\ N \in Nat /\ DOMAIN s = 1..m
    BY <1>1
  <2>4. m <= N /\ \A k \in 1..m : s[k] = applied[d + k]
    BY <2>1, <2>3 DEF EndOf
  <2>5. d \in Nat
    BY <2>3, <2>4
  <2> QED BY <2>1, <2>2, <2>3, <2>4, <2>5, Zenon
<1>5. /\ r = Selected(s, K)
      /\ \A k \in DOMAIN r : r[k].before = IF k = 1 THEN c ELSE r[k - 1].after
      /\ hub.head = IF r = << >> THEN c ELSE Last(r).after
  BY DEF CanReplay, Replay
<1> HIDE DEF c, r, n, N, s, m, d, K
<1>6. ASSUME NEW k \in 1..m PROVE k \in K <=> n < d + k
  <2>1. d + k \in 1..N /\ d + k \in 0..N /\ Len(applied) = N
    BY <1>3, <1>4 DEF d, N
  <2>2. CursorAt(applied, d + k) = s[k].after
    BY <1>4, <2>1 DEF CursorAt
  <2>3. n < d + k => CursorAt(applied, n).seq < CursorAt(applied, d + k).seq
    BY <1>1, <1>2, <1>3, <2>1, CursorsGrow
  <2>4. d + k < n => CursorAt(applied, d + k).seq < CursorAt(applied, n).seq
    BY <1>1, <1>2, <1>3, <2>1, CursorsGrow
  <2>5. CursorAt(applied, n).seq \in Nat /\ CursorAt(applied, d + k).seq \in Nat
    <3>1. \A x \in 0..N : CursorAt(applied, x) \in Cursors
      <4>1. Origin \in Cursors /\ \A b \in Batches : b.after \in Cursors
        BY DEF Origin, Cursors, Batches
      <4> QED BY <1>1, <4>1 DEF CursorAt, N
    <3> QED BY <1>3, <2>1, <3>1 DEF Cursors
  <2>6. k \in K <=> s[k].after.seq > c.seq
    BY <1>4 DEF K
  <2> QED BY <1>3, <1>4, <2>1, <2>2, <2>3, <2>4, <2>5, <2>6
<1>a. ASSUME NEW A \in Nat \ {0}, A <= m + 1, \A k \in 1..m : k \in K <=> A <= k
      PROVE  /\ Len(Selected(s, K)) = m - A + 1
             /\ \A i \in 1..(m - A + 1) : Selected(s, K)[i] = s[A - 1 + i]
  <2>1. PICK M \in Nat : M = m
    BY <1>4
  <2>2. PICK S \in Seq(Batches) : S = s
    BY <1>1
  <2>3. PICK L : L = K
    OBVIOUS
  <2>4. M = Len(S) /\ A <= M + 1 /\ \A k \in 1..M : k \in L <=> A <= k
    BY <1>a, <2>1, <2>2, <2>3 DEF m
  <2>5. /\ Len(Selected(S, L)) = M - A + 1
        /\ \A i \in 1..(M - A + 1) : Selected(S, L)[i] = S[A - 1 + i]
    BY <1>a, <2>1, <2>2, <2>4, SelectedFrom
  <2> QED BY <2>1, <2>2, <2>3, <2>5
<1>7. n >= d
  <2>1. SUFFICES ASSUME n < d PROVE FALSE
    BY <1>3, <1>4
  <2>2. \A k \in 1..m : k \in K
    BY <1>3, <1>4, <1>6, <2>1
  <2>3. d \in 0..N /\ d <= N
    BY <1>3, <1>4 DEF d
  <2>4. /\ CursorAt(applied, n).seq < CursorAt(applied, d).seq
        /\ CursorAt(applied, n).seq \in Nat /\ CursorAt(applied, d).seq \in Nat
    BY <1>1, <1>2, <1>3, <2>1, <2>3, CursorsGrow DEF N
  <2>5. /\ Len(r) = m /\ \A i \in 1..m : r[i] = s[i]
    <3> DEFINE a == 1
    <3>1. /\ a \in Nat \ {0} /\ a <= m + 1
          /\ \A k \in 1..m : k \in K <=> a <= k
      BY <1>4, <2>2 DEF m
    <3>2. /\ Len(Selected(s, K)) = m - a + 1
          /\ \A i \in 1..(m - a + 1) : Selected(s, K)[i] = s[a - 1 + i]
      <4> HIDE DEF a
      <4>1. s \in Seq(Batches) /\ m \in Nat /\ m = Len(s)
        BY <1>1, <1>4 DEF m
      <4> QED BY <1>a, <3>1, <4>1
    <3>3. m - a + 1 = m /\ \A i \in 1..m : a - 1 + i = i
      BY <1>4
    <3> QED BY <1>5, <3>2, <3>3
  <2>6. CASE m = 0
    <3>1. r = << >> /\ d = N
      BY <1>1, <1>3, <2>5, <2>6 DEF d
    <3> QED BY <1>3, <1>4, <1>5, <2>4, <3>1
  <2>7. CASE m # 0
    <3>1. 1 \in 1..m /\ 1 \in DOMAIN r /\ r[1] = s[1] /\ s[1] = applied[d + 1]
      BY <1>1, <1>4, <2>5, <2>7
    <3>2. r[1].before = c
      BY <1>5, <3>1
    <3>3. d + 1 \in DOMAIN applied /\ (d + 1) - 1 = d
      BY <1>1, <1>3, <1>4, <2>7 DEF d, N
    <3>4. applied[d + 1].before = CursorAt(applied, d)
      BY <1>2, <3>3 DEF Chain
    <3> QED BY <1>3, <2>4, <3>1, <3>2, <3>4
  <2> QED BY <2>6, <2>7
<1>8. /\ Len(r) = N - n /\ \A i \in 1..(N - n) : r[i] = applied[n + i]
  <2> DEFINE a == n - d + 1
  <2>1. /\ a \in Nat \ {0} /\ a <= m + 1
        /\ \A k \in 1..m : k \in K <=> a <= k
    <3>1. n - d \in Nat /\ n - d <= m
      BY <1>3, <1>4, <1>7 DEF d
    <3>2. \A k \in 1..m : k \in K <=> n - d + 1 <= k
      BY <1>3, <1>4, <1>6
    <3> QED BY <1>4, <3>1, <3>2 DEF m
  <2>2. /\ Len(Selected(s, K)) = m - a + 1
        /\ \A i \in 1..(m - a + 1) : Selected(s, K)[i] = s[a - 1 + i]
    <3> HIDE DEF a
    <3>1. s \in Seq(Batches) /\ m \in Nat /\ m = Len(s)
      BY <1>1, <1>4 DEF m
    <3> QED BY <1>a, <2>1, <3>1
  <2>3. m - a + 1 = N - n
    BY <1>3, <1>4 DEF d
  <2>4. ASSUME NEW i \in 1..(N - n) PROVE r[i] = applied[n + i]
    <3>1. a - 1 + i \in 1..m /\ d + (a - 1 + i) = n + i
      BY <1>3, <1>4, <1>7, <2>3 DEF d
    <3>2. r[i] = s[a - 1 + i]
      BY <1>5, <2>2, <2>3
    <3>3. s[a - 1 + i] = applied[d + (a - 1 + i)]
      BY <1>4, <3>1
    <3> QED BY <3>1, <3>2, <3>3
  <2> QED BY <1>5, <2>2, <2>3, <2>4
<1> QED BY <1>8 DEF r, n, N, c

(* A client's step leaves the coordinator and the hub alone.               *)
LEMMA CoordSame ==
    ASSUME CoordInv,
           UNCHANGED <<disk, pc, index, coordVars, job, held, hub, acked, built>>
    PROVE  CoordInv' /\ History' = History
<1>1. UNCHANGED <<disk, pc, index, applied, nextSeq, incomplete, publications, job,
                  held, hub, acked, built>>
  BY DEF coordVars
<1>2. History' = History
  BY <1>1, HistoryIs
<1>3. LogInv' = LogInv
  BY <1>1, <1>2 DEF LogInv
<1>4. AckedSurvives' = AckedSurvives /\ PhaseInv' = PhaseInv
  BY <1>1, <1>2 DEF AckedSurvives, PhaseInv
<1>5. IncompleteInv' = IncompleteInv
  BY <1>1, <1>2 DEF IncompleteInv
<1>6. IndexInv' = IndexInv
  BY <1>1 DEF IndexInv
<1>7. JobInv' = JobInv
  BY <1>1 DEF JobInv, Fresh, Refused
<1>8. SuffixInv' = SuffixInv
  BY <1>1 DEF SuffixInv
<1> QED BY <1>1, <1>2, <1>3, <1>4, <1>5, <1>6, <1>7, <1>8 DEF CoordInv

(* What a client has seen, with its cursor.                                *)
ViewOK(v, c, h) == /\ Len(v) <= Len(h)
                   /\ \A k \in DOMAIN v : v[k] = h[k].id
                   /\ c = CursorAt(h, Len(v))

LEMMA ViewInvIs ==
    /\ ViewInv <=> \A l \in Lanes : /\ ViewOK(view[l], at[l], History)
                                    /\ pc # "down" => Len(view[l]) <= Len(applied)
    /\ ViewInv' <=> \A l \in Lanes : /\ ViewOK(view'[l], at'[l], History')
                                     /\ pc' # "down" => Len(view'[l]) <= Len(applied')
  BY DEF ViewInv, ViewOK

(* A step of client l that keeps its view and its lane in order.           *)
LEMMA ClientStepKept ==
    ASSUME SurfaceInv, TypeOK', NEW l \in Lanes,
           UNCHANGED <<disk, pc, index, coordVars, job, held, hub, acked, built>>,
           \A m \in Lanes \ {l} : /\ lane'[m] = lane[m] /\ view'[m] = view[m]
                                  /\ at'[m] = at[m],
           ViewOK(view'[l], at'[l], History),
           pc # "down" => Len(view'[l]) <= Len(applied),
           LaneOK(lane'[l], view'[l], applied, hub.bound)
    PROVE  SurfaceInv'
<1>1. CoordInv' /\ History' = History /\ applied' = applied /\ hub' = hub /\ pc' = pc
  BY CoordSame DEF SurfaceInv, coordVars
<1>2. ViewInv /\ LaneInv
  BY DEF SurfaceInv
<1>3. ASSUME NEW m \in Lanes
      PROVE  /\ ViewOK(view'[m], at'[m], History)
             /\ pc # "down" => Len(view'[m]) <= Len(applied)
             /\ LaneOK(lane'[m], view'[m], applied, hub.bound)
  <2>1. CASE m = l
    BY <2>1
  <2>2. CASE m # l
    BY <1>2, <2>2, ViewInvIs, LaneInvIs
  <2> QED BY <2>1, <2>2
<1>4. ViewInv'
  BY <1>1, <1>3, ViewInvIs
<1>5. LaneInv'
  BY <1>1, <1>3, LaneInvIs
<1> QED BY <1>1, <1>4, <1>5 DEF SurfaceInv

(* A client that is not attached.                                          *)
LEMMA NoLaneOK ==
    ASSUME NEW v, NEW s, NEW bound PROVE LaneOK(NoLane, v, s, bound)
<1>1. Events(Queued(<< >>)) = 0
  BY QueuedEmpty, EventsEmpty, Zenon
<1>2. NoLane.queue = << >> /\ NoLane.st = "none"
  BY DEF NoLane
<1>3. Events(Queued(NoLane.queue)) = 0
  BY <1>1, <1>2, Zenon
<1>4. Events(Queued(NoLane.queue)) <= LaneLimit
  BY <1>3, SurfaceBounds
<1> QED BY <1>2, <1>4 DEF LaneOK

(* A client whose view is the state.                                       *)
LEMMA AttachedOK ==
    ASSUME SurfaceInv, pc = "up", NEW v, v = Ids(applied), NEW c, c = hub.head,
           NEW n, n = [st |-> "live", queue |-> << >>]
    PROVE  /\ ViewOK(v, c, History) /\ Len(v) <= Len(applied)
           /\ LaneOK(n, v, applied, hub.bound)
<1>1. /\ TypeOK /\ hub.bound /\ IncompleteInv /\ applied \in Seq(Batches)
      /\ hub.head = HeadOf(applied)
  BY TypeSplit DEF SurfaceInv, CoordInv, PhaseInv, SuffixInv, CoreOK
<1>2. /\ Len(applied) <= Len(History) /\ Len(applied) \in Nat
      /\ \A k \in 1..Len(applied) : History[k] = applied[k]
      /\ \A k \in 0..Len(applied) : CursorAt(History, k) = CursorAt(applied, k)
  BY <1>1, StateStarts
<1>3. /\ Len(v) = Len(applied) /\ DOMAIN v = 1..Len(applied)
      /\ \A k \in 1..Len(applied) : v[k] = applied[k].id
  BY <1>1, IdsType
<1>4. c = CursorAt(History, Len(v))
  <2>1. c = CursorAt(applied, Len(applied)) /\ Len(applied) \in 0..Len(applied)
    BY <1>1, <1>2, HeadIsCursor
  <2> QED BY <1>2, <1>3, <2>1
<1>5. ViewOK(v, c, History) /\ Len(v) <= Len(applied)
  BY <1>2, <1>3, <1>4 DEF ViewOK
<1>6. LaneOK(n, v, applied, hub.bound)
  <2> DEFINE q == Queued(n.queue)
  <2>1. n.queue = << >> /\ n.st = "live"
    OBVIOUS
  <2>2. q = << >>
    BY <2>1, QueuedEmpty, Zenon
  <2>3. Events(q) = 0
    BY <2>2, EventsEmpty, Zenon
  <2>4. Events(q) <= LaneLimit
    BY <2>3, SurfaceBounds
  <2>5. Len(q) = 0 /\ DOMAIN q = {}
    BY <2>2
  <2> HIDE DEF q
  <2>6. Len(v) + Len(q) = Len(applied) /\ Len(v) + Len(q) <= Len(applied)
    BY <1>2, <1>3, <2>5
  <2> QED BY <1>1, <2>1, <2>4, <2>5, <2>6 DEF LaneOK, q
<1> QED BY <1>5, <1>6

(* How a concatenation is recognised.                                      *)
LEMMA ConcatIs ==
    ASSUME NEW v \in Seq(Nat), NEW w \in Seq(Nat), NEW a \in Seq(Nat),
           Len(a) = Len(v) + Len(w), \A k \in 1..Len(v) : a[k] = v[k],
           \A k \in 1..Len(w) : a[Len(v) + k] = w[k]
    PROVE  v \o w = a
<1> DEFINE x == v \o w
<1>1. /\ x \in Seq(Nat) /\ Len(x) = Len(v) + Len(w)
      /\ \A k \in 1..Len(x) : x[k] = IF k <= Len(v) THEN v[k] ELSE w[k - Len(v)]
  BY ConcatProperties
<1> HIDE DEF x
<1>2. Len(v) \in Nat /\ Len(w) \in Nat
  OBVIOUS
<1>3. ASSUME NEW k \in 1..Len(x) PROVE x[k] = a[k]
  <2>1. CASE k <= Len(v)
    <3>1. k \in 1..Len(v)
      BY <1>1, <1>2, <2>1
    <3> QED BY <1>1, <2>1, <3>1
  <2>2. CASE ~(k <= Len(v))
    <3>1. k - Len(v) \in 1..Len(w) /\ Len(v) + (k - Len(v)) = k
      BY <1>1, <1>2, <2>2
    <3>2. a[Len(v) + (k - Len(v))] = w[k - Len(v)]
      BY <3>1
    <3> QED BY <1>1, <2>2, <3>1, <3>2
  <2> QED BY <2>1, <2>2
<1>4. x = a
  BY <1>1, <1>3
<1> QED BY <1>4 DEF x

(* Both ways to attach show the client the state.                          *)
LEMMA AttachSees ==
    ASSUME SurfaceInv, NEW l \in Lanes, AttachFresh(l) \/ AttachAfter(l)
    PROVE  /\ view'[l] = Ids(applied) /\ at'[l] = hub.head /\ pc = "up"
           /\ lane'[l] = [st |-> "live", queue |-> << >>]
           /\ \A m \in Lanes \ {l} : /\ lane'[m] = lane[m] /\ view'[m] = view[m]
                                     /\ at'[m] = at[m]
<1>1. /\ TypeOK /\ HubOK /\ CoreOK /\ PhaseInv /\ Registers(l)
      /\ applied \in Seq(Batches) /\ view[l] \in Seq(Nat)
  BY TypeSplit DEF SurfaceInv, CoordInv, AttachFresh, AttachAfter, CoreOK, HubOK
<1>2. /\ pc = "up" /\ lane' = [lane EXCEPT ![l] = [st |-> "live", queue |-> << >>]]
      /\ at' = [at EXCEPT ![l] = hub.head]
  BY <1>1 DEF Registers, PhaseInv
<1>3. CASE AttachFresh(l)
  <2>1. view' = [view EXCEPT ![l] = Ids(applied)]
    BY <1>3 DEF AttachFresh
  <2> QED BY <1>1, <1>2, <2>1 DEF HubOK
<1>4. CASE AttachAfter(l)
  <2> DEFINE r == Replay(at[l])  v == view[l]  w == Ids(r)  a == Ids(applied)
             n == Len(v)  N == Len(applied)
  <2>1. view' = [view EXCEPT ![l] = v \o w] /\ CanReplay(at[l])
    BY <1>4 DEF AttachAfter
  <2>2. /\ r \in Seq(Batches) /\ Len(r) = N - n
        /\ \A i \in 1..(N - n) : r[i] = applied[n + i]
    BY <1>1, <1>2, <2>1, ReplayIs, ReplayType
  <2>3. /\ n \in Nat /\ N \in Nat /\ n <= N /\ DOMAIN v = 1..n
        /\ \A k \in 1..n : v[k] = applied[k].id
    <3>1. /\ n <= N /\ \A k \in DOMAIN v : v[k] = History[k].id
      BY <1>2 DEF SurfaceInv, ViewInv
    <3>2. n \in Nat /\ N \in Nat /\ DOMAIN v = 1..n
      BY <1>1
    <3>3. \A k \in 1..N : History[k] = applied[k]
      BY <1>1, <1>2, StateStarts DEF SurfaceInv, CoordInv
    <3> QED BY <3>1, <3>2, <3>3
  <2>4. /\ w \in Seq(Nat) /\ Len(w) = N - n
        /\ \A i \in 1..(N - n) : w[i] = r[i].id
    <3> HIDE DEF r
    <3> QED BY <2>2, IdsType
  <2>5. /\ a \in Seq(Nat) /\ Len(a) = N /\ \A k \in 1..N : a[k] = applied[k].id
    BY <1>1, IdsType
  <2>6. /\ v \in Seq(Nat)
    BY <1>1
  <2> HIDE DEF r, v, w, a, n, N
  <2>7. v \o w = a
    <3>1. Len(v) = n
      BY DEF n
    <3>2. Len(a) = Len(v) + Len(w)
      BY <2>3, <2>4, <2>5, <3>1
    <3>3. \A k \in 1..Len(v) : a[k] = v[k]
      BY <2>3, <2>5, <3>1
    <3>4. \A k \in 1..Len(w) : a[Len(v) + k] = w[k]
      <4>1. ASSUME NEW k \in 1..(N - n) PROVE a[n + k] = w[k]
        <5>1. n + k \in 1..N
          BY <2>3
        <5> QED BY <2>2, <2>4, <2>5, <5>1
      <4> QED BY <2>4, <3>1, <4>1
    <3> QED BY <2>4, <2>5, <2>6, <3>2, <3>3, <3>4, ConcatIs
  <2> QED BY <1>1, <1>2, <2>1, <2>7 DEF HubOK, a
<1> QED BY <1>3, <1>4

LEMMA LastOfTail ==
    ASSUME NEW q \in Seq(Items), q # << >>, Len(q) # 1
    PROVE  Tail(q) # << >> /\ Last(Tail(q)) = Last(q)
<1> DEFINE t == Tail(q)
<1>1. Len(q) \in Nat /\ Len(q) >= 2
  <2> DEFINE n == Len(q)
  <2>1. n \in Nat \ {0} /\ n # 1
    BY EmptySeq
  <2> HIDE DEF n
  <2>2. n >= 2
    BY <2>1
  <2> QED BY <2>1, <2>2 DEF n
<1>2. /\ t \in Seq(Items) /\ Len(t) = Len(q) - 1
      /\ \A k \in 1..(Len(q) - 1) : t[k] = q[k + 1]
  OBVIOUS
<1> HIDE DEF t
<1>3. t # << >> /\ t[Len(t)] = q[Len(q)]
  BY <1>1, <1>2
<1> QED BY <1>3 DEF Last, t

(* An item is taken from a lane.                                           *)
LEMMA TakenOK ==
    ASSUME NEW n \in Subscribers, NEW v \in Seq(Nat), NEW s \in Seq(Batches),
           NEW bound, LaneOK(n, v, s, bound), n.queue # << >>
    PROVE  IF Head(n.queue).kind = "batch"
           THEN /\ Len(v) + 1 <= Len(s) /\ Head(n.queue).batch = s[Len(v) + 1]
                /\ LaneOK(Taken(n), Append(v, Head(n.queue).batch.id), s, bound)
           ELSE LaneOK(Taken(n), v, s, bound)
<1> DEFINE p == n.queue  q == Queued(p)  x == Head(p)  t == Tail(p)
           m == [n EXCEPT !.queue = t]
<1>1. /\ p \in Seq(Items) /\ p # << >> /\ x \in Items /\ t \in Seq(Items)
      /\ n.st \in {"none", "live", "retired"} /\ m.queue = t /\ m.st = n.st
      /\ Len(v) \in Nat /\ Len(s) \in Nat
  BY DEF Subscribers
<1>2. q \in Seq(Batches) /\ Len(q) \in Nat /\ DOMAIN q = 1..Len(q)
  BY <1>1, QueuedType
<1>3. /\ Events(q) <= LaneLimit /\ n.st # "none"
      /\ bound /\ Len(v) + Len(q) <= Len(s)
      /\ \A k \in DOMAIN q : q[k] = s[Len(v) + k]
      /\ n.st = "live" => Len(v) + Len(q) = Len(s)
      /\ n.st = "retired" => Len(v) + Len(q) < Len(s) /\ Last(p) = Gap
  BY DEF LaneOK
<1>4. IF x.kind = "batch"
      THEN q # << >> /\ q[1] = x.batch /\ Queued(t) = Tail(q)
      ELSE Queued(t) = q
  BY <1>1, QueuedTail
<1>5. ASSUME n.st = "retired", x.kind # "gap" PROVE t # << >> /\ Last(t) = Gap
  <2>1. Last(p) = Gap /\ Gap.kind = "gap"
    BY <1>3, <1>5, ItemKinds
  <2>2. p[Len(p)] = Gap /\ x = p[1] /\ Len(p) \in Nat
    BY <1>1, <2>1 DEF Last
  <2>3. Len(p) # 1
    BY <1>5, <2>1, <2>2
  <2> QED BY <1>1, <2>1, <2>3, LastOfTail
<1> HIDE DEF m, q, t, x
<1>6. CASE x.kind = "batch"
  <2> DEFINE w == Append(v, x.batch.id)  r == Queued(t)
  <2>1. Taken(n) = m
    BY <1>6 DEF Taken, m, t, x
  <2>2. /\ q # << >> /\ q[1] = x.batch /\ r = Tail(q)
    BY <1>4, <1>6
  <2>3. /\ r \in Seq(Batches) /\ Len(r) = Len(q) - 1 /\ 1 \in DOMAIN q
        /\ DOMAIN r = 1..(Len(q) - 1)
        /\ \A k \in 1..(Len(q) - 1) : r[k] = q[k + 1]
    BY <1>2, <2>2
  <2>4. x.batch = s[Len(v) + 1] /\ Len(v) + 1 <= Len(s)
    <3>1. 1 \in DOMAIN q /\ q[1] = x.batch
      BY <2>2, <2>3
    <3>2. q[1] = s[Len(v) + 1]
      BY <1>3, <3>1
    <3>3. Len(q) >= 1
      BY <1>2, <3>1
    <3> QED BY <1>1, <1>2, <1>3, <3>1, <3>2, <3>3
  <2>5. x.batch.id \in Nat
    BY <1>1, <1>6, ItemKinds DEF Batches
  <2>6. Len(w) = Len(v) + 1
    BY <2>5
  <2>7. Events(r) <= LaneLimit
    <3>1. Events(r) <= Events(q) /\ Events(r) \in Nat /\ Events(q) \in Nat
      BY <1>2, <2>2, <2>3, EventsTail, EventsNat
    <3> QED BY <1>3, <3>1, SurfaceBounds
  <2> HIDE DEF w, r
  <2>8. /\ Len(w) + Len(r) = Len(v) + Len(q)
        /\ \A k \in DOMAIN r : r[k] = s[Len(w) + k]
    <3>1. Len(w) + Len(r) = Len(v) + Len(q)
      BY <1>1, <1>2, <2>3, <2>6
    <3>2. ASSUME NEW k \in 1..(Len(q) - 1) PROVE r[k] = s[Len(w) + k]
      <4>1. k + 1 \in DOMAIN q /\ Len(v) + (k + 1) = Len(w) + k
        BY <1>1, <1>2, <2>6
      <4> QED BY <1>3, <2>3, <4>1
    <3> QED BY <2>3, <3>1, <3>2
  <2>9. LaneOK(m, w, s, bound)
    <3>1. n.st = "retired" => t # << >> /\ Last(t) = Gap
      BY <1>5, <1>6
    <3> QED BY <1>1, <1>3, <2>7, <2>8, <3>1 DEF LaneOK, r
  <2> QED BY <1>6, <2>1, <2>4, <2>9 DEF x, w
<1>7. CASE x.kind = "gap"
  <2>1. Taken(n) = NoLane
    BY <1>7 DEF Taken, x
  <2> QED BY <1>7, <2>1, NoLaneOK DEF x
<1>8. CASE x.kind # "batch" /\ x.kind # "gap"
  <2>1. Taken(n) = m /\ Queued(t) = q
    BY <1>4, <1>8 DEF Taken, m, t, x
  <2>2. LaneOK(m, v, s, bound)
    BY <1>1, <1>3, <1>5, <1>8, <2>1 DEF LaneOK
  <2> QED BY <1>8, <2>1, <2>2 DEF x
<1> QED BY <1>6, <1>7, <1>8

(* What a client's Receive shows it.                                       *)
LEMMA ReceiveSees ==
    ASSUME SurfaceInv, NEW l \in Lanes, Receive(l)
    PROVE  /\ pc # "down" /\ LaneOK(lane'[l], view'[l], applied, hub.bound)
           /\ \/ view'[l] = view[l] /\ at'[l] = at[l]
              \/ /\ Len(view[l]) + 1 <= Len(applied)
                 /\ view'[l] = Append(view[l], applied[Len(view[l]) + 1].id)
                 /\ at'[l] = applied[Len(view[l]) + 1].after
           /\ \A m \in Lanes \ {l} : /\ lane'[m] = lane[m] /\ view'[m] = view[m]
                                     /\ at'[m] = at[m]
<1>1. /\ TypeOK /\ HubOK /\ PhaseInv /\ LaneInv /\ applied \in Seq(Batches)
      /\ lane[l] \in Subscribers /\ view[l] \in Seq(Nat)
  BY TypeSplit DEF SurfaceInv, CoordInv, CoreOK, HubOK
<1>2. LaneOK(lane[l], view[l], applied, hub.bound) /\ lane[l].queue # << >>
  BY <1>1, LaneInvIs DEF Receive
<1>3. pc # "down"
  <2>1. hub.bound
    BY <1>1, <1>2 DEF LaneOK
  <2> QED BY <1>1, <2>1 DEF PhaseInv
<1> DEFINE x == Head(lane[l].queue)  v == view[l]
<1>4. IF x.kind = "batch"
      THEN /\ Len(v) + 1 <= Len(applied) /\ x.batch = applied[Len(v) + 1]
           /\ LaneOK(Taken(lane[l]), Append(v, x.batch.id), applied, hub.bound)
      ELSE LaneOK(Taken(lane[l]), v, applied, hub.bound)
  BY <1>1, <1>2, TakenOK
<1>5. lane' = [lane EXCEPT ![l] = Taken(lane[l])]
  BY DEF Receive
<1>6. CASE x.kind = "batch"
  <2>1. /\ view' = [view EXCEPT ![l] = Append(v, x.batch.id)]
        /\ at' = [at EXCEPT ![l] = x.batch.after]
    BY <1>6 DEF Receive
  <2>2. view'[l] = Append(v, x.batch.id) /\ at'[l] = x.batch.after
        /\ lane'[l] = Taken(lane[l])
    BY <1>1, <1>5, <2>1 DEF HubOK
  <2>3. \A m \in Lanes \ {l} : /\ lane'[m] = lane[m] /\ view'[m] = view[m]
                               /\ at'[m] = at[m]
    BY <1>1, <1>5, <2>1 DEF HubOK
  <2> QED BY <1>3, <1>4, <1>6, <2>2, <2>3
<1>7. CASE x.kind # "batch"
  <2>1. view' = view /\ at' = at
    BY <1>7 DEF Receive
  <2>2. lane'[l] = Taken(lane[l]) /\ \A m \in Lanes \ {l} : lane'[m] = lane[m]
    BY <1>1, <1>5 DEF HubOK
  <2> QED BY <1>3, <1>4, <1>7, <2>1, <2>2
<1> QED BY <1>6, <1>7

LEMMA ClientKept ==
    ASSUME SurfaceInv, TypeOK', NEW l \in Lanes, Client(l)
    PROVE  SurfaceInv'
<1>1. UNCHANGED <<disk, pc, index, coordVars, job, held, hub, acked, built>>
  BY DEF Client, AttachFresh, AttachAfter, Registers, Receive, Leave
<1>2. /\ TypeOK /\ HubOK /\ ViewOK(view[l], at[l], History) /\ applied \in Seq(Batches)
      /\ pc # "down" => Len(view[l]) <= Len(applied)
      /\ LaneOK(lane[l], view[l], applied, hub.bound) /\ view[l] \in Seq(Nat)
  BY TypeSplit, ViewInvIs, LaneInvIs DEF SurfaceInv, HubOK, CoreOK
<1>3. CASE AttachFresh(l) \/ AttachAfter(l)
  <2>1. /\ view'[l] = Ids(applied) /\ at'[l] = hub.head /\ pc = "up"
        /\ lane'[l] = [st |-> "live", queue |-> << >>]
        /\ \A m \in Lanes \ {l} : /\ lane'[m] = lane[m] /\ view'[m] = view[m]
                                  /\ at'[m] = at[m]
    BY <1>3, AttachSees
  <2>2. /\ ViewOK(view'[l], at'[l], History) /\ Len(view'[l]) <= Len(applied)
        /\ LaneOK(lane'[l], view'[l], applied, hub.bound)
    BY <2>1, AttachedOK
  <2> QED BY <1>1, <2>1, <2>2, ClientStepKept
<1>4. CASE Receive(l)
  <2>1. /\ pc # "down" /\ LaneOK(lane'[l], view'[l], applied, hub.bound)
        /\ \/ view'[l] = view[l] /\ at'[l] = at[l]
           \/ /\ Len(view[l]) + 1 <= Len(applied)
              /\ view'[l] = Append(view[l], applied[Len(view[l]) + 1].id)
              /\ at'[l] = applied[Len(view[l]) + 1].after
        /\ \A m \in Lanes \ {l} : /\ lane'[m] = lane[m] /\ view'[m] = view[m]
                                  /\ at'[m] = at[m]
    BY <1>4, ReceiveSees
  <2>2. ViewOK(view'[l], at'[l], History) /\ Len(view'[l]) <= Len(applied)
    <3>1. CASE view'[l] = view[l] /\ at'[l] = at[l]
      BY <1>2, <2>1, <3>1
    <3>2. CASE /\ Len(view[l]) + 1 <= Len(applied)
               /\ view'[l] = Append(view[l], applied[Len(view[l]) + 1].id)
               /\ at'[l] = applied[Len(view[l]) + 1].after
      <4> DEFINE v == view[l]  n == Len(v)  w == view'[l]
      <4>1. /\ n \in Nat /\ Len(applied) \in Nat /\ n + 1 \in 1..Len(applied)
            /\ applied[n + 1].id \in Nat
        BY <1>2, <3>2 DEF Batches
      <4>2. /\ Len(w) = n + 1 /\ DOMAIN w = 1..(n + 1) /\ w[n + 1] = applied[n + 1].id
            /\ \A k \in 1..n : w[k] = v[k]
        BY <1>2, <3>2, <4>1
      <4>3. /\ Len(applied) <= Len(History) /\ Len(History) \in Nat
            /\ \A k \in 1..Len(applied) : History[k] = applied[k]
            /\ \A k \in 0..Len(applied) : CursorAt(History, k) = CursorAt(applied, k)
        BY <1>2, <2>1, StateStarts DEF SurfaceInv, CoordInv
      <4>4. DOMAIN v = 1..n /\ \A k \in DOMAIN v : v[k] = History[k].id
        BY <1>2 DEF ViewOK
      <4>5. at'[l] = CursorAt(History, n + 1)
        BY <3>2, <4>1, <4>3 DEF CursorAt
      <4> HIDE DEF v, n, w
      <4>6. \A k \in DOMAIN w : w[k] = History[k].id
        BY <4>1, <4>2, <4>3, <4>4
      <4>7. Len(w) <= Len(applied) /\ Len(w) <= Len(History)
        BY <4>1, <4>2, <4>3
      <4> QED BY <4>2, <4>5, <4>6, <4>7 DEF ViewOK, w
    <3> QED BY <2>1, <3>1, <3>2
  <2> QED BY <1>1, <2>1, <2>2, ClientStepKept
<1>5. CASE Leave(l)
  <2>1. lane' = [lane EXCEPT ![l] = NoLane] /\ view' = view /\ at' = at
    BY <1>5 DEF Leave
  <2>2. /\ lane'[l] = NoLane
        /\ \A m \in Lanes \ {l} : /\ lane'[m] = lane[m] /\ view'[m] = view[m]
                                  /\ at'[m] = at[m]
    BY <1>2, <2>1 DEF HubOK
  <2>3. LaneOK(lane'[l], view'[l], applied, hub.bound)
    BY <2>2, NoLaneOK
  <2> QED BY <1>1, <1>2, <2>1, <2>2, <2>3, ClientStepKept
<1> QED BY <1>3, <1>4, <1>5 DEF Client
-----------------------------------------------------------------------------
(***************************************************************************)
(* The theorems.                                                           *)
(***************************************************************************)
LEMMA InitSurface == Init => SurfaceInv
<1> SUFFICES ASSUME Init PROVE SurfaceInv
  OBVIOUS
<1>1. TypeOK /\ disk \in Files
  BY InitTypes, TypeSplit DEF CoreOK
<1>2. /\ disk.prepared = << >> /\ disk.committed = {} /\ pc = "down" /\ acked = {}
      /\ job = NoJob /\ held = None /\ hub = NoHub
      /\ lane = [l \in Lanes |-> NoLane]
      /\ view = [l \in Lanes |-> << >>] /\ at = [l \in Lanes |-> Origin]
  BY DEF Init
<1>3. History = << >>
  BY <1>2, SelectedEmpty, Zenon DEF History
<1>4. LogInv
  <2>1. DOMAIN << >> = {}
    OBVIOUS
  <2>2. DOMAIN disk.prepared = {} /\ DOMAIN History = {}
    BY <1>2, <1>3, <2>1, Zenon
  <2> QED BY <1>2, <2>2 DEF LogInv
<1>5. AckedSurvives
  BY <1>2 DEF AckedSurvives
<1>6. PhaseInv
  BY <1>2 DEF PhaseInv, NoHub, NoJob
<1>7. ViewInv
  <2>1. ASSUME NEW l \in Lanes PROVE ViewOK(view[l], at[l], History)
    <3>1. view[l] = << >> /\ at[l] = Origin
      BY <1>2
    <3>2. Len(<< >>) = 0 /\ DOMAIN << >> = {}
      OBVIOUS
    <3>3. Len(view[l]) = 0 /\ DOMAIN view[l] = {} /\ Len(History) = 0
      BY <1>3, <3>1, <3>2, Zenon
    <3> QED BY <3>1, <3>3 DEF ViewOK, CursorAt
  <2> QED BY <1>2, <2>1, ViewInvIs
<1>8. LaneInv
  <2>1. ASSUME NEW l \in Lanes PROVE LaneOK(lane[l], view[l], applied, hub.bound)
    BY <1>2, NoLaneOK
  <2> QED BY <2>1, LaneInvIs
<1> QED BY <1>1, <1>2, <1>4, <1>5, <1>6, <1>7, <1>8 DEF SurfaceInv, CoordInv

LEMMA NextSurface == SurfaceInv /\ [Next]_vars => SurfaceInv'
<1> SUFFICES ASSUME SurfaceInv, [Next]_vars PROVE SurfaceInv'
  OBVIOUS
<1>1. TypeOK'
  BY TypesKept DEF SurfaceInv
<1>2. CASE UNCHANGED vars
  <2>1. CoordInv' /\ History' = History
    BY <1>2, CoordSame DEF SurfaceInv, vars, coordVars
  <2>2. ViewInv'
    BY <1>2, <2>1 DEF SurfaceInv, ViewInv, vars
  <2>3. LaneInv'
    BY <1>2 DEF SurfaceInv, LaneInv, vars
  <2> QED BY <1>1, <2>1, <2>2, <2>3 DEF SurfaceInv
<1>3. CASE Next
  BY <1>1, <1>3, AppendKept, CheckpointKept, StartKept, LifeKept, CallsKept,
     ClientKept DEF Next, Calls
<1> QED BY <1>2, <1>3

(* The inductive invariant: the log, the coordinator's memory and what the *)
(* hub owes its clients agree in every reachable state.                    *)
THEOREM SurfaceHolds == Spec => []SurfaceInv
  BY InitSurface, NextSurface, PTL DEF Spec

(* Every variable of the surface keeps its type, whatever fails.           *)
THEOREM SurfaceTypes == Spec => []TypeOK
<1>1. SurfaceInv => TypeOK
  BY DEF SurfaceInv
<1> QED BY <1>1, SurfaceHolds, PTL

(* A commit a caller was told of is in the durable history, and in the     *)
(* state of every later opening of the thread: no failed write, retry,     *)
(* crash or recovery of commit_batch_with_authority loses it.              *)
THEOREM AcknowledgedSurvives == Spec => []AckedSurvives
<1>1. SurfaceInv => AckedSurvives
  BY DEF SurfaceInv, CoordInv
<1> QED BY <1>1, SurfaceHolds, PTL

(* The last element of an end is the last element.                         *)
LEMMA EndsTogether ==
    ASSUME NEW s \in Seq(Batches), NEW t \in Seq(Batches), EndOf(s, t), s # << >>
    PROVE  HeadOf(s) = HeadOf(t)
<1>1. /\ Len(s) \in Nat /\ Len(t) \in Nat /\ Len(s) \in DOMAIN s
  OBVIOUS
<1>2. Len(s) <= Len(t) /\ s[Len(s)] = t[Len(t) - Len(s) + Len(s)]
  BY <1>1 DEF EndOf
<1>3. Len(t) - Len(s) + Len(s) = Len(t) /\ t # << >>
  BY <1>1, <1>2
<1> QED BY <1>2, <1>3 DEF HeadOf, Last

(* What the coordinator has reduced is what the log holds as committed,    *)
(* but for the one batch whose checkpoint was reported failed and reached  *)
(* the file; and the hub's snapshot and retained suffix lead to its head.  *)
THEOREM StateMatchesLog == Spec => []StateIsLog
<1>1. SurfaceInv => StateIsLog
  <2> SUFFICES ASSUME SurfaceInv, pc # "down"
               PROVE  /\ \/ applied = History
                         \/ incomplete # None /\ Append(applied, incomplete) = History
                      /\ hub.bound => /\ hub.head = HeadOf(applied)
                                      /\ hub.retained # << >> =>
                                            HeadOf(hub.retained) = hub.head
    BY DEF StateIsLog
  <2>1. /\ IncompleteInv /\ SuffixInv /\ applied \in Seq(Batches)
        /\ hub.retained \in Seq(Batches)
    BY TypeSplit DEF SurfaceInv, CoordInv, CoreOK, HubOK, Hubs
  <2>2. \/ applied = History
        \/ incomplete # None /\ Append(applied, incomplete) = History
    BY <2>1 DEF IncompleteInv
  <2>3. ASSUME hub.bound
        PROVE  /\ hub.head = HeadOf(applied)
               /\ hub.retained # << >> => HeadOf(hub.retained) = hub.head
    <3>1. hub.head = HeadOf(applied) /\ EndOf(hub.retained, applied)
      BY <2>1, <2>3 DEF SuffixInv
    <3> QED BY <2>1, <3>1, EndsTogether
  <2> QED BY <2>2, <2>3
<1> QED BY <1>1, SurfaceHolds, PTL

(* A sequence that agrees with another as far as it goes.                  *)
LEMMA PrefixIs ==
    ASSUME NEW a \in Seq(Nat), NEW b \in Seq(Nat), Len(a) <= Len(b),
           \A k \in 1..Len(a) : a[k] = b[k]
    PROVE  /\ IsPrefix(a, b) /\ a = SubSeq(b, 1, Len(a))
           /\ Len(a) < Len(b) => IsStrictPrefix(a, b)
           /\ Len(a) = Len(b) => a = b
<1> DEFINE c == SubSeq(b, 1, Len(a))
<1>1. Len(a) \in Nat /\ Len(b) \in Nat
  OBVIOUS
<1>2. c \in Seq(Nat) /\ Len(c) = Len(a) /\ \A k \in 1..Len(a) : c[k] = b[k]
  BY <1>1
<1> HIDE DEF c
<1>3. a = c
  <2>1. \A k \in 1..Len(a) : a[k] = c[k]
    BY <1>2
  <2>2. Len(a) = Len(c) /\ a \in Seq(Nat) /\ c \in Seq(Nat)
    BY <1>2
  <2> QED BY <2>1, <2>2, SeqEqual
<1>4. SubSeq(a, 1, Len(a)) = a
  BY <1>1
<1>5. IsPrefix(a, b)
  BY <1>3, <1>4 DEF IsPrefix, c
<1>6. Len(a) < Len(b) => a # b
  BY <1>1
<1>7. Len(a) = Len(b) => a = b
  OBVIOUS
<1> QED BY <1>3, <1>5, <1>6, <1>7 DEF c, IsStrictPrefix

(* What a client has seen, with what its lane holds.                       *)
LEMMA OwedIs ==
    ASSUME SurfaceInv, pc # "down", NEW l \in Lanes, lane[l].st # "none"
    PROVE  LET q == Queued(lane[l].queue)
               owed == view[l] \o Ids(q)
           IN /\ owed \in Seq(Nat) /\ Len(owed) = Len(view[l]) + Len(q)
              /\ Len(owed) <= Len(applied)
              /\ \A k \in 1..Len(owed) : owed[k] = Ids(applied)[k]
<1> DEFINE q == Queued(lane[l].queue)  v == view[l]  w == Ids(q)  a == Ids(applied)
           o == v \o w
<1>1. /\ TypeOK /\ IncompleteInv /\ applied \in Seq(Batches) /\ v \in Seq(Nat)
      /\ lane[l].queue \in Seq(Items)
      /\ ViewOK(v, at[l], History) /\ Len(v) <= Len(applied)
      /\ LaneOK(lane[l], v, applied, hub.bound)
  BY TypeSplit, ViewInvIs, LaneInvIs
     DEF SurfaceInv, CoordInv, CoreOK, HubOK, Subscribers
<1>2. q \in Seq(Batches) /\ Len(q) \in Nat /\ DOMAIN q = 1..Len(q)
  BY <1>1, QueuedType
<1>3. /\ Len(v) + Len(q) <= Len(applied)
      /\ \A k \in 1..Len(q) : q[k] = applied[Len(v) + k]
  BY <1>1, <1>2 DEF LaneOK
<1>4. /\ Len(v) \in Nat /\ Len(applied) \in Nat
      /\ \A k \in 1..Len(v) : v[k] = applied[k].id
  <2>1. \A k \in 1..Len(applied) : History[k] = applied[k]
    BY <1>1, StateStarts
  <2>2. Len(v) \in Nat /\ Len(applied) \in Nat /\ DOMAIN v = 1..Len(v)
    BY <1>1
  <2>3. \A k \in DOMAIN v : v[k] = History[k].id
    BY <1>1 DEF ViewOK
  <2>4. Len(v) <= Len(applied)
    BY <1>1
  <2> HIDE DEF v
  <2>5. ASSUME NEW k \in 1..Len(v) PROVE v[k] = applied[k].id
    <3>1. k \in DOMAIN v /\ k \in 1..Len(applied)
      BY <2>2, <2>4
    <3> QED BY <2>1, <2>3, <3>1
  <2> QED BY <2>2, <2>5
<1> HIDE DEF q
<1>5. /\ w \in Seq(Nat) /\ Len(w) = Len(q) /\ \A k \in 1..Len(q) : w[k] = q[k].id
  BY <1>2, IdsType
<1>6. /\ a \in Seq(Nat) /\ Len(a) = Len(applied)
      /\ \A k \in 1..Len(applied) : a[k] = applied[k].id
  BY <1>1, IdsType
<1> HIDE DEF v, w, a
<1>7. /\ o \in Seq(Nat) /\ Len(o) = Len(v) + Len(w)
      /\ \A k \in 1..(Len(v) + Len(w)) :
            o[k] = IF k <= Len(v) THEN v[k] ELSE w[k - Len(v)]
  <2>1. v \in Seq(Nat) /\ w \in Seq(Nat)
    BY <1>1, <1>5
  <2> QED BY <2>1, ConcatProperties
<1> HIDE DEF o
<1>8. ASSUME NEW k \in 1..Len(o) PROVE o[k] = a[k]
  <2>1. k \in 1..Len(applied) /\ a[k] = applied[k].id
    BY <1>2, <1>3, <1>4, <1>5, <1>6, <1>7
  <2>2. CASE k <= Len(v)
    <3>1. k \in 1..Len(v)
      BY <1>4, <2>1, <2>2
    <3> QED BY <1>4, <1>5, <1>7, <2>1, <2>2, <3>1
  <2>3. CASE ~(k <= Len(v))
    <3>1. k - Len(v) \in 1..Len(q) /\ Len(v) + (k - Len(v)) = k
      BY <1>2, <1>4, <1>5, <1>7, <2>1, <2>3
    <3>2. w[k - Len(v)] = applied[Len(v) + (k - Len(v))].id
      BY <1>3, <1>5, <3>1
    <3>3. o[k] = w[k - Len(v)]
      BY <1>7, <2>3
    <3> QED BY <2>1, <3>1, <3>2, <3>3
  <2> QED BY <2>2, <2>3
<1>9. Len(o) = Len(v) + Len(q) /\ Len(o) <= Len(applied)
  BY <1>3, <1>5, <1>7
<1> QED BY <1>7, <1>8, <1>9 DEF o, v, w, a, q

(* A lane owes its client exactly what is between the client's view and    *)
(* the state, within its limit, and a retired lane ends with its gap:      *)
(* publish_batch and the two attach calls take no batch twice and miss     *)
(* none.                                                                   *)
THEOREM ClientsMissNothing == Spec => []NothingMissed
<1>1. SurfaceInv => NothingMissed
  <2> SUFFICES ASSUME SurfaceInv, NEW l \in Lanes
               PROVE  LET owed == view[l] \o Ids(Queued(lane[l].queue))
                      IN /\ Events(Queued(lane[l].queue)) <= LaneLimit
                         /\ lane[l].st = "live" => owed = Ids(applied)
                         /\ lane[l].st = "retired" =>
                               /\ Last(lane[l].queue) = Gap
                               /\ IsStrictPrefix(owed, Ids(applied))
    BY DEF NothingMissed
  <2> DEFINE q == Queued(lane[l].queue)  owed == view[l] \o Ids(q)  a == Ids(applied)
  <2>1. /\ LaneOK(lane[l], view[l], applied, hub.bound) /\ PhaseInv
        /\ applied \in Seq(Batches)
    BY LaneInvIs, TypeSplit DEF SurfaceInv, CoordInv, CoreOK
  <2>2. Events(q) <= LaneLimit
    BY <2>1 DEF LaneOK
  <2>3. ASSUME lane[l].st # "none"
        PROVE  /\ lane[l].st = "live" => owed = a
               /\ lane[l].st = "retired" => /\ Last(lane[l].queue) = Gap
                                            /\ IsStrictPrefix(owed, a)
    <3>1. pc # "down"
      BY <2>1, <2>3 DEF LaneOK, PhaseInv
    <3>2. /\ owed \in Seq(Nat) /\ Len(owed) = Len(view[l]) + Len(q)
          /\ Len(owed) <= Len(applied)
          /\ \A k \in 1..Len(owed) : owed[k] = a[k]
      BY <2>3, <3>1, OwedIs
    <3>3. a \in Seq(Nat) /\ Len(a) = Len(applied)
      BY <2>1, IdsType
    <3>4. /\ lane[l].st = "live" => Len(view[l]) + Len(q) = Len(applied)
          /\ lane[l].st = "retired" => /\ Len(view[l]) + Len(q) < Len(applied)
                                       /\ Last(lane[l].queue) = Gap
      BY <2>1 DEF LaneOK
    <3> HIDE DEF owed, a, q
    <3>5. /\ Len(owed) < Len(a) => IsStrictPrefix(owed, a)
          /\ Len(owed) = Len(a) => owed = a
      BY <3>2, <3>3, PrefixIs
    <3> QED BY <3>2, <3>3, <3>4, <3>5
  <2> QED BY <2>2, <2>3
<1> QED BY <1>1, SurfaceHolds, PTL
-----------------------------------------------------------------------------
(***************************************************************************)
(* The surface implements the published log.                               *)
(***************************************************************************)
(* A batch is only built while its id is within the bound.                 *)
BuiltBounded == built <= MaxBatches

LEMMA BuiltStep == TypeOK /\ BuiltBounded /\ [Next]_vars => BuiltBounded'
<1> SUFFICES ASSUME TypeOK, BuiltBounded, [Next]_vars PROVE BuiltBounded'
  OBVIOUS
<1>1. built \in Nat /\ MaxBatches \in Nat
  BY SurfaceBounds, TypeSplit DEF CoreOK
<1>2. built' = built \/ (built < MaxBatches /\ built' = built + 1)
  BY DEF Next, vars, CommitAppend, CommitCheckpoint, Start, Takeover, Reconcile, Refresh,
         Bind, Seal, Close, Crash, Semantic, Control, Poll, Submit, RetryControl,
         RetryIncomplete, Client, AttachFresh, AttachAfter, Registers, Receive, Leave
<1> QED BY <1>1, <1>2 DEF BuiltBounded

(* What a client has seen, as a sequence of ids.                           *)
LEMMA SeenIs ==
    ASSUME NEW v \in Seq(Nat), NEW c, NEW h \in Seq(Batches), ViewOK(v, c, h)
    PROVE  /\ Ids(h) \in Seq(Nat) /\ Len(Ids(h)) = Len(h) /\ Len(v) \in 0..Len(h)
           /\ \A k \in 1..Len(v) : v[k] = Ids(h)[k]
           /\ v = SubSeq(Ids(h), 1, Len(v))
<1> DEFINE i == Ids(h)
<1>1. /\ i \in Seq(Nat) /\ Len(i) = Len(h) /\ \A k \in 1..Len(h) : i[k] = h[k].id
      /\ Len(v) \in Nat /\ Len(h) \in Nat /\ DOMAIN v = 1..Len(v)
  BY IdsType
<1>2. Len(v) <= Len(h) /\ \A k \in DOMAIN v : v[k] = h[k].id
  BY DEF ViewOK
<1> HIDE DEF i
<1>3. ASSUME NEW k \in 1..Len(v) PROVE v[k] = i[k]
  <2>1. k \in 1..Len(h) /\ k \in DOMAIN v
    BY <1>1, <1>2
  <2> QED BY <1>1, <1>2, <2>1
<1>4. v = SubSeq(i, 1, Len(v))
  BY <1>1, <1>2, <1>3, PrefixIs
<1> QED BY <1>1, <1>2, <1>3, <1>4 DEF i

(* A client's step shows it more of the history, or nothing new.           *)
LEMMA ClientLearns ==
    ASSUME SurfaceInv, SurfaceInv', NEW l \in Lanes, Client(l)
    PROVE  Published!Learn(l) \/ UNCHANGED <<Ids(History), view>>
<1> DEFINE i == Ids(History)  v == view[l]  w == view'[l]
<1>1. disk' = disk /\ History' = History
  <2>1. disk' = disk
    BY DEF Client, AttachFresh, AttachAfter, Registers, Receive, Leave
  <2> QED BY <2>1, HistoryIs
<1>2. /\ History \in Seq(Batches) /\ v \in Seq(Nat) /\ w \in Seq(Nat)
      /\ view \in [Lanes -> Seq(Nat)] /\ applied \in Seq(Batches)
      /\ ViewOK(v, at[l], History) /\ ViewOK(w, at'[l], History)
      /\ pc # "down" => Len(v) <= Len(applied)
  BY <1>1, TypeSplit, HistoryIsSeq, ViewInvIs DEF SurfaceInv, HubOK, CoreOK
<1>3. Len(v) \in Nat /\ Len(w) \in Nat /\ Len(applied) \in Nat
  BY <1>2
<1>4. Len(v) <= Len(w) /\ view' = [view EXCEPT ![l] = w]
  <2>1. CASE AttachFresh(l) \/ AttachAfter(l)
    <3>1. w = Ids(applied) /\ pc = "up"
      BY <2>1, AttachSees
    <3>2. Len(w) = Len(applied)
      BY <1>2, <3>1, IdsType
    <3>3. view' = [view EXCEPT ![l] = w]
      BY <1>2, <2>1 DEF AttachFresh, AttachAfter
    <3> QED BY <1>2, <1>3, <3>1, <3>2, <3>3
  <2>2. CASE Receive(l)
    <3>1. \/ w = v
          \/ /\ Len(v) + 1 <= Len(applied)
             /\ w = Append(v, applied[Len(v) + 1].id)
      BY <2>2, ReceiveSees
    <3>2. Len(v) <= Len(w)
      <4>1. CASE w = v
        BY <1>3, <4>1
      <4>2. CASE /\ Len(v) + 1 <= Len(applied)
                 /\ w = Append(v, applied[Len(v) + 1].id)
        <5>1. applied[Len(v) + 1].id \in Nat
          BY <1>2, <1>3, <4>2 DEF Batches
        <5>2. Len(w) = Len(v) + 1
          BY <1>2, <4>2, <5>1
        <5> QED BY <1>3, <5>2
      <4> QED BY <3>1, <4>1, <4>2
    <3>3. view' = [view EXCEPT ![l] = w]
      BY <1>2, <2>2 DEF Receive
    <3> QED BY <3>2, <3>3
  <2>3. CASE Leave(l)
    <3>1. view' = view
      BY <2>3 DEF Leave
    <3> QED BY <1>2, <1>3, <3>1
  <2> QED BY <2>1, <2>2, <2>3 DEF Client
<1>5. /\ i \in Seq(Nat) /\ Len(i) = Len(History)
      /\ Len(v) \in 0..Len(History) /\ Len(w) \in 0..Len(History)
      /\ \A k \in 1..Len(v) : v[k] = i[k]
      /\ \A k \in 1..Len(w) : w[k] = i[k]
      /\ v = SubSeq(i, 1, Len(v)) /\ w = SubSeq(i, 1, Len(w))
  BY <1>2, SeenIs
<1>6. Ids(History)' = Ids(History)
  BY <1>1 DEF Ids
<1>7. CASE Len(v) = Len(w)
  <2>1. w = v
    BY <1>5, <1>7
  <2>2. view' = view
    BY <1>2, <1>4, <2>1
  <2> QED BY <1>6, <2>2
<1>8. CASE Len(v) < Len(w)
  <2>1. Published!IsPrefix(v, w)
    <3>1. v \in Seq(Nat) /\ w \in Seq(Nat) /\ Len(v) <= Len(w)
      BY <1>2, <1>4
    <3> HIDE DEF v, w, i
    <3>2. ASSUME NEW k \in 1..Len(v) PROVE v[k] = w[k]
      <4>1. k \in 1..Len(w)
        BY <1>3, <3>1
      <4> QED BY <1>5, <4>1
    <3>3. IsPrefix(v, w)
      BY <3>1, <3>2, PrefixIs
    <3> QED BY <3>3 DEF IsPrefix, Published!IsPrefix
  <2>2. \E n \in 0..Len(i) : /\ n > Len(view[l])
                             /\ view' = [view EXCEPT ![l] = SubSeq(i, 1, n)]
    <3>1. Len(w) \in 0..Len(i) /\ Len(w) > Len(view[l])
      BY <1>3, <1>5, <1>8
    <3>2. view' = [view EXCEPT ![l] = SubSeq(i, 1, Len(w))]
      BY <1>4, <1>5
    <3> QED BY <3>1, <3>2
  <2> QED BY <1>6, <2>1, <2>2 DEF Published!Learn
<1> QED BY <1>3, <1>4, <1>7, <1>8

(* A step of the host publishes the incomplete batch, or nothing.          *)
LEMMA HostPublishes ==
    ASSUME SurfaceInv, SurfaceInv', BuiltBounded, [Next]_vars,
           ~\E l \in Lanes : Client(l)
    PROVE  Published!Publish \/ UNCHANGED <<Ids(History), view>>
<1> DEFINE b == job.batch
<1>1. TypeOK /\ TypeOK' /\ LogInv /\ built \in Nat
  BY TypeSplit DEF SurfaceInv, CoordInv, CoreOK
<1>2. CASE disk' = disk /\ view' = view
  BY <1>2, HistoryIs DEF Ids
<1>3. CASE LogStep /\ view' = view /\ built' = built /\ pc # "down"
  <2>1. IncompleteInv
    BY <1>3 DEF SurfaceInv, CoordInv
  <2>2. HistoryStep
    BY <1>1, <1>3, <2>1, LogKept
  <2>3. CASE History' = History
    BY <1>3, <2>3 DEF Ids
  <2>4. CASE /\ incomplete # None /\ History = applied
             /\ History' = Append(applied, incomplete)
    <3>1. incomplete \in Batches /\ History \in Seq(Batches)
          /\ disk.prepared \in Seq(Batches)
      BY <1>1, <2>4, TypeSplit, HistoryIsSeq DEF CoreOK, Files
    <3>2. Ids(History') = Append(Ids(History), incomplete.id)
      BY <2>4, <3>1, IdsAppend
    <3>3. incomplete.id \in 1..MaxBatches
      <4>1. disk.prepared # << >> /\ Last(disk.prepared) = incomplete
        BY <2>1, <2>4 DEF IncompleteInv
      <4>2. Len(disk.prepared) \in DOMAIN disk.prepared
        BY <3>1, <4>1
      <4>3. incomplete.id \in 1..built
        BY <1>1, <4>1, <4>2 DEF LogInv, Last
      <4> QED BY <1>1, <4>3, SurfaceBounds DEF BuiltBounded
    <3>4. Ids(History)' = Append(Ids(History), incomplete.id)
      BY <3>2 DEF Ids
    <3> QED BY <1>3, <3>3, <3>4 DEF Published!Publish
  <2> QED BY <2>2, <2>3, <2>4 DEF HistoryStep
<1>4. CASE CommitAppend
  <2>1. /\ b # None /\ b \in Batches /\ pc # "down" /\ built' = built
    BY <1>1, <1>4, TypeSplit
    DEF CommitAppend, SurfaceInv, CoordInv, PhaseInv, NoJob, CoreOK, Jobs
  <2>2. /\ view' = view
        /\ disk' = disk \/ (Admits(b) /\ disk' \in {disk, WithPrepared(b)})
    BY <1>4 DEF CommitAppend, Succeed, GiveUp, Down, Retry, Reserve, Written,
                WriteFails, laneVars
  <2>3. LogStep
    BY <2>1, <2>2, AppendWrites DEF LogStep
  <2> QED BY <1>3, <2>1, <2>2, <2>3
<1>5. CASE CommitCheckpoint
  <2>1. /\ b # None /\ b \in Batches /\ pc # "down" /\ built' = built
        /\ job.step = "checkpoint"
    BY <1>1, <1>5, TypeSplit
    DEF CommitCheckpoint, SurfaceInv, CoordInv, PhaseInv, NoJob, CoreOK, Jobs
  <2>2. view' = view /\ disk' \in {disk, WithCommitted(b.id)}
    BY <1>5 DEF CommitCheckpoint, Materialize, GiveUp, Down, Retry, Written,
                WriteFails, laneVars
  <2>3. LogStep
    BY <2>1, <2>2, CheckpointWrites
  <2> QED BY <1>3, <2>1, <2>2, <2>3
<1>6. CASE ~CommitAppend /\ ~CommitCheckpoint
  <2>1. disk' = disk /\ view' = view
    BY <1>6 DEF Next, vars, laneVars, Start, Takeover, Reconcile, Refresh, Bind, Seal, Close,
                Crash, Down, Semantic, Control, Poll, Submit, RetryControl, RetryIncomplete
  <2> QED BY <1>2, <2>1
<1> QED BY <1>4, <1>5, <1>6

(* PublishedSpec: through attachments, replays, gaps, restarts, crashes    *)
(* and batches whose writes failed, the committed ids form one history     *)
(* that only grows, and what a client has seen is a beginning of it that   *)
(* only gets longer.                                                       *)
THEOREM PublishedLogImplemented == Spec => PublishedSpec
<1>1. Init => BuiltBounded /\ Published!Init
  <2> SUFFICES ASSUME Init PROVE BuiltBounded /\ Published!Init
    OBVIOUS
  <2>1. built = 0 /\ disk.prepared = << >> /\ view = [l \in Lanes |-> << >>]
    BY DEF Init
  <2>2. History = << >>
    BY <2>1, SelectedEmpty, Zenon DEF History
  <2>3. << >> \in Seq(Batches) /\ Len(<< >>) = 0
    OBVIOUS
  <2>4. Ids(History) \in Seq(Nat) /\ Len(Ids(History)) = 0
    BY <2>2, <2>3, IdsType
  <2>5. Ids(History) = << >>
    BY <2>4, EmptySeq
  <2> QED BY <2>1, <2>5, SurfaceBounds DEF BuiltBounded, Published!Init
<1>2. SurfaceInv /\ SurfaceInv' /\ BuiltBounded /\ [Next]_vars
          => [Published!Next]_<<Ids(History), view>>
  <2> SUFFICES ASSUME SurfaceInv, SurfaceInv', BuiltBounded, [Next]_vars
               PROVE  Published!Next \/ UNCHANGED <<Ids(History), view>>
    OBVIOUS
  <2>1. CASE \E l \in Lanes : Client(l)
    BY <2>1, ClientLearns DEF Published!Next
  <2>2. CASE ~\E l \in Lanes : Client(l)
    BY <2>2, HostPublishes DEF Published!Next
  <2> QED BY <2>1, <2>2
<1>3. SurfaceInv => TypeOK
  BY DEF SurfaceInv
<1> QED BY <1>1, <1>2, <1>3, BuiltStep, SurfaceHolds, PTL
        DEF Spec, PublishedSpec, Published!Spec
=============================================================================
