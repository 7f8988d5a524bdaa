----------------------- MODULE WorldGeneration_proofs -----------------------
(***************************************************************************)
(* Proofs about AssumedFill, for every world and every number of           *)
(* displacements and attempts: the fallbacks of the sweep lose and double  *)
(* no item, no cadeau is left over, the sweep winds down, what is placed   *)
(* stays reachable, and what is accepted can be finished; and about        *)
(* SeedOptions, for every set of seeds and whatever their players gather:  *)
(* the closed rules mirror the region graph, and no seed seals a region.   *)
(***************************************************************************)
EXTENDS AssumedFill, SeedOptions, FiniteSetTheorems, WellFoundedInduction, TLAPS

Distinct(s) == \A m, n \in DOMAIN s : s[m] = s[n] => m = n

-----------------------------------------------------------------------------
(* Sequences of distinct items.                                             *)

\* The items of a sequence over S are in S.
LEMMA ItemsType ==
    ASSUME NEW S, NEW s \in Seq(S)
    PROVE  SeqItems(s) \subseteq S
BY DEF SeqItems

\* An empty sequence has no items.
LEMMA EmptyItems == SeqItems(<< >>) = {} /\ Distinct(<< >>)
BY DEF SeqItems, Distinct

\* An item put at the end joins the others.
LEMMA AppendItems ==
    ASSUME NEW S, NEW s \in Seq(S), NEW x \in S,
           Distinct(s), x \notin SeqItems(s)
    PROVE  /\ Append(s, x) \in Seq(S)
           /\ Distinct(Append(s, x))
           /\ SeqItems(Append(s, x)) = SeqItems(s) \cup {x}
<1> DEFINE t == Append(s, x)
<1>1. /\ t \in Seq(S) /\ Len(t) = Len(s) + 1 /\ Len(s) \in Nat
      /\ DOMAIN s = 1 .. Len(s) /\ DOMAIN t = 1 .. Len(s) + 1
      /\ \A n \in 1 .. Len(s) : t[n] = s[n]
      /\ t[Len(s) + 1] = x
  OBVIOUS
<1>2. \A n \in 1 .. Len(s) : s[n] # x
  BY <1>1 DEF SeqItems
<1>3. Distinct(t)
  <2> SUFFICES ASSUME NEW m \in DOMAIN t, NEW n \in DOMAIN t, t[m] = t[n]
               PROVE  m = n
    BY DEF Distinct
  <2> HIDE DEF t
  <2>1. CASE m \in 1 .. Len(s) /\ n \in 1 .. Len(s)
    BY <1>1, <2>1 DEF Distinct
  <2>2. CASE m = Len(s) + 1 \/ n = Len(s) + 1
    BY <1>1, <1>2, <2>2
  <2> QED
    BY <1>1, <2>1, <2>2
<1>4. SeqItems(t) = SeqItems(s) \cup {x}
  <2> HIDE DEF t
  <2>1. SeqItems(s) \cup {x} \subseteq SeqItems(t)
    BY <1>1 DEF SeqItems
  <2>2. SeqItems(t) \subseteq SeqItems(s) \cup {x}
    BY <1>1 DEF SeqItems
  <2> QED
    BY <2>1, <2>2
<1> QED
  BY <1>1, <1>3, <1>4

\* An item put at the head joins the others.
LEMMA PrependItems ==
    ASSUME NEW S, NEW s \in Seq(S), NEW x \in S,
           Distinct(s), x \notin SeqItems(s)
    PROVE  /\ <<x>> \o s \in Seq(S)
           /\ Distinct(<<x>> \o s)
           /\ SeqItems(<<x>> \o s) = SeqItems(s) \cup {x}
<1> DEFINE t == <<x>> \o s
<1>1. /\ t \in Seq(S) /\ Len(s) \in Nat
      /\ DOMAIN s = 1 .. Len(s) /\ DOMAIN t = 1 .. Len(s) + 1
      /\ \A n \in 1 .. Len(s) : t[n + 1] = s[n]
      /\ t[1] = x
  OBVIOUS
<1>2. \A n \in 1 .. Len(s) : s[n] # x
  BY <1>1 DEF SeqItems
<1> HIDE DEF t
<1>3. \A n \in 2 .. Len(s) + 1 : n - 1 \in 1 .. Len(s) /\ t[n] = s[n - 1]
  <2> SUFFICES ASSUME NEW n \in 2 .. Len(s) + 1
               PROVE  n - 1 \in 1 .. Len(s) /\ t[n] = s[n - 1]
    OBVIOUS
  <2>1. n - 1 \in 1 .. Len(s) /\ (n - 1) + 1 = n
    BY <1>1
  <2> QED
    BY <1>1, <2>1
<1>4. Distinct(t)
  <2> SUFFICES ASSUME NEW m \in DOMAIN t, NEW n \in DOMAIN t, t[m] = t[n]
               PROVE  m = n
    BY DEF Distinct
  <2>1. CASE m = 1 \/ n = 1
    BY <1>1, <1>2, <1>3, <2>1
  <2>2. CASE m # 1 /\ n # 1
    <3>1. m \in 2 .. Len(s) + 1 /\ n \in 2 .. Len(s) + 1
      BY <1>1, <2>2
    <3>2. m - 1 = n - 1
      BY <1>1, <1>3, <3>1 DEF Distinct
    <3> QED
      BY <1>1, <3>1, <3>2
  <2> QED
    BY <2>1, <2>2
<1>5. SeqItems(t) = SeqItems(s) \cup {x}
  <2>1. SeqItems(s) \cup {x} \subseteq SeqItems(t)
    <3>1. x \in SeqItems(t)
      BY <1>1 DEF SeqItems
    <3>2. \A n \in 1 .. Len(s) : n + 1 \in DOMAIN t
      BY <1>1
    <3>3. SeqItems(s) \subseteq SeqItems(t)
      BY <1>1, <3>2 DEF SeqItems
    <3> QED
      BY <3>1, <3>3
  <2>2. SeqItems(t) \subseteq SeqItems(s) \cup {x}
    <3> SUFFICES ASSUME NEW n \in DOMAIN t
                 PROVE  t[n] \in SeqItems(s) \cup {x}
      BY DEF SeqItems
    <3>1. n = 1 \/ n \in 2 .. Len(s) + 1
      BY <1>1
    <3> QED
      BY <1>1, <1>3, <3>1 DEF SeqItems
  <2> QED
    BY <2>1, <2>2
<1> QED
  BY <1>1, <1>4, <1>5 DEF t

\* The tail loses the head alone.
LEMMA TailItems ==
    ASSUME NEW S, NEW s \in Seq(S), s # << >>, Distinct(s)
    PROVE  /\ Tail(s) \in Seq(S)
           /\ Distinct(Tail(s))
           /\ Head(s) \in SeqItems(s)
           /\ SeqItems(Tail(s)) = SeqItems(s) \ {Head(s)}
<1> DEFINE t == Tail(s)
<1>1. /\ t \in Seq(S) /\ Len(s) \in Nat \ {0}
      /\ DOMAIN s = 1 .. Len(s) /\ DOMAIN t = 1 .. Len(s) - 1
      /\ \A n \in 1 .. Len(s) - 1 : t[n] = s[n + 1]
      /\ Head(s) = s[1]
  OBVIOUS
<1> HIDE DEF t
<1>2. \A n \in 1 .. Len(s) - 1 : n + 1 \in DOMAIN s /\ n + 1 # 1
  BY <1>1
<1>3. Distinct(t)
  <2> SUFFICES ASSUME NEW m \in DOMAIN t, NEW n \in DOMAIN t, t[m] = t[n]
               PROVE  m = n
    BY DEF Distinct
  <2>1. m + 1 = n + 1
    BY <1>1, <1>2 DEF Distinct
  <2> QED
    BY <1>1, <2>1
<1>4. Head(s) \in SeqItems(s)
  BY <1>1 DEF SeqItems
<1>5. SeqItems(t) \subseteq SeqItems(s) \ {Head(s)}
  <2> SUFFICES ASSUME NEW n \in DOMAIN t
               PROVE  t[n] \in SeqItems(s) \ {Head(s)}
    BY DEF SeqItems
  <2>1. t[n] \in SeqItems(s)
    BY <1>1, <1>2 DEF SeqItems
  <2>2. s[n + 1] # s[1]
    BY <1>1, <1>2 DEF Distinct
  <2> QED
    BY <1>1, <2>1, <2>2
<1>6. SeqItems(s) \ {Head(s)} \subseteq SeqItems(t)
  <2> SUFFICES ASSUME NEW n \in DOMAIN s, s[n] # Head(s)
               PROVE  s[n] \in SeqItems(t)
    BY DEF SeqItems
  <2>1. n - 1 \in DOMAIN t /\ (n - 1) + 1 = n
    BY <1>1
  <2>2. t[n - 1] = s[n]
    BY <1>1, <2>1
  <2> QED
    BY <2>1, <2>2 DEF SeqItems
<1> QED
  BY <1>1, <1>3, <1>4, <1>5, <1>6 DEF t

\* Taking the element at n out of a sequence.
CutAt(s, n) == SubSeq(s, 1, n - 1) \o SubSeq(s, n + 1, Len(s))

\* A sequence cut at n loses its nth item alone.
LEMMA CutItems ==
    ASSUME NEW S, NEW s \in Seq(S), NEW n \in DOMAIN s, Distinct(s)
    PROVE  /\ CutAt(s, n) \in Seq(S)
           /\ Distinct(CutAt(s, n))
           /\ SeqItems(CutAt(s, n)) = SeqItems(s) \ {s[n]}
<1> DEFINE t == CutAt(s, n)
<1>1. /\ Len(s) \in Nat /\ DOMAIN s = 1 .. Len(s) /\ n \in 1 .. Len(s)
      /\ \A m \in DOMAIN s : s[m] \in S
  OBVIOUS
<1>2. /\ SubSeq(s, 1, n - 1) \in Seq(S) /\ Len(SubSeq(s, 1, n - 1)) = n - 1
      /\ \A m \in 1 .. n - 1 : SubSeq(s, 1, n - 1)[m] = s[m]
  BY <1>1
<1>3. /\ SubSeq(s, n + 1, Len(s)) \in Seq(S)
      /\ Len(SubSeq(s, n + 1, Len(s))) = Len(s) - n
      /\ \A m \in 1 .. Len(s) - n : SubSeq(s, n + 1, Len(s))[m] = s[n + m]
  BY <1>1
<1> DEFINE a == SubSeq(s, 1, n - 1)
           b == SubSeq(s, n + 1, Len(s))
<1>11. t = a \o b /\ a \in Seq(S) /\ b \in Seq(S)
  BY <1>2, <1>3 DEF CutAt
<1>12. /\ Len(a) = n - 1 /\ Len(b) = Len(s) - n
       /\ \A m \in 1 .. n - 1 : a[m] = s[m]
       /\ \A m \in 1 .. Len(s) - n : b[m] = s[n + m]
  BY <1>2, <1>3
<1> HIDE DEF t, a, b
<1>4. t \in Seq(S) /\ Len(t) = Len(s) - 1 /\ DOMAIN t = 1 .. Len(s) - 1
  <2>1. t \in Seq(S) /\ Len(t) = Len(a) + Len(b) /\ DOMAIN t = 1 .. Len(t)
    BY <1>11
  <2>2. Len(a) + Len(b) = Len(s) - 1
    BY <1>1, <1>12
  <2> QED
    BY <2>1, <2>2
<1>13. /\ \A m \in 1 .. Len(a) : t[m] = a[m]
       /\ \A m \in Len(a) + 1 .. Len(a) + Len(b) : t[m] = b[m - Len(a)]
  BY <1>11
<1>5. \A m \in 1 .. n - 1 : t[m] = s[m]
  BY <1>12, <1>13
<1>6. \A m \in n .. Len(s) - 1 : t[m] = s[m + 1]
  <2> SUFFICES ASSUME NEW m \in n .. Len(s) - 1
               PROVE  t[m] = s[m + 1]
    OBVIOUS
  <2>1. m - (n - 1) \in 1 .. Len(s) - n
    BY <1>1
  <2>2. t[m] = b[m - (n - 1)]
    BY <1>1, <1>12, <1>13
  <2>3. n + (m - (n - 1)) = m + 1
    BY <1>1
  <2>4. b[m - (n - 1)] = s[n + (m - (n - 1))]
    BY <1>12, <2>1
  <2> QED
    BY <2>2, <2>3, <2>4
<1> DEFINE at(m) == IF m < n THEN m ELSE m + 1
<1>7. \A m \in 1 .. Len(s) - 1 : at(m) \in DOMAIN s /\ at(m) # n /\ t[m] = s[at(m)]
  BY <1>1, <1>5, <1>6
<1>8. Distinct(t)
  <2> SUFFICES ASSUME NEW m \in DOMAIN t, NEW k \in DOMAIN t, t[m] = t[k]
               PROVE  m = k
    BY DEF Distinct
  <2>1. at(m) = at(k)
    BY <1>4, <1>7 DEF Distinct
  <2> QED
    BY <1>1, <1>4, <2>1
<1>9. SeqItems(t) \subseteq SeqItems(s) \ {s[n]}
  <2> SUFFICES ASSUME NEW m \in DOMAIN t
               PROVE  t[m] \in SeqItems(s) \ {s[n]}
    BY DEF SeqItems
  <2>1. at(m) \in DOMAIN s /\ at(m) # n /\ t[m] = s[at(m)]
    BY <1>4, <1>7
  <2> HIDE DEF at
  <2> QED
    BY <1>1, <2>1 DEF SeqItems, Distinct
<1>10. SeqItems(s) \ {s[n]} \subseteq SeqItems(t)
  <2> SUFFICES ASSUME NEW m \in DOMAIN s, s[m] # s[n]
               PROVE  s[m] \in SeqItems(t)
    BY DEF SeqItems
  <2>1. CASE m < n
    <3>1. m \in 1 .. n - 1 /\ m \in DOMAIN t
      BY <1>1, <1>4, <2>1
    <3> QED
      BY <1>5, <3>1 DEF SeqItems
  <2>2. CASE m > n
    <3>1. m - 1 \in n .. Len(s) - 1 /\ m - 1 \in DOMAIN t /\ (m - 1) + 1 = m
      BY <1>1, <1>4, <2>2
    <3> QED
      BY <1>6, <3>1 DEF SeqItems
  <2> QED
    BY <1>1, <2>1, <2>2
<1> QED
  BY <1>4, <1>8, <1>9, <1>10 DEF t

-----------------------------------------------------------------------------
(* The queue.                                                               *)

OneKey == \A i, j \in AllItems : IsKey(i) => Category(i) # "soul" /\ (IsKey(j) => i = j)

\* A world has no more than one key to Engine Key.
LEMMA WorldHasOneKey == ASSUME w \in Worlds PROVE OneKey
BY WorldsAssumption DEF OneKey, AllItems, IsKey, Category

\* The key taken out of a sequence, the rest of it stays.
LEMMA KeyTakenItems ==
    ASSUME OneKey, NEW s \in Seq(AllItems), Distinct(s)
    PROVE  /\ KeyTaken(s) \in Seq(AllItems)
           /\ Distinct(KeyTaken(s))
           /\ SeqItems(KeyTaken(s)) = {i \in SeqItems(s) : ~IsKey(i)}
<1> DEFINE at == {n \in DOMAIN s : IsKey(s[n])}
           k == CHOOSE n \in at : TRUE
<1>1. CASE at = {}
  <2>1. KeyTaken(s) = s
    BY <1>1 DEF KeyTaken
  <2>2. \A n \in DOMAIN s : ~IsKey(s[n])
    BY <1>1
  <2> QED
    BY <2>1, <2>2 DEF SeqItems
<1>2. CASE at # {}
  <2>1. k \in DOMAIN s /\ IsKey(s[k])
    BY <1>2
  <2>2. KeyTaken(s) = CutAt(s, k)
    BY <1>2 DEF KeyTaken, CutAt
  <2> HIDE DEF k, at
  <2>3. SeqItems(s) \subseteq AllItems /\ s[k] \in SeqItems(s)
    BY <2>1, ItemsType DEF SeqItems
  <2>4. \A i \in SeqItems(s) : IsKey(i) <=> i = s[k]
    BY <2>1, <2>3 DEF OneKey
  <2>5. /\ CutAt(s, k) \in Seq(AllItems) /\ Distinct(CutAt(s, k))
        /\ SeqItems(CutAt(s, k)) = SeqItems(s) \ {s[k]}
    BY <2>1, CutItems
  <2> QED
    BY <2>2, <2>4, <2>5
<1> QED
  BY <1>1, <1>2

\* A queue that holds no item twice and no soul in the parts the fallbacks made:
\* a soul is blocked only where it has its turn, and nothing takes its slot.
Sound(q) ==
    /\ q = Queue(q.front, q.pending, q.back)
    /\ q.front \in Seq(AllItems) /\ q.back \in Seq(AllItems)
    /\ q.pending \subseteq AllItems
    /\ Distinct(q.front) /\ Distinct(q.back)
    /\ SeqItems(q.front) \cap q.pending = {}
    /\ SeqItems(q.front) \cap SeqItems(q.back) = {}
    /\ SeqItems(q.back) \cap q.pending = {}
    /\ \A i \in SeqItems(q.front) \cup SeqItems(q.back) : Category(i) # "soul"

\* An item requeued joins the items queued.
LEMMA SoundRequeued ==
    ASSUME NEW q, NEW i \in AllItems, Sound(q), i \notin Queued(q), Category(i) # "soul"
    PROVE  Sound(Requeued(q, i)) /\ Queued(Requeued(q, i)) = Queued(q) \cup {i}
<1> DEFINE r == Requeued(q, i)
<1>1. /\ r.front = q.front /\ r.pending = q.pending /\ r.back = Append(q.back, i)
      /\ r = Queue(r.front, r.pending, r.back)
  BY DEF Requeued, Queue
<1>2. /\ r.back \in Seq(AllItems) /\ Distinct(r.back)
      /\ SeqItems(r.back) = SeqItems(q.back) \cup {i}
  BY <1>1, AppendItems DEF Sound, Queued
<1> HIDE DEF r
<1>3. Sound(r)
  BY <1>1, <1>2 DEF Sound, Queued
<1>4. Queued(r) = Queued(q) \cup {i}
  BY <1>1, <1>2 DEF Queued
<1> QED
  BY <1>3, <1>4 DEF r

\* The foremost of a set of items are among them.
LEMMA ForemostIn == ASSUME NEW S PROVE Foremost(S) \subseteq S
BY DEF Foremost

\* The item a turn takes leaves the queue, and it alone.
LEMMA SoundWithout ==
    ASSUME Sound(WholeQueue), NEW i \in NextItems
    PROVE  /\ Sound(Without(i))
           /\ i \in Queued(WholeQueue)
           /\ Queued(Without(i)) = Queued(WholeQueue) \ {i}
<1>1. /\ WholeQueue.front = front /\ WholeQueue.pending = pending
      /\ WholeQueue.back = back
  BY DEF WholeQueue, Queue
<1>2. CASE front # << >>
  <2>1. i = Head(front) /\ Without(i) = Queue(Tail(front), pending, back)
    BY <1>2 DEF NextItems, Without
  <2>2. /\ Tail(front) \in Seq(AllItems) /\ Distinct(Tail(front))
        /\ i \in SeqItems(front) /\ SeqItems(Tail(front)) = SeqItems(front) \ {i}
    BY <1>1, <1>2, <2>1, TailItems DEF Sound
  <2>3. /\ Without(i).front = Tail(front) /\ Without(i).pending = pending
        /\ Without(i).back = back
    BY <2>1 DEF Queue
  <2>4. Sound(Without(i))
    BY <1>1, <2>1, <2>2, <2>3 DEF Sound
  <2> QED
    BY <1>1, <2>2, <2>3, <2>4 DEF Sound, Queued
<1>3. CASE front = << >> /\ pending # {}
  <2>1. i \in pending /\ Without(i) = Queue(front, pending \ {i}, back)
    BY <1>3, ForemostIn DEF NextItems, NextPending, Without
  <2>2. /\ Without(i).front = front /\ Without(i).pending = pending \ {i}
        /\ Without(i).back = back
    BY <2>1 DEF Queue
  <2>3. Sound(Without(i))
    BY <1>1, <2>1, <2>2 DEF Sound
  <2> QED
    BY <1>1, <2>1, <2>2, <2>3 DEF Sound, Queued
<1>4. CASE front = << >> /\ pending = {}
  <2>1. back # << >> /\ i = Head(back) /\ Without(i) = Queue(front, pending, Tail(back))
    BY <1>4 DEF NextItems, Without
  <2>2. /\ Tail(back) \in Seq(AllItems) /\ Distinct(Tail(back))
        /\ i \in SeqItems(back) /\ SeqItems(Tail(back)) = SeqItems(back) \ {i}
    BY <1>1, <2>1, TailItems DEF Sound
  <2>3. /\ Without(i).front = front /\ Without(i).pending = pending
        /\ Without(i).back = Tail(back)
    BY <2>1 DEF Queue
  <2>4. Sound(Without(i))
    BY <1>1, <2>1, <2>2, <2>3 DEF Sound
  <2> QED
    BY <1>1, <1>4, <2>2, <2>3, <2>4 DEF Sound, Queued
<1> QED
  BY <1>2, <1>3, <1>4

\* A soulswap puts the blocked item back and takes the soul out.
LEMMA SoundSwap ==
    ASSUME OneKey, NEW q, Sound(q), NEW i \in AllItems, i \notin Queued(q),
           Category(i) # "soul", NEW soul \in Souls(q)
    PROVE  /\ Sound(SoulSwapped(q, i, soul))
           /\ Queued(SoulSwapped(q, i, soul)) = (Queued(q) \ {soul}) \cup {i}
<1> DEFINE keys == {k \in Queued(q) : IsKey(k)}
           key == IF keys = {} THEN << >> ELSE <<CHOOSE k \in keys : TRUE>>
           f == KeyTaken(q.front)
           b == KeyTaken(q.back)
           p == (q.pending \ {soul}) \ keys
           r == SoulSwapped(q, i, soul)
<1>1. Queued(q) \subseteq AllItems
  BY ItemsType DEF Sound, Queued
<1>2. /\ f \in Seq(AllItems) /\ Distinct(f)
      /\ SeqItems(f) = {k \in SeqItems(q.front) : ~IsKey(k)}
  BY KeyTakenItems DEF Sound
<1>3. /\ b \in Seq(AllItems) /\ Distinct(b)
      /\ SeqItems(b) = {k \in SeqItems(q.back) : ~IsKey(k)}
  BY KeyTakenItems DEF Sound
<1>4. soul \in q.pending /\ ~IsKey(soul) /\ soul \notin SeqItems(q.front) \cup SeqItems(q.back)
  BY <1>1 DEF Souls, Sound, Queued, OneKey
<1>5. r = Queue(<<i>> \o key \o f, p, b)
  BY DEF SoulSwapped
<1>6. /\ key \o f \in Seq(AllItems) /\ Distinct(key \o f)
      /\ SeqItems(key \o f) = SeqItems(f) \cup keys
  <2>1. CASE keys = {}
    <3>1. key = << >>
      BY <2>1
    <3>2. key \o f = f
      <4> HIDE DEF key, f
      <4> QED
        BY <3>1, <1>2
    <3> QED
      BY <1>2, <2>1, <3>2
  <2>2. CASE keys # {}
    <3>1. PICK k \in keys : key = <<k>>
      BY <2>2
    <3>2. keys = {k}
      BY <1>1, <3>1 DEF OneKey
    <3>3. k \in AllItems /\ k \notin SeqItems(f)
      BY <1>1, <1>2, <3>1
    <3> HIDE DEF keys, key, f
    <3> QED
      BY <1>2, <3>1, <3>2, <3>3, PrependItems
  <2> QED
    BY <2>1, <2>2
<1> HIDE DEF key
<1>7. i \notin SeqItems(key \o f)
  BY <1>2, <1>6 DEF Queued
<1>8. <<i>> \o key \o f = <<i>> \o (key \o f)
  <2>1. key \in Seq(AllItems)
    BY <1>1 DEF key
  <2> HIDE DEF f
  <2> QED
    BY <1>2, <2>1
<1>9. /\ <<i>> \o key \o f \in Seq(AllItems) /\ Distinct(<<i>> \o key \o f)
      /\ SeqItems(<<i>> \o key \o f) = SeqItems(f) \cup keys \cup {i}
  <2> HIDE DEF f, keys
  <2> DEFINE t == key \o f
  <2>1. t \in Seq(AllItems) /\ Distinct(t) /\ i \notin SeqItems(t)
    BY <1>6, <1>7
  <2>2. <<i>> \o key \o f = <<i>> \o t
    BY <1>8
  <2>3. SeqItems(t) = SeqItems(f) \cup keys
    BY <1>6
  <2> HIDE DEF t
  <2>4. /\ <<i>> \o t \in Seq(AllItems) /\ Distinct(<<i>> \o t)
        /\ SeqItems(<<i>> \o t) = SeqItems(t) \cup {i}
    BY <2>1, PrependItems
  <2> QED
    BY <2>2, <2>3, <2>4
<1>10. r.front = <<i>> \o key \o f /\ r.pending = p /\ r.back = b
  BY <1>5 DEF Queue
<1>11. \A k \in keys : Category(k) # "soul"
  BY <1>1 DEF OneKey
<1>12. \A x \in SeqItems(r.front) : Category(x) # "soul"
  <2> HIDE DEF r, f
  <2> QED
    BY <1>2, <1>9, <1>10, <1>11 DEF Sound
<1>13. \A x \in SeqItems(r.back) : Category(x) # "soul"
  <2> HIDE DEF r, b
  <2> QED
    BY <1>3, <1>10 DEF Sound
<1> HIDE DEF r, f, b
<1>14. /\ SeqItems(r.front) \cap r.pending = {}
       /\ SeqItems(r.front) \cap SeqItems(r.back) = {}
       /\ SeqItems(r.back) \cap r.pending = {}
  <2>1. /\ SeqItems(r.front) = {k \in SeqItems(q.front) : ~IsKey(k)} \cup keys \cup {i}
        /\ SeqItems(r.back) = {k \in SeqItems(q.back) : ~IsKey(k)}
        /\ r.pending = (q.pending \ {soul}) \ keys
    BY <1>2, <1>3, <1>9, <1>10
  <2>2. i \notin SeqItems(q.front) \cup q.pending \cup SeqItems(q.back)
    BY DEF Queued
  <2>3. \A k \in keys : IsKey(k)
    OBVIOUS
  <2> HIDE DEF keys
  <2> QED
    BY <2>1, <2>2, <2>3 DEF Sound
<1>15. r.pending \subseteq AllItems
  BY <1>10 DEF Sound
<1>16. Sound(r)
  BY <1>3, <1>5, <1>9, <1>10, <1>12, <1>13, <1>14, <1>15 DEF Sound
<1>17. Queued(r) = (Queued(q) \ {soul}) \cup {i}
  BY <1>2, <1>3, <1>4, <1>9, <1>10 DEF Queued
<1> QED
  BY <1>16, <1>17 DEF r

-----------------------------------------------------------------------------
(* The invariant: the queue is sound, and with the placed and the reported  *)
(* items it is all items, each in one of the three.                         *)

Settled ==
    /\ w \in Worlds
    /\ failed \subseteq AllItems
    /\ placement = [l \in DOMAIN placement |-> placement[l]]
    /\ DOMAIN placement \subseteq Slots
    /\ PlacedItems \subseteq AllItems
    /\ \A l, m \in DOMAIN placement : placement[l] = placement[m] => l = m
    /\ PlacedItems \cap failed = {}
    /\ displaced \in 0 .. MaxDisplacements

Kept ==
    /\ Settled
    /\ Sound(WholeQueue)
    /\ AllItems = PlacedItems \cup failed \cup Queued(WholeQueue)
    /\ Queued(WholeQueue) \cap (PlacedItems \cup failed) = {}

\* The queue after a step is the one the step sets.
LEMMA QueueSet ==
    ASSUME NEW q, Sound(q), SetQueue(q), w' = w
    PROVE  /\ WholeQueue' = q
           /\ Sound(WholeQueue)'
           /\ Queued(WholeQueue)' = Queued(q)
<1>1. WholeQueue' = q
  BY DEF SetQueue, WholeQueue, Queue, Sound
<1>2. AllItems' = AllItems /\ \A i : Category(i)' = Category(i)
  BY DEF AllItems, Category
<1>3. Sound(WholeQueue)'
  BY <1>1, <1>2 DEF Sound
<1>4. Queued(WholeQueue)' = Queued(q)
  BY <1>1 DEF Queued
<1> QED
  BY <1>1, <1>3, <1>4

\* What the sweep relies on when it turns to item i with the queue q behind it.
InHand(i, q) ==
    /\ Sound(q)
    /\ i \in AllItems
    /\ i \notin Queued(q) \cup PlacedItems \cup failed
    /\ AllItems = PlacedItems \cup failed \cup Queued(q) \cup {i}
    /\ Queued(q) \cap (PlacedItems \cup failed) = {}

SlotsOf(free, victims) ==
    /\ free \subseteq Slots \ DOMAIN placement
    /\ victims \subseteq {l \in DOMAIN placement : Category(placement[l]) # "soul"}
    /\ victims # {} => displaced < MaxDisplacements

\* No soul is neutral.
LEMMA NeutralIsNoSoul == \A i : Neutral(i) => Category(i) # "soul"
BY DEF Neutral

\* Placing the item in hand keeps the invariant.
LEMMA PlaceKeeps ==
    ASSUME Settled, NEW i, NEW q, InHand(i, q), NEW free, NEW victims,
           SlotsOf(free, victims), Place(i, q, free), w' = w
    PROVE  Kept'
<1>1. /\ WholeQueue' = q /\ Sound(WholeQueue)' /\ Queued(WholeQueue)' = Queued(q)
  BY QueueSet DEF InHand, Place
<1>2. AllItems' = AllItems /\ Slots' = Slots
  BY DEF AllItems, Slots, FillSlots, SlotCategory
<1>3. PICK l \in free :
         placement' = [x \in DOMAIN placement \cup {l} |-> IF x = l THEN i ELSE placement[x]]
  BY DEF Place
<1>4. l \in Slots /\ l \notin DOMAIN placement
  BY DEF SlotsOf
<1>5. PlacedItems' = PlacedItems \cup {i}
  BY <1>3, <1>4 DEF PlacedItems
<1>6. \A x, y \in DOMAIN placement' : placement'[x] = placement'[y] => x = y
  BY <1>3, <1>4 DEF InHand, Settled, PlacedItems
<1>7. /\ placement' = [x \in DOMAIN placement' |-> placement'[x]]
      /\ DOMAIN placement' \subseteq Slots
  BY <1>3, <1>4 DEF Settled
<1>8. Settled'
  BY <1>2, <1>5, <1>6, <1>7 DEF Settled, InHand, Place
<1> QED
  BY <1>1, <1>2, <1>5, <1>8 DEF Kept, InHand, Place

\* Placing it in place of another keeps the invariant.
LEMMA DisplaceKeeps ==
    ASSUME Settled, NEW i, NEW q, InHand(i, q), NEW free, NEW victims,
           SlotsOf(free, victims), Displace(i, q, free, victims), w' = w
    PROVE  Kept'
<1>1. PICK l \in victims : /\ placement' = [placement EXCEPT ![l] = i]
                           /\ SetQueue(Requeued(q, placement[l]))
  BY DEF Displace
<1> DEFINE v == placement[l]
<1>2. /\ l \in DOMAIN placement /\ v \in PlacedItems /\ v \in AllItems
      /\ Category(v) # "soul" /\ v \notin Queued(q)
  BY DEF SlotsOf, PlacedItems, Settled, InHand
<1>3. Sound(Requeued(q, v)) /\ Queued(Requeued(q, v)) = Queued(q) \cup {v}
  BY <1>2, SoundRequeued DEF InHand
<1>4. Sound(WholeQueue)' /\ Queued(WholeQueue)' = Queued(q) \cup {v}
  BY <1>1, <1>3, QueueSet
<1>5. AllItems' = AllItems /\ Slots' = Slots
  BY DEF AllItems, Slots, FillSlots, SlotCategory
<1>6. /\ DOMAIN placement' = DOMAIN placement
      /\ placement' = [x \in DOMAIN placement |-> IF x = l THEN i ELSE placement[x]]
  BY <1>1 DEF Settled
<1>7. PlacedItems' = (PlacedItems \ {v}) \cup {i}
  <2>1. PlacedItems' = {IF x = l THEN i ELSE placement[x] : x \in DOMAIN placement}
    BY <1>6 DEF PlacedItems
  <2>2. \A x \in DOMAIN placement : x # l => placement[x] # v
    BY <1>2 DEF Settled
  <2> QED
    BY <1>2, <2>1, <2>2 DEF PlacedItems
<1>8. \A x, y \in DOMAIN placement' : placement'[x] = placement'[y] => x = y
  BY <1>2, <1>6 DEF InHand, Settled, PlacedItems
<1>9. displaced' \in 0 .. MaxDisplacements
  BY AssumedFillAssumption DEF Displace, SlotsOf, Settled
<1>10. /\ placement' = [x \in DOMAIN placement' |-> placement'[x]]
       /\ DOMAIN placement' \subseteq Slots
  BY <1>6 DEF Settled
<1> HIDE DEF v
<1>11. Settled'
  BY <1>2, <1>5, <1>7, <1>8, <1>9, <1>10 DEF Settled, InHand, Displace
<1> QED
  BY <1>2, <1>4, <1>5, <1>7, <1>11 DEF Kept, InHand, Settled, Displace

\* Deferring it keeps the invariant.
LEMMA DeferKeeps ==
    ASSUME Settled, NEW i, NEW q, InHand(i, q), NEW free, NEW victims,
           Defer(i, q, free, victims), w' = w
    PROVE  Kept'
<1>1. Sound(Requeued(q, i)) /\ Queued(Requeued(q, i)) = Queued(q) \cup {i}
  BY SoundRequeued, NeutralIsNoSoul DEF InHand, Defer, Defers
<1>2. Sound(WholeQueue)' /\ Queued(WholeQueue)' = Queued(q) \cup {i}
  BY <1>1, QueueSet DEF Defer
<1>3. /\ AllItems' = AllItems /\ Slots' = Slots /\ PlacedItems' = PlacedItems
      /\ failed' = failed
  BY DEF AllItems, Slots, FillSlots, SlotCategory, PlacedItems, Defer
<1>4. Settled'
  BY <1>3 DEF Settled, Defer
<1> QED
  BY <1>2, <1>3, <1>4 DEF Kept, InHand

\* Reporting it keeps the invariant.
LEMMA NoSlotKeeps ==
    ASSUME Settled, NEW i, NEW q, InHand(i, q), NEW free, NEW victims,
           NoSlot(i, q, free, victims), w' = w
    PROVE  Kept'
<1>1. /\ WholeQueue' = q /\ Sound(WholeQueue)' /\ Queued(WholeQueue)' = Queued(q)
  BY QueueSet DEF InHand, NoSlot
<1>2. /\ AllItems' = AllItems /\ Slots' = Slots /\ PlacedItems' = PlacedItems
      /\ failed' = failed \cup {i}
  BY DEF AllItems, Slots, FillSlots, SlotCategory, PlacedItems, NoSlot
<1>3. Settled'
  BY <1>2 DEF Settled, InHand, NoSlot
<1> QED
  BY <1>1, <1>2, <1>3 DEF Kept, InHand

\* Whatever becomes of the item in hand keeps the invariant.
LEMMA AttemptKeeps ==
    ASSUME Settled, NEW i, NEW q, InHand(i, q), NEW free, NEW victims,
           SlotsOf(free, victims), Attempt(i, q, free, victims), w' = w
    PROVE  Kept'
BY PlaceKeeps, DisplaceKeeps, DeferKeeps, NoSlotKeeps DEF Attempt

\* The item a turn of the sweep comes to, and what is queued behind it then.
Behind(i, j) == IF j = i THEN Without(i) ELSE SoulSwapped(Without(i), i, j)

\* A turn takes one item off the queue, the next or a soul for it.
LEMMA TurnTakesOne ==
    ASSUME Kept, NEW i \in NextItems, NEW sim, NEW j \in Turn(i, Without(i), sim)
    PROVE  /\ InHand(j, Behind(i, j))
           /\ j \in Queued(WholeQueue)
           /\ Queued(Behind(i, j)) = Queued(WholeQueue) \ {j}
           /\ j # i => Category(j) = "soul"
<1>1. /\ Sound(Without(i)) /\ i \in Queued(WholeQueue)
      /\ Queued(Without(i)) = Queued(WholeQueue) \ {i}
  BY SoundWithout DEF Kept
<1>2. i \in AllItems /\ i \notin Queued(Without(i))
  BY <1>1 DEF Kept
<1>3. CASE j = i
  <2>1. Behind(i, j) = Without(i)
    BY <1>3 DEF Behind
  <2> QED
    BY <1>1, <1>2, <1>3, <2>1 DEF InHand, Kept
<1>4. CASE j # i
  <2>1. j \in Souls(Without(i)) /\ Category(i) # "soul"
    BY <1>4, ForemostIn DEF Turn
  <2>2. j \in Queued(Without(i)) /\ Category(j) = "soul"
    BY <2>1 DEF Souls
  <2>3. OneKey
    BY WorldHasOneKey DEF Kept, Settled
  <2>4. /\ Sound(SoulSwapped(Without(i), i, j))
        /\ Queued(SoulSwapped(Without(i), i, j)) = (Queued(Without(i)) \ {j}) \cup {i}
    BY <1>1, <1>2, <2>1, <2>3, SoundSwap
  <2>5. Behind(i, j) = SoulSwapped(Without(i), i, j)
    BY <1>4 DEF Behind
  <2>6. Queued(Behind(i, j)) = Queued(WholeQueue) \ {j} /\ j \in Queued(WholeQueue)
    BY <1>1, <1>4, <2>2, <2>4, <2>5
  <2>7. Sound(Behind(i, j))
    BY <2>4, <2>5
  <2> QED
    BY <2>2, <2>6, <2>7 DEF InHand, Kept
<1> QED
  BY <1>3, <1>4

\* Free slots are free, and victims hold items that may be displaced.
LEMMA SlotsFound ==
    ASSUME NEW i, NEW sim
    PROVE  Kept => SlotsOf(Candidates(i, sim), Victims(i, sim))
<1> SUFFICES ASSUME Kept PROVE SlotsOf(Candidates(i, sim), Victims(i, sim))
  OBVIOUS
<1>1. Candidates(i, sim) \subseteq Slots \ DOMAIN placement
  BY DEF Candidates
<1>2. Victims(i, sim) \subseteq Displaceable(i, sim)
  BY DEF Victims, NeutralVictims, LogicVictims
<1>3. Victims(i, sim) # {} => displaced < MaxDisplacements
  BY AssumedFillAssumption DEF Victims, Kept, Settled
<1> QED
  BY <1>1, <1>2, <1>3 DEF SlotsOf, Displaceable

\* The sweep takes the turn of an item.
LEMMA SweepTurn ==
    ASSUME Sweep
    PROVE  \E sim : \E i \in NextItems : \E j \in Turn(i, Without(i), sim) :
              Attempt(j, Behind(i, j), Candidates(j, sim), Victims(j, sim))
BY Zenon DEF Sweep, Behind

-----------------------------------------------------------------------------
(* The sweep and the phases around it.                                      *)

\* A fill that starts, with every item queued, meets the invariant.
LEMMA PoolKept ==
    ASSUME pending = AllItems, front = << >>, back = << >>, placement = << >>,
           failed = {}, displaced = 0, w \in Worlds
    PROVE  Kept
<1>1. /\ WholeQueue.front = << >> /\ WholeQueue.pending = AllItems
      /\ WholeQueue.back = << >>
      /\ WholeQueue = Queue(WholeQueue.front, WholeQueue.pending, WholeQueue.back)
  BY DEF WholeQueue, Queue
<1>2. Sound(WholeQueue) /\ Queued(WholeQueue) = AllItems
  BY <1>1, EmptyItems DEF Sound, Queued
<1>3. DOMAIN placement = {} /\ PlacedItems = {}
  BY DEF PlacedItems
<1>4. Settled
  BY <1>3, AssumedFillAssumption DEF Settled
<1> QED
  BY <1>2, <1>3, <1>4 DEF Kept

\* So does a fill yet to start.
LEMMA InitKept == Init => Kept
BY PoolKept DEF Init, AllItems

\* An attempt starts with every item queued.
LEMMA StartFillKept ==
    ASSUME StartFill, w \in Worlds, w' = w
    PROVE  Kept'
<1>1. /\ pending' = AllItems' /\ front' = << >> /\ back' = << >> /\ placement' = << >>
      /\ failed' = {} /\ displaced' = 0 /\ w' \in Worlds
  BY DEF StartFill, AllItems
<1>2. /\ WholeQueue'.front = << >> /\ WholeQueue'.pending = AllItems'
      /\ WholeQueue'.back = << >>
      /\ WholeQueue' = Queue(WholeQueue'.front, WholeQueue'.pending, WholeQueue'.back)
  BY <1>1 DEF WholeQueue, Queue
<1>3. Sound(WholeQueue)' /\ Queued(WholeQueue)' = AllItems'
  BY <1>2, EmptyItems DEF Sound, Queued
<1>4. DOMAIN placement' = {} /\ PlacedItems' = {}
  BY <1>1 DEF PlacedItems
<1>5. Settled'
  BY <1>1, <1>4, AssumedFillAssumption DEF Settled
<1> QED
  BY <1>1, <1>3, <1>4, <1>5 DEF Kept

\* A step that leaves the fill alone keeps the invariant.
LEMMA KeptUnchanged ==
    ASSUME Kept, UNCHANGED <<w, front, pending, back, placement, failed, displaced>>
    PROVE  Kept'
<1>1. /\ WholeQueue' = WholeQueue /\ AllItems' = AllItems /\ Slots' = Slots
      /\ PlacedItems' = PlacedItems /\ \A i : Category(i)' = Category(i)
  BY DEF WholeQueue, AllItems, Slots, FillSlots, SlotCategory, PlacedItems, Category
<1>2. Sound(WholeQueue)'
  BY <1>1 DEF Sound, Kept
<1>3. Queued(WholeQueue)' = Queued(WholeQueue)
  BY <1>1 DEF Queued
<1>4. Settled'
  BY <1>1 DEF Settled, Kept
<1> QED
  BY <1>1, <1>2, <1>3, <1>4 DEF Kept

\* The sweep keeps the invariant.
LEMMA SweepKept == ASSUME Kept, Sweep PROVE Kept'
<1>1. PICK sim : \E i \in NextItems : \E j \in Turn(i, Without(i), sim) :
         Attempt(j, Behind(i, j), Candidates(j, sim), Victims(j, sim))
  BY SweepTurn
<1>2. PICK i \in NextItems : \E j \in Turn(i, Without(i), sim) :
         Attempt(j, Behind(i, j), Candidates(j, sim), Victims(j, sim))
  BY <1>1
<1>6. PICK j \in Turn(i, Without(i), sim) :
         Attempt(j, Behind(i, j), Candidates(j, sim), Victims(j, sim))
  BY <1>2
<1>3. InHand(j, Behind(i, j))
  BY TurnTakesOne
<1>4. SlotsOf(Candidates(j, sim), Victims(j, sim))
  BY SlotsFound
<1>5. Settled /\ w' = w
  BY DEF Kept, Sweep
<1> QED
  BY <1>6, <1>3, <1>4, <1>5, AttemptKeeps

\* Every step keeps the invariant.
LEMMA NextKept == ASSUME Kept, [Next]_vars PROVE Kept'
<1>1. CASE Sweep
  BY <1>1, SweepKept
<1>2. CASE SweepDone
  BY <1>2, KeptUnchanged DEF SweepDone
<1>3. CASE FillFiller
  BY <1>3, KeptUnchanged DEF FillFiller
<1>4. CASE Validate
  <2>1. CASE StartFill
    BY <1>4, <2>1, StartFillKept DEF Validate, Kept, Settled
  <2>2. CASE ~StartFill
    BY <1>4, <2>2, KeptUnchanged DEF Validate
  <2> QED
    BY <2>1, <2>2
<1>5. CASE UNCHANGED vars
  BY <1>5, KeptUnchanged DEF vars
<1> QED
  BY <1>1, <1>2, <1>3, <1>4, <1>5 DEF Next

\* The invariant holds at every step.
LEMMA KeptAlways == Spec => []Kept
<1>1. Init => Kept
  BY InitKept
<1>2. Kept /\ [Next]_vars => Kept'
  BY NextKept
<1> QED
  BY <1>1, <1>2, PTL DEF Spec

\* Under the invariant every item is placed, queued or reported.
LEMMA KeptLosesNothing == Kept => NothingLost
<1> SUFFICES ASSUME Kept PROVE NothingLost
  OBVIOUS
<1>1. /\ WholeQueue.front = front /\ WholeQueue.pending = pending
      /\ WholeQueue.back = back
  BY DEF WholeQueue, Queue
<1>2. Queued(WholeQueue) = SeqItems(front) \cup pending \cup SeqItems(back)
  BY <1>1 DEF Queued
<1>3. AllItems = PlacedItems \cup pending \cup SeqItems(front) \cup SeqItems(back) \cup failed
  BY <1>2 DEF Kept
<1>4. /\ PlacedItems \cap (pending \cup SeqItems(front) \cup SeqItems(back) \cup failed) = {}
      /\ pending \cap (SeqItems(front) \cup SeqItems(back) \cup failed) = {}
      /\ SeqItems(front) \cap (SeqItems(back) \cup failed) = {}
      /\ SeqItems(back) \cap failed = {}
  BY <1>1, <1>2 DEF Kept, Settled, Sound
<1>5. /\ \A i, j \in DOMAIN front : front[i] = front[j] => i = j
      /\ \A i, j \in DOMAIN back : back[i] = back[j] => i = j
  BY <1>1 DEF Kept, Sound, Distinct
<1> QED
  BY <1>3, <1>4, <1>5 DEF NothingLost, Kept, Settled

\* No fallback of the sweep loses or doubles an item, in any world and however
\* many displacements and attempts are allowed: soulswaps, the Engineer's Key
\* moved forward, displacements and deferrals only move an item.
THEOREM NoItemLost == Spec => []NothingLost
<1>1. Kept => NothingLost
  BY KeptLosesNothing
<1> QED
  BY <1>1, KeptAlways, PTL

-----------------------------------------------------------------------------
(* The filler.                                                              *)

SlotsFor(c) == {l \in Slots : SlotCategory(l) = c}

\* There is a free slot for every cadeau and every barrel without one, since
\* the items are no more than the slots that are for neither.
LEMMA RoomForFiller ==
    ASSUME Kept
    PROVE  /\ IsFiniteSet(Slots)
           /\ Cardinality(SlotsFor("cadeaux")) \in Nat
           /\ Cardinality(SlotsFor("barrel") \ DOMAIN placement) \in Nat
           /\ Cardinality(Slots \ DOMAIN placement) \in Nat
           /\ Cardinality(SlotsFor("cadeaux"))
                + Cardinality(SlotsFor("barrel") \ DOMAIN placement)
                <= Cardinality(Slots \ DOMAIN placement)
<1> DEFINE C == SlotsFor("cadeaux")
           B == SlotsFor("barrel")
           O == Slots \ (C \cup B)
           P == DOMAIN placement
<1>1. IsFiniteSet(DOMAIN w.locs) /\ IsFiniteSet(AllItems)
  BY WorldsAssumption DEF Kept, Settled, AllItems
<1>2. IsFiniteSet(Slots)
  BY <1>1, FS_Subset DEF Slots, FillSlots
<1>3. Cardinality(AllItems) <= Cardinality(O)
  <2>1. O = {l \in DOMAIN w.locs :
               w.locs[l].category \notin {"boss", "true_form", "barrel", "cadeaux"}}
    BY DEF SlotsFor, Slots, FillSlots, SlotCategory
  <2> QED
    BY <2>1, WorldsAssumption DEF Kept, Settled, AllItems
<1>4. P \subseteq Slots /\ IsFiniteSet(P)
  BY <1>2, FS_Subset DEF Kept, Settled
<1>5. Cardinality(P) <= Cardinality(AllItems)
  <2>1. placement \in [P -> AllItems]
    BY DEF Kept, Settled, PlacedItems
  <2>2. placement \in Injection(P, AllItems)
    BY <2>1 DEF Injection, IsInjective, Kept, Settled
  <2> QED
    BY <1>1, <2>2, FS_Injection
<1>6. C \subseteq Slots /\ B \subseteq Slots /\ C \cap B = {} /\ O \subseteq Slots
  BY DEF SlotsFor
<1>7. IsFiniteSet(C) /\ IsFiniteSet(B) /\ IsFiniteSet(O) /\ IsFiniteSet(B \cap P)
  BY <1>2, <1>6, FS_Subset
<1>8. /\ Cardinality(C) \in Nat /\ Cardinality(B) \in Nat /\ Cardinality(O) \in Nat
      /\ Cardinality(P) \in Nat /\ Cardinality(B \cap P) \in Nat
      /\ Cardinality(AllItems) \in Nat /\ Cardinality(Slots) \in Nat
  BY <1>1, <1>2, <1>4, <1>7, FS_CardinalityType
<1>9. Cardinality(Slots) = Cardinality(C) + Cardinality(B) + Cardinality(O)
  <2>1. (C \cup B) \cap O = {} /\ (C \cup B) \cup O = Slots
    BY <1>6
  <2> HIDE DEF C, B, O
  <2>2. /\ IsFiniteSet(C \cup B)
        /\ Cardinality(C \cup B) = Cardinality(C) + Cardinality(B) - Cardinality({})
    <3>1. C \cap B = {}
      BY <1>6
    <3> QED
      BY <1>7, <3>1, FS_Union
  <2>3. Cardinality(Slots) = Cardinality(C \cup B) + Cardinality(O) - Cardinality({})
    BY <1>7, <2>1, <2>2, FS_Union
  <2>4. Cardinality({}) = 0
    BY FS_EmptySet
  <2> QED
    BY <1>8, <2>2, <2>3, <2>4
<1>10. Cardinality(Slots \ P) = Cardinality(Slots) - Cardinality(P)
  <2>1. Slots \cap P = P
    BY <1>4
  <2> QED
    BY <1>2, <2>1, FS_Difference
<1>11. Cardinality(B \ P) = Cardinality(B) - Cardinality(B \cap P)
  BY <1>7, FS_Difference
<1>12. IsFiniteSet(Slots \ P) /\ IsFiniteSet(B \ P)
  BY <1>2, <1>7, FS_Difference
<1>13. Cardinality(Slots \ P) \in Nat /\ Cardinality(B \ P) \in Nat
  BY <1>12, FS_CardinalityType
<1> HIDE DEF C, B, O, P
<1>14. Cardinality(C) + Cardinality(B \ P) <= Cardinality(Slots \ P)
  BY <1>3, <1>5, <1>8, <1>9, <1>10, <1>11, <1>13
<1> QED
  BY <1>2, <1>8, <1>13, <1>14 DEF C, B, P

\* All the filler is dealt when the fill is validated.
LEMMA FillerWhole ==
    ASSUME Kept, FillFiller
    PROVE  filler' = Cardinality(SlotsFor("cadeaux"))
<1> DEFINE c == Cardinality(SlotsFor("cadeaux"))
           b == Cardinality(SlotsFor("barrel") \ DOMAIN placement)
           left == Cardinality(Slots \ DOMAIN placement)
<1>1. c \in Nat /\ b \in Nat /\ left \in Nat /\ c + b <= left
  BY RoomForFiller
<1>2. filler' \in {n \in 0 .. c : (IF c + b <= left THEN c + b ELSE left) - n \in 0 .. b}
  BY DEF FillFiller, SlotsFor
<1> HIDE DEF c, b, left
<1>3. filler' = c
  BY <1>1, <1>2
<1> QED
  BY <1>3 DEF c

KeptWhole == Kept /\ CadeauxKept

\* Whatever slots of cadeaux and barrels the sweep took for other items, every
\* cadeau has a slot when the fill is validated.
THEOREM NoCadeauLost == Spec => []CadeauxKept
<1>1. Init => CadeauxKept
  BY DEF Init, CadeauxKept
<1>2. ASSUME KeptWhole, [Next]_vars PROVE CadeauxKept'
  <2>1. Slots' = Slots /\ SlotsFor("cadeaux")' = SlotsFor("cadeaux")
    BY <1>2 DEF Next, Sweep, SweepDone, FillFiller, Validate, vars,
                SlotsFor, Slots, SlotCategory
  <2>2. CadeauxKept' = (phase' \in {"validate", "accepted", "raised"} =>
                          filler' = Cardinality(SlotsFor("cadeaux"))')
    BY DEF CadeauxKept, SlotsFor
  <2>3. CadeauxKept = (phase \in {"validate", "accepted", "raised"} =>
                         filler = Cardinality(SlotsFor("cadeaux")))
    BY DEF CadeauxKept, SlotsFor
  <2>4. CASE FillFiller
    BY <1>2, <2>1, <2>2, <2>4, FillerWhole DEF KeptWhole
  <2>5. CASE Sweep \/ SweepDone
    BY <2>2, <2>5 DEF Sweep, SweepDone
  <2>6. CASE Validate
    BY <1>2, <2>1, <2>2, <2>3, <2>6 DEF Validate, KeptWhole
  <2>7. CASE UNCHANGED vars
    BY <1>2, <2>1, <2>2, <2>3, <2>7 DEF vars, KeptWhole
  <2> QED
    BY <1>2, <2>4, <2>5, <2>6, <2>7 DEF Next
<1>3. Kept /\ CadeauxKept /\ [Next]_vars => CadeauxKept'
  BY <1>2 DEF KeptWhole
<1> QED
  BY <1>1, <1>3, KeptAlways, PTL DEF Spec

-----------------------------------------------------------------------------
(* The sweep winds down.                                                    *)

\* Five numbers compared in turn.
LEMMA LexFive ==
    ASSUME NEW a1, NEW a2, NEW a3, NEW a4, NEW a5,
           NEW b1, NEW b2, NEW b3, NEW b4, NEW b5,
           \/ a1 < b1
           \/ a1 = b1 /\ a2 < b2
           \/ a1 = b1 /\ a2 = b2 /\ a3 < b3
           \/ a1 = b1 /\ a2 = b2 /\ a3 = b3 /\ a4 < b4
           \/ a1 = b1 /\ a2 = b2 /\ a3 = b3 /\ a4 = b4 /\ a5 < b5
    PROVE  LexLess(<<a1, a2, a3, a4, a5>>, <<b1, b2, b3, b4, b5>>)
<1> DEFINE s == <<a1, a2, a3, a4, a5>>
           t == <<b1, b2, b3, b4, b5>>
<1>1. /\ DOMAIN s = 1 .. 5
      /\ s[1] = a1 /\ s[2] = a2 /\ s[3] = a3 /\ s[4] = a4 /\ s[5] = a5
      /\ t[1] = b1 /\ t[2] = b2 /\ t[3] = b3 /\ t[4] = b4 /\ t[5] = b5
  OBVIOUS
<1> HIDE DEF s, t
<1>2. \E n \in 1 .. 5 : s[n] < t[n] /\ \A m \in 1 .. n - 1 : s[m] = t[m]
  <2>1. CASE a1 < b1
    <3> WITNESS 1 \in 1 .. 5
    <3> QED BY <1>1, <2>1
  <2>2. CASE a1 = b1 /\ a2 < b2
    <3> WITNESS 2 \in 1 .. 5
    <3>1. \A m \in 1 .. 2 - 1 : m = 1
      OBVIOUS
    <3> QED BY <1>1, <2>2, <3>1
  <2>3. CASE a1 = b1 /\ a2 = b2 /\ a3 < b3
    <3> WITNESS 3 \in 1 .. 5
    <3>1. \A m \in 1 .. 3 - 1 : m = 1 \/ m = 2
      OBVIOUS
    <3> QED BY <1>1, <2>3, <3>1
  <2>4. CASE a1 = b1 /\ a2 = b2 /\ a3 = b3 /\ a4 < b4
    <3> WITNESS 4 \in 1 .. 5
    <3>1. \A m \in 1 .. 4 - 1 : m = 1 \/ m = 2 \/ m = 3
      OBVIOUS
    <3> QED BY <1>1, <2>4, <3>1
  <2>5. CASE a1 = b1 /\ a2 = b2 /\ a3 = b3 /\ a4 = b4 /\ a5 < b5
    <3> WITNESS 5 \in 1 .. 5
    <3>1. \A m \in 1 .. 5 - 1 : m = 1 \/ m = 2 \/ m = 3 \/ m = 4
      OBVIOUS
    <3> QED BY <1>1, <2>5, <3>1
  <2> QED
    BY <2>1, <2>2, <2>3, <2>4, <2>5
<1> QED
  BY <1>1, <1>2 DEF LexLess, s, t

\* A neutral head moved to the end leaves one less to head the queue.
LEMMA HeadMovedBack ==
    ASSUME NEW s \in Seq(AllItems), s # << >>, Distinct(s), Neutral(Head(s)),
           NEW j \in SeqItems(Tail(s)), ~Neutral(j)
    PROVE  /\ Head(s) \in HeadingNeutral(s)
           /\ HeadingNeutral(Append(Tail(s), Head(s))) = HeadingNeutral(s) \ {Head(s)}
<1> DEFINE t == Append(Tail(s), Head(s))
           L == Len(s)
<1>1. /\ L \in Nat \ {0} /\ DOMAIN s = 1 .. L /\ Head(s) = s[1]
      /\ DOMAIN t = 1 .. L
      /\ \A n \in 1 .. L - 1 : t[n] = s[n + 1] /\ Tail(s)[n] = s[n + 1]
      /\ DOMAIN Tail(s) = 1 .. L - 1
  OBVIOUS
<1>2. PICK p \in 1 .. L - 1 : ~Neutral(t[p])
  BY <1>1 DEF SeqItems
<1> HIDE DEF t, L
<1>3. Head(s) \in HeadingNeutral(s)
  <2>1. 1 \in DOMAIN s /\ \A k \in 1 .. 1 : Neutral(s[k])
    BY <1>1
  <2> QED
    BY <1>1, <2>1 DEF HeadingNeutral
<1>4. ASSUME NEW n \in DOMAIN t, \A k \in 1 .. n : Neutral(t[k])
      PROVE  t[n] \in HeadingNeutral(s) \ {Head(s)}
  <2>1. n < p
    BY <1>1, <1>2, <1>4
  <2>2. n \in 1 .. L - 1 /\ t[n] = s[n + 1] /\ n + 1 \in DOMAIN s /\ 1 \in DOMAIN s
    BY <1>1, <1>2, <2>1
  <2>3. ASSUME NEW k \in 1 .. n + 1 PROVE Neutral(s[k])
    <3>1. CASE k = 1
      BY <1>1, <3>1
    <3>2. CASE k # 1
      <4>1. k - 1 \in 1 .. n /\ k - 1 \in 1 .. L - 1 /\ (k - 1) + 1 = k
        BY <1>1, <2>2, <3>2
      <4> QED
        BY <1>1, <1>4, <4>1
    <3> QED
      BY <3>1, <3>2
  <2>4. s[n + 1] # s[1]
    BY <1>1, <2>2 DEF Distinct
  <2> QED
    BY <1>1, <2>2, <2>3, <2>4 DEF HeadingNeutral
<1>5. HeadingNeutral(t) \subseteq HeadingNeutral(s) \ {Head(s)}
  BY <1>4 DEF HeadingNeutral
<1>6. ASSUME NEW n \in DOMAIN s, \A k \in 1 .. n : Neutral(s[k]), s[n] # Head(s)
      PROVE  s[n] \in HeadingNeutral(t)
  <2>1. n - 1 \in 1 .. L - 1 /\ (n - 1) + 1 = n /\ n - 1 \in DOMAIN t
    BY <1>1, <1>6
  <2>2. ASSUME NEW k \in 1 .. n - 1 PROVE Neutral(t[k])
    <3>1. k \in 1 .. L - 1 /\ k + 1 \in 1 .. n
      BY <1>1, <2>1
    <3> QED
      BY <1>1, <1>6, <3>1
  <2>3. t[n - 1] = s[n]
    BY <1>1, <2>1
  <2> QED
    BY <2>1, <2>2, <2>3 DEF HeadingNeutral
<1>7. HeadingNeutral(s) \ {Head(s)} \subseteq HeadingNeutral(t)
  BY <1>6 DEF HeadingNeutral
<1> QED
  BY <1>3, <1>5, <1>7 DEF t

\* The parts of the measure.
Logic == {i \in Queued(WholeQueue) : ~Neutral(i)}
Ahead == SeqItems(front) \cup pending

\* The parts of the measure are natural numbers.
LEMMA MeasureParts ==
    ASSUME Kept
    PROVE  /\ IsFiniteSet(Queued(WholeQueue)) /\ IsFiniteSet(Logic)
           /\ IsFiniteSet(Ahead) /\ IsFiniteSet(HeadingNeutral(back))
           /\ Cardinality(Queued(WholeQueue)) \in Nat /\ Cardinality(Logic) \in Nat
           /\ Cardinality(Ahead) \in Nat /\ Cardinality(HeadingNeutral(back)) \in Nat
           /\ MaxDisplacements - displaced \in Nat
<1>1. IsFiniteSet(AllItems)
  BY WorldsAssumption DEF Kept, Settled, AllItems
<1>2. /\ WholeQueue.front = front /\ WholeQueue.pending = pending
      /\ WholeQueue.back = back
  BY DEF WholeQueue, Queue
<1>3. Queued(WholeQueue) \subseteq AllItems
  BY DEF Kept
<1>4. Logic \subseteq AllItems /\ Ahead \subseteq AllItems
      /\ HeadingNeutral(back) \subseteq AllItems
  BY <1>2, <1>3 DEF Logic, Ahead, HeadingNeutral, Queued, SeqItems
<1>5. /\ IsFiniteSet(Queued(WholeQueue)) /\ IsFiniteSet(Logic)
      /\ IsFiniteSet(Ahead) /\ IsFiniteSet(HeadingNeutral(back))
  BY <1>1, <1>3, <1>4, FS_Subset
<1>6. /\ Cardinality(Queued(WholeQueue)) \in Nat /\ Cardinality(Logic) \in Nat
      /\ Cardinality(Ahead) \in Nat /\ Cardinality(HeadingNeutral(back)) \in Nat
  BY <1>5, FS_CardinalityType
<1>7. MaxDisplacements - displaced \in Nat
  BY AssumedFillAssumption DEF Kept, Settled
<1> QED
  BY <1>5, <1>6, <1>7

\* A set without one of its elements has fewer.
LEMMA OneFewer ==
    ASSUME NEW S, IsFiniteSet(S), NEW x \in S
    PROVE  Cardinality(S \ {x}) < Cardinality(S)
<1>1. Cardinality(S \ {x}) = Cardinality(S) - 1
  BY FS_RemoveElement
<1>2. Cardinality(S) \in Nat
  BY FS_CardinalityType
<1> QED
  BY <1>1, <1>2

\* An iteration that places or reports its item takes it off the queue.
LEMMA TakenOff ==
    ASSUME Kept, w' = w, displaced' = displaced, NEW j \in Queued(WholeQueue),
           Queued(WholeQueue)' = Queued(WholeQueue) \ {j}
    PROVE  LexLess(Measure', Measure)
<1>1. /\ IsFiniteSet(Queued(WholeQueue)) /\ Cardinality(Queued(WholeQueue)) \in Nat
      /\ IsFiniteSet(Logic) /\ Cardinality(Logic) \in Nat
  BY MeasureParts
<1>2. Cardinality(Queued(WholeQueue)') < Cardinality(Queued(WholeQueue))
  BY <1>1, OneFewer
<1>3. \A i : Neutral(i)' = Neutral(i)
  BY DEF Neutral, Category
<1>4. Logic' = Logic \ {j}
  BY <1>3 DEF Logic
<1>5. \/ Cardinality(Logic') < Cardinality(Logic)
      \/ Logic' = Logic
  <2>1. CASE j \in Logic
    BY <1>1, <1>4, <2>1, OneFewer
  <2>2. CASE j \notin Logic
    BY <1>4, <2>2
  <2> QED
    BY <2>1, <2>2
<1>6. Measure = <<MaxDisplacements - displaced, Cardinality(Logic),
                  Cardinality(Queued(WholeQueue)), Cardinality(Ahead),
                  Cardinality(HeadingNeutral(back))>>
  BY DEF Measure, Logic, Ahead
<1>7. Measure' = <<MaxDisplacements - displaced', Cardinality(Logic'),
                   Cardinality(Queued(WholeQueue)'), Cardinality(Ahead'),
                   Cardinality(HeadingNeutral(back)')>>
  BY DEF Measure, Logic, Ahead
<1> QED
  BY <1>2, <1>5, <1>6, <1>7, LexFive

\* A displacement uses one up.
LEMMA UsedUp ==
    ASSUME Kept, displaced' = displaced + 1
    PROVE  LexLess(Measure', Measure)
<1>1. MaxDisplacements - displaced' < MaxDisplacements - displaced
  BY AssumedFillAssumption DEF Kept, Settled
<1> QED
  BY <1>1, LexFive DEF Measure

\* A deferral takes its item from those not yet moved to the back, or from the
\* neutral ones that head it: a logic item behind keeps the last place apart.
LEMMA MovedBack ==
    ASSUME Kept, w' = w, NEW i \in NextItems,
           NEW free, NEW victims, Defer(i, Without(i), free, victims)
    PROVE  LexLess(Measure', Measure)
<1>1. /\ Sound(Without(i)) /\ i \in Queued(WholeQueue)
      /\ Queued(Without(i)) = Queued(WholeQueue) \ {i}
  BY SoundWithout DEF Kept
<1>2. i \in AllItems /\ i \notin Queued(Without(i)) /\ Neutral(i) /\ displaced' = displaced
  BY <1>1 DEF Kept, Defer, Defers
<1>3. /\ Sound(Requeued(Without(i), i))
      /\ Queued(Requeued(Without(i), i)) = Queued(Without(i)) \cup {i}
  BY <1>1, <1>2, SoundRequeued, NeutralIsNoSoul
<1>4. Queued(WholeQueue)' = Queued(WholeQueue)
  BY <1>1, <1>3, QueueSet DEF Defer
<1>5. \A k : Neutral(k)' = Neutral(k)
  BY DEF Neutral, Category
<1>6. Logic' = Logic
  BY <1>4, <1>5 DEF Logic
<1>7. /\ front' = Without(i).front /\ pending' = Without(i).pending
      /\ back' = Append(Without(i).back, i)
  BY DEF Defer, SetQueue, Requeued, Queue
<1>8. /\ IsFiniteSet(Ahead) /\ IsFiniteSet(HeadingNeutral(back))
      /\ Cardinality(Ahead) \in Nat /\ Cardinality(HeadingNeutral(back)) \in Nat
  BY MeasureParts
<1>9. /\ WholeQueue.front = front /\ WholeQueue.pending = pending
      /\ WholeQueue.back = back
  BY DEF WholeQueue, Queue
<1>10. Sound(WholeQueue)
  BY DEF Kept
<1>11. \/ Cardinality(Ahead') < Cardinality(Ahead)
       \/ /\ Ahead' = Ahead
          /\ Cardinality(HeadingNeutral(back)') < Cardinality(HeadingNeutral(back))
  <2>1. CASE front # << >>
    <3>1. i = Head(front) /\ front' = Tail(front) /\ pending' = pending
      BY <1>7, <2>1 DEF NextItems, Without, Queue
    <3>2. i \in SeqItems(front) /\ SeqItems(front') = SeqItems(front) \ {i}
      BY <1>9, <1>10, <2>1, <3>1, TailItems DEF Sound
    <3>3. i \in Ahead /\ Ahead' = Ahead \ {i}
      BY <1>9, <1>10, <3>1, <3>2 DEF Ahead, Sound
    <3>4. Cardinality(Ahead \ {i}) < Cardinality(Ahead)
      BY <1>8, <3>3, OneFewer, Zenon
    <3> QED
      BY <3>3, <3>4
  <2>2. CASE front = << >> /\ pending # {}
    <3>1. i \in pending /\ front' = front /\ pending' = pending \ {i}
      BY <1>7, <2>2, ForemostIn DEF NextItems, NextPending, Without, Queue
    <3>2. i \in Ahead /\ Ahead' = Ahead \ {i}
      BY <1>9, <1>10, <3>1 DEF Ahead, Sound
    <3>3. Cardinality(Ahead \ {i}) < Cardinality(Ahead)
      BY <1>8, <3>2, OneFewer, Zenon
    <3> QED
      BY <3>2, <3>3
  <2>3. CASE front = << >> /\ pending = {}
    <3>1. /\ back # << >> /\ i = Head(back) /\ front' = front /\ pending' = pending
          /\ Without(i).back = Tail(back) /\ back' = Append(Tail(back), Head(back))
      BY <1>7, <2>3 DEF NextItems, Without, Queue
    <3>2. Queued(Without(i)) = SeqItems(Tail(back))
      <4>1. Without(i).front = << >> /\ Without(i).pending = {}
        BY <2>3 DEF Without, Queue
      <4> QED
        BY <3>1, <4>1, EmptyItems DEF Queued
    <3>3. PICK j \in SeqItems(Tail(back)) : ~Neutral(j)
      BY <3>2 DEF Defer, Defers
    <3>4. back \in Seq(AllItems) /\ Distinct(back) /\ Neutral(Head(back))
      BY <1>2, <1>9, <1>10, <3>1 DEF Sound
    <3>5. /\ Head(back) \in HeadingNeutral(back)
          /\ HeadingNeutral(Append(Tail(back), Head(back))) = HeadingNeutral(back) \ {Head(back)}
      BY <3>1, <3>3, <3>4, HeadMovedBack
    <3>6. HeadingNeutral(back)' = HeadingNeutral(Append(Tail(back), Head(back)))
      BY <1>5, <3>1 DEF HeadingNeutral
    <3>7. Cardinality(HeadingNeutral(back)') < Cardinality(HeadingNeutral(back))
      BY <1>8, <3>5, <3>6, FS_RemoveElement
    <3>8. Ahead' = Ahead
      BY <3>1 DEF Ahead
    <3> QED
      BY <3>7, <3>8
  <2> QED
    BY <2>1, <2>2, <2>3
<1>12. Measure = <<MaxDisplacements - displaced, Cardinality(Logic),
                   Cardinality(Queued(WholeQueue)), Cardinality(Ahead),
                   Cardinality(HeadingNeutral(back))>>
  BY DEF Measure, Logic, Ahead
<1>13. Measure' = <<MaxDisplacements - displaced', Cardinality(Logic'),
                    Cardinality(Queued(WholeQueue)'), Cardinality(Ahead'),
                    Cardinality(HeadingNeutral(back)')>>
  BY DEF Measure, Logic, Ahead
<1> QED
  BY <1>2, <1>4, <1>6, <1>11, <1>12, <1>13, LexFive

\* Every iteration of the sweep lowers the measure.
LEMMA SweepLowers ==
    ASSUME Kept, Sweep
    PROVE  LexLess(Measure', Measure)
<1>1. PICK sim : \E i \in NextItems : \E j \in Turn(i, Without(i), sim) :
         Attempt(j, Behind(i, j), Candidates(j, sim), Victims(j, sim))
  BY SweepTurn
<1>2. PICK i \in NextItems : \E j \in Turn(i, Without(i), sim) :
         Attempt(j, Behind(i, j), Candidates(j, sim), Victims(j, sim))
  BY <1>1
<1>3. PICK j \in Turn(i, Without(i), sim) :
         Attempt(j, Behind(i, j), Candidates(j, sim), Victims(j, sim))
  BY <1>2
<1> DEFINE q == Behind(i, j)
           free == Candidates(j, sim)
           victims == Victims(j, sim)
<1>4. /\ InHand(j, q) /\ j \in Queued(WholeQueue)
      /\ Queued(q) = Queued(WholeQueue) \ {j}
      /\ j # i => Category(j) = "soul"
  BY TurnTakesOne
<1>5. w' = w
  BY DEF Sweep
<1> HIDE DEF q, free, victims
<1>6. CASE Place(j, q, free)
  <2>1. Queued(WholeQueue)' = Queued(q) /\ displaced' = displaced
    BY <1>4, <1>5, <1>6, QueueSet DEF Place, InHand
  <2> QED
    BY <1>4, <1>5, <2>1, TakenOff
<1>7. CASE Displace(j, q, free, victims)
  BY <1>7, UsedUp DEF Displace
<1>8. CASE Defer(j, q, free, victims)
  <2>1. j = i
    BY <1>4, <1>8, NeutralIsNoSoul DEF Defer, Defers
  <2>2. q = Without(i)
    BY <2>1 DEF q, Behind
  <2> QED
    BY <1>5, <1>8, <2>1, <2>2, MovedBack
<1>9. CASE NoSlot(j, q, free, victims)
  <2>1. Queued(WholeQueue)' = Queued(q) /\ displaced' = displaced
    BY <1>4, <1>5, <1>9, QueueSet DEF NoSlot, InHand
  <2> QED
    BY <1>4, <1>5, <2>1, TakenOff
<1> QED
  BY <1>3, <1>6, <1>7, <1>8, <1>9 DEF Attempt, q, free, victims

\* The sweep ends although displacements and deferrals append to the very queue
\* it runs over, for whatever number of displacements: every iteration lowers
\* the measure, whose parts are natural numbers.
THEOREM SweepEnds == Spec => SweepWindsDown
<1>1. ASSUME Kept, Kept', Next, phase = "sweep", phase' = "sweep"
      PROVE  LexLess(Measure', Measure) /\ \A n \in DOMAIN Measure : Measure'[n] >= 0
  <2>1. Sweep
    BY <1>1 DEF Next, SweepDone, FillFiller, Validate
  <2>2. LexLess(Measure', Measure)
    BY <1>1, <2>1, SweepLowers
  <2>3. (/\ Cardinality(Queued(WholeQueue)) \in Nat /\ Cardinality(Logic) \in Nat
         /\ Cardinality(Ahead) \in Nat /\ Cardinality(HeadingNeutral(back)) \in Nat
         /\ MaxDisplacements - displaced \in Nat)'
    BY <1>1, MeasureParts, PTL
  <2>4. Measure' = <<MaxDisplacements - displaced', Cardinality(Logic'),
                     Cardinality(Queued(WholeQueue)'), Cardinality(Ahead'),
                     Cardinality(HeadingNeutral(back)')>>
    BY DEF Measure, Logic, Ahead
  <2>5. DOMAIN Measure = 1 .. 5
    BY DEF Measure
  <2>6. \A n \in 1 .. 5 : Measure'[n] >= 0
    <3> SUFFICES ASSUME NEW n \in 1 .. 5 PROVE Measure'[n] >= 0
      OBVIOUS
    <3>1. n = 1 \/ n = 2 \/ n = 3 \/ n = 4 \/ n = 5
      OBVIOUS
    <3> QED
      BY <2>3, <2>4, <3>1
  <2> QED
    BY <2>2, <2>5, <2>6
<1> DEFINE Lowers == phase = "sweep" /\ phase' = "sweep" =>
                        /\ LexLess(Measure', Measure)
                        /\ \A n \in DOMAIN Measure : Measure'[n] >= 0
<1>2. Kept /\ Kept' /\ [Next]_vars => [Lowers]_vars
  BY <1>1
<1>3. Spec => [][Lowers]_vars
  <2> HIDE DEF Lowers
  <2> QED
    BY <1>2, KeptAlways, PTL DEF Spec
<1> QED
  BY <1>3 DEF SweepWindsDown

-----------------------------------------------------------------------------
(* Regions and the rules that open them.                                    *)

\* A set of natural numbers that is not empty has a least one.
LEMMA Least ==
    ASSUME NEW T \in SUBSET Nat, T # {}
    PROVE  \E m \in T : \A n \in T : m <= n
<1> DEFINE R == OpToRel(<, Nat)
<1>1. IsWellFoundedOn(R, Nat)
  BY NatLessThanWellFounded
<1>2. \A m, n \in Nat : m < n => <<m, n>> \in R
  BY DEF OpToRel
<1> HIDE DEF R
<1>3. PICK m \in T : \A n \in T : ~(<<n, m>> \in R)
  BY <1>1, WFMin
<1>4. \A n \in T : ~(n < m)
  BY <1>2, <1>3
<1> QED
  BY <1>4

\* f is what n applications of F make of a.
Iteration(f, S, F, a, n) ==
    /\ f \in [0 .. n -> S]
    /\ f[0] = a
    /\ \A k \in 1 .. n : f[k] = F[f[k - 1]]

\* A function can be iterated n times.
LEMMA Iterates ==
    ASSUME NEW S, NEW F \in [S -> S], NEW a \in S, NEW n \in Nat
    PROVE  \E f : Iteration(f, S, F, a, n)
<1> DEFINE Good(k) == \E f : Iteration(f, S, F, a, k)
           Bad == {k \in Nat : ~Good(k)}
<1>1. Good(0)
  <2> DEFINE f == [j \in 0 .. 0 |-> a]
  <2>1. f \in [0 .. 0 -> S] /\ f[0] = a
    OBVIOUS
  <2> HIDE DEF f
  <2>2. Iteration(f, S, F, a, 0)
    BY <2>1 DEF Iteration
  <2> QED
    BY <2>2
<1>2. ASSUME NEW k \in Nat, Good(k)
      PROVE  Good(k + 1)
  <2>0. PICK f : Iteration(f, S, F, a, k)
    BY <1>2
  <2>1. f \in [0 .. k -> S] /\ f[0] = a /\ \A j \in 1 .. k : f[j] = F[f[j - 1]]
    BY <2>0 DEF Iteration
  <2> DEFINE g == [j \in 0 .. k + 1 |-> IF j = k + 1 THEN F[f[k]] ELSE f[j]]
  <2>2. g \in [0 .. k + 1 -> S] /\ g[0] = a
    BY <2>1
  <2>3. \A j \in 1 .. k + 1 : g[j] = F[g[j - 1]]
    <3> SUFFICES ASSUME NEW j \in 1 .. k + 1
                 PROVE  g[j] = F[g[j - 1]]
      OBVIOUS
    <3>1. CASE j \in 1 .. k
      BY <2>1, <3>1
    <3>2. CASE j = k + 1
      BY <2>1, <3>2
    <3> QED
      BY <3>1, <3>2
  <2> HIDE DEF g
  <2>4. Iteration(g, S, F, a, k + 1)
    BY <2>2, <2>3 DEF Iteration
  <2> QED
    BY <2>4
<1> HIDE DEF Good
<1>3. Bad = {}
  <2> SUFFICES ASSUME Bad # {}
               PROVE  FALSE
    OBVIOUS
  <2>1. PICK m \in Bad : \A k \in Bad : m <= k
    BY Least
  <2>2. m \in Nat /\ ~Good(m) /\ m # 0
    BY <1>1, <2>1
  <2>3. m - 1 \in Nat /\ (m - 1) + 1 = m /\ m - 1 \notin Bad
    BY <2>1, <2>2
  <2> QED
    BY <1>2, <2>2, <2>3
<1> QED
  BY <1>3 DEF Good

\* Where the portals lead, spoke by spoke.
LEMMA SpokeValues ==
    /\ SpokeRegion["Wast"] = "Wasteland" /\ SpokeRegion["Asy1"] = "Gateways"
    /\ SpokeRegion["Gad1"] = "Temple of Fire" /\ SpokeRegion["Cage"] = "Cageways"
    /\ SpokeRegion["Play"] = "Playrooms" /\ SpokeRegion["Lava"] = "Lavaducts"
    /\ SpokeRegion["Fog"] = "Fogometers" /\ SpokeRegion["Gad2"] = "Temple of Prophecy"
    /\ SpokeRegion["Gad3"] = "Temple of Blood"
    /\ \A p \in Liveside : SpokeRegion[p] = EngineSection[p]
BY DEF SpokeRegion, CoffinSpoke, Liveside, Portal, DeadsidePortal

\* The engine sections, portal by portal.
LEMMA EngineValues ==
    /\ EngineSection["London"] = "Engine London" /\ EngineSection["Prison"] = "Engine Prison"
    /\ EngineSection["Salvage"] = "Engine Salvage" /\ EngineSection["Queens"] = "Engine Queens"
    /\ EngineSection["Florida"] = "Engine Florida"
BY DEF EngineSection

\* The five engine sections.
LEMMA EngineSectionsAre ==
    EngineSections = {"Engine London", "Engine Prison", "Engine Salvage",
                      "Engine Queens", "Engine Florida"}
BY EngineValues DEF EngineSections, Liveside

\* The regions.
LEMMA RegionsAre ==
    Region = {"London", "Prison", "Salvage", "Queens", "Florida", "Engine London",
              "Engine Prison", "Engine Salvage", "Engine Queens", "Engine Florida",
              "Menu", "Swampland", "Marrow Gates", "Wasteland", "Gateways", "Cathedral",
              "Experimentation", "Temple of Fire", "Cageways", "Engine Block",
              "Playrooms", "Temple of Prophecy", "Lavaducts", "Temple of Blood",
              "Fogometers"}
BY EngineSectionsAre DEF Region, Liveside

\* The first regions of the spokes of Deadside.
SpokeRegions == {SpokeRegion[p] : p \in DeadsidePortal}

\* The regions of the spokes.
LEMMA SpokeRegionsAre ==
    SpokeRegions = {"Wasteland", "Gateways", "Temple of Fire", "Cageways", "Playrooms",
                    "Lavaducts", "Fogometers", "Temple of Prophecy", "Temple of Blood"}
BY SpokeValues DEF SpokeRegions, DeadsidePortal

\* Where a portal leads.
LEMMA PortalLeads ==
    /\ DeadsidePortal \cup Liveside = Portal /\ DeadsidePortal \cap Liveside = {}
    /\ \A p \in Portal : SpokeRegion[p] \in SpokeRegions \cup EngineSections
    /\ \A l \in Liveside : SpokeRegion[l] = EngineSection[l]
<1>1. DeadsidePortal \cup Liveside = Portal /\ DeadsidePortal \cap Liveside = {}
  BY DEF Portal, DeadsidePortal, Liveside
<1>2. \A l \in Liveside : SpokeRegion[l] = EngineSection[l] /\ EngineSection[l] \in EngineSections
  BY SpokeValues DEF EngineSections
<1>3. \A p \in DeadsidePortal : SpokeRegion[p] \in SpokeRegions
  BY DEF SpokeRegions
<1> QED
  BY <1>1, <1>2, <1>3

\* No two portals share an engine section.
LEMMA EngineOnce ==
    \A l, m \in Liveside : EngineSection[l] = EngineSection[m] => l = m
BY EngineValues DEF Liveside

-----------------------------------------------------------------------------
(* The closed rules, region by region.                                      *)

Spokes(to) == IF to = Unshuffled THEN [p \in DeadsidePortal |-> p] ELSE to

InFront(o, to, h, open, r) == SpokeRule(o, Spokes(to), h, open, r)

\* The regions that the closed rules call open, one by one.
LEMMA RulesAre ==
    ASSUME NEW o, NEW to, NEW h, NEW open
    PROVE  LET R == ClosedRules(o, to, h, open)
               cathedral == InFront(o, to, h, open, "Gateways") /\ GatewaysDoor(o, h)
           IN /\ {"Menu", "Swampland", "Marrow Gates"} \subseteq R
              /\ R \subseteq Region
              /\ \A r \in SpokeRegions : r \in R <=> InFront(o, to, h, open, r)
              /\ "Cathedral" \in R <=> cathedral
              /\ "Experimentation" \in R <=> cathedral
              /\ "Engine Block" \in R <=> InFront(o, to, h, open, "Cageways") /\ Has(h, "ENG_KEY")
              /\ \A l \in Liveside : l \in R <=> cathedral /\ RetractorsOk(o, h, l)
              /\ \A l \in Liveside : EngineSection[l] \in R <=>
                    IF to = Unshuffled
                    THEN cathedral /\ RetractorsOk(o, h, l) /\ Completable(o, h, l)
                    ELSE InFront(o, to, h, open, EngineSection[l])
<1> DEFINE R == ClosedRules(o, to, h, open)
           Front(r) == InFront(o, to, h, open, r)
           cathedral == Front("Gateways") /\ GatewaysDoor(o, h)
           engine(l) == IF to = Unshuffled
                        THEN cathedral /\ RetractorsOk(o, h, l) /\ Completable(o, h, l)
                        ELSE Front(EngineSection[l])
<1>1. R = {"Menu", "Swampland", "Marrow Gates"}
          \cup {r \in SpokeRegions : Front(r)}
          \cup {r \in {"Cathedral", "Experimentation"} : cathedral}
          \cup {r \in {"Engine Block"} : Front("Cageways") /\ Has(h, "ENG_KEY")}
          \cup {l \in Liveside : cathedral /\ RetractorsOk(o, h, l)}
          \cup {EngineSection[l] : l \in {m \in Liveside : engine(m)}}
  BY Zenon DEF ClosedRules, InFront, Spokes, SpokeRegions
<1> HIDE DEF R, Front
<1>2. /\ SpokeRegions \cap {"Menu", "Swampland", "Marrow Gates", "Cathedral",
            "Experimentation", "Engine Block", "London", "Prison", "Salvage",
            "Queens", "Florida"} = {}
      /\ SpokeRegions \cap EngineSections = {}
      /\ EngineSections \cap {"Menu", "Swampland", "Marrow Gates", "Cathedral",
            "Experimentation", "Engine Block", "London", "Prison", "Salvage",
            "Queens", "Florida"} = {}
  BY SpokeRegionsAre, EngineSectionsAre
<1>3. /\ Liveside = {"London", "Prison", "Salvage", "Queens", "Florida"}
      /\ \A l \in Liveside : EngineSection[l] \in EngineSections
  BY DEF Liveside, EngineSections
<1>4. {"Menu", "Swampland", "Marrow Gates"} \subseteq R
  BY <1>1
<1>5. R \subseteq Region
  BY <1>1, <1>3, RegionsAre, SpokeRegionsAre, EngineSectionsAre
<1>6. \A r \in SpokeRegions : r \in R <=> Front(r)
  BY <1>1, <1>2, <1>3
<1>7. ("Cathedral" \in R <=> cathedral) /\ ("Experimentation" \in R <=> cathedral)
  BY <1>1, <1>2, <1>3
<1>8. "Engine Block" \in R <=> Front("Cageways") /\ Has(h, "ENG_KEY")
  BY <1>1, <1>2, <1>3
<1>9. \A l \in Liveside : l \in R <=> cathedral /\ RetractorsOk(o, h, l)
  BY <1>1, <1>2, <1>3
<1>10. \A l \in Liveside : EngineSection[l] \in R <=> engine(l)
  <2> HIDE DEF engine
  <2>1. \A l \in Liveside : EngineSection[l] \in R
                               <=> \E m \in Liveside : engine(m) /\ EngineSection[m] = EngineSection[l]
    BY <1>1, <1>2, <1>3
  <2> QED
    BY <2>1, EngineOnce
<1> QED
  BY <1>4, <1>5, <1>6, <1>7, <1>8, <1>9, <1>10 DEF R, Front

\* The entrances a seed may have, and where its portals then lead.
Entrances(to, lead) ==
    \/ to = Unshuffled /\ lead = SamePlace
    \/ to # Unshuffled /\ to \in [Portal -> Portal] /\ lead = to

\* Unshuffled, a portal leads to itself.
LEMMA SamePlaceLeads == \A p \in Portal : SamePlace[p] = p
BY DEF SamePlace

\* No connection of the graph leads from a region the rules open to one they
\* keep closed.
LEMMA RulesFollowGraph ==
    ASSUME NEW o, NEW to, NEW lead, Entrances(to, lead), NEW h, NEW open,
           NEW from \in ClosedRules(o, to, h, open), NEW y \in Region,
           Connected(o, lead, h, open, from, y)
    PROVE  y \in ClosedRules(o, to, h, open)
<1> DEFINE R == ClosedRules(o, to, h, open)
           Front(r) == InFront(o, to, h, open, r)
<1>1. /\ {"Menu", "Swampland", "Marrow Gates"} \subseteq R
      /\ \A r \in SpokeRegions : r \in R <=> Front(r)
      /\ "Cathedral" \in R <=> Front("Gateways") /\ GatewaysDoor(o, h)
      /\ "Experimentation" \in R <=> Front("Gateways") /\ GatewaysDoor(o, h)
      /\ "Engine Block" \in R <=> Front("Cageways") /\ Has(h, "ENG_KEY")
      /\ \A l \in Liveside : l \in R <=> "Cathedral" \in R /\ RetractorsOk(o, h, l)
      /\ \A l \in Liveside : EngineSection[l] \in R <=>
            IF to = Unshuffled
            THEN l \in R /\ Completable(o, h, l)
            ELSE Front(EngineSection[l])
  BY RulesAre, Zenon
<1>2. from \in R
  OBVIOUS
<1> SUFFICES y \in R
  OBVIOUS
<1> HIDE DEF R, Front
<1>3. CASE \/ from = "Menu" /\ y = "Swampland"
           \/ from = "Swampland" /\ y = "Marrow Gates"
  BY <1>1, <1>3
<1>4. ASSUME NEW p \in Portal, y = SpokeRegion[lead[p]],
             p \in DeadsidePortal => Routes(o, h, open, PortalRoutes[p]),
             p \in Liveside => p \in R /\ Completable(o, h, p)
      PROVE  y \in R
  <2>1. CASE to = Unshuffled
    <3>1. lead[p] = p
      BY <2>1, SamePlaceLeads DEF Entrances
    <3>2. CASE p \in DeadsidePortal
      <4>1. Spokes(to) = [q \in DeadsidePortal |-> q]
        BY <2>1 DEF Spokes
      <4>2. p \in DOMAIN Spokes(to) /\ SpokeRegion[Spokes(to)[p]] = y
        BY <1>4, <3>1, <3>2, <4>1
      <4>3. PortalRule(o, h, open, p)
        BY <1>4, <3>2 DEF PortalRule
      <4>4. Front(y)
        BY <4>2, <4>3 DEF Front, InFront, SpokeRule
      <4>5. y \in SpokeRegions
        BY <1>4, <3>1, <3>2 DEF SpokeRegions
      <4> QED
        BY <1>1, <4>4, <4>5
    <3>3. CASE p \in Liveside
      <4>1. y = EngineSection[p]
        BY <1>4, <3>1, <3>3, PortalLeads
      <4>2. p \in R /\ Completable(o, h, p)
        BY <1>4, <3>3
      <4>3. EngineSection[p] \in R
        BY <1>1, <2>1, <3>3, <4>2, Zenon
      <4> QED
        BY <4>1, <4>3
    <3> QED
      BY <3>2, <3>3, PortalLeads
  <2>2. CASE to # Unshuffled
    <3>1. to \in [Portal -> Portal] /\ lead = to /\ Spokes(to) = to
      BY <2>2 DEF Entrances, Spokes
    <3>2. p \in DOMAIN Spokes(to) /\ SpokeRegion[Spokes(to)[p]] = y
      BY <1>4, <3>1
    <3>3. PortalRule(o, h, open, p)
      <4>1. CASE p \in DeadsidePortal
        BY <1>4, <4>1 DEF PortalRule
      <4>2. CASE p \notin DeadsidePortal
        <5>1. p \in Liveside
          BY <4>2, PortalLeads
        <5>2. RetractorsOk(o, h, p) /\ Completable(o, h, p)
          BY <1>1, <1>4, <5>1
        <5> QED
          BY <4>2, <5>2 DEF PortalRule, CompletionRule
      <4> QED
        BY <4>1, <4>2
    <3>4. Front(y)
      BY <3>2, <3>3 DEF Front, InFront, SpokeRule
    <3>5. y \in SpokeRegions \cup EngineSections
      BY <1>4, <3>1, PortalLeads
    <3> QED
      BY <1>1, <2>2, <3>4, <3>5 DEF EngineSections
  <2> QED
    BY <2>1, <2>2
<1>5. CASE from = "Marrow Gates" /\ \E p \in DeadsidePortal :
              y = SpokeRegion[lead[p]] /\ Routes(o, h, open, PortalRoutes[p])
  <2>1. PICK p \in DeadsidePortal : y = SpokeRegion[lead[p]] /\ Routes(o, h, open, PortalRoutes[p])
    BY <1>5
  <2>2. p \in Portal /\ p \notin Liveside
    BY PortalLeads
  <2> QED
    BY <1>4, <2>1, <2>2
<1>6. CASE from = "Gateways" /\ y \in {"Cathedral", "Experimentation"} /\ GatewaysDoor(o, h)
  <2>1. Front("Gateways")
    BY <1>1, <1>2, <1>6, SpokeRegionsAre
  <2> QED
    BY <1>1, <1>6, <2>1
<1>7. CASE from = "Cageways" /\ y = "Engine Block" /\ Has(h, "ENG_KEY")
  <2>1. Front("Cageways")
    BY <1>1, <1>2, <1>7, SpokeRegionsAre
  <2> QED
    BY <1>1, <1>7, <2>1
<1>8. CASE from = "Cathedral" /\ y \in Liveside /\ RetractorsOk(o, h, y)
  BY <1>1, <1>2, <1>8
<1>9. CASE from \in Liveside /\ y = SpokeRegion[lead[from]] /\ Completable(o, h, from)
  <2>1. from \in Portal /\ from \notin DeadsidePortal
    BY <1>9, PortalLeads
  <2> QED
    BY <1>2, <1>4, <1>9, <2>1
<1> QED
  BY <1>3, <1>5, <1>6, <1>7, <1>8, <1>9 DEF Connected

-----------------------------------------------------------------------------
(* The walk.                                                                *)

\* The stages of a walk.
Walked(after, o, lead, h) ==
    /\ after[0] = {"Menu"}
    /\ \A n \in 1 .. 8 : after[n] = Further(o, lead, h, OpenGates(o, h), after[n - 1])
    /\ Walk(o, lead, h) = after[8]

\* The walk has its stages.
LEMMA WalkIs ==
    ASSUME NEW o, NEW lead, NEW h
    PROVE  \E after : Walked(after, o, lead, h)
<1> DEFINE F == [seen \in SUBSET Region |-> Further(o, lead, h, OpenGates(o, h), seen)]
           G(f) == [n \in 0 .. 8 |-> IF n = 0 THEN {"Menu"}
                                     ELSE Further(o, lead, h, OpenGates(o, h), f[n - 1])]
           after == CHOOSE f : f = G(f)
<1>1. F \in [SUBSET Region -> SUBSET Region]
  BY DEF Further
<1>2. {"Menu"} \in SUBSET Region
  BY RegionsAre
<1>3. PICK f \in [0 .. 8 -> SUBSET Region] :
         f[0] = {"Menu"} /\ \A n \in 1 .. 8 : f[n] = F[f[n - 1]]
  <2> DEFINE S == SUBSET Region
  <2>1. F \in [S -> S] /\ {"Menu"} \in S
    BY <1>1, <1>2
  <2> HIDE DEF F, S
  <2>2. 8 \in Nat
    OBVIOUS
  <2>3. PICK f : Iteration(f, S, F, {"Menu"}, 8)
    BY <2>1, <2>2, Iterates
  <2> QED
    BY <2>3 DEF S, Iteration
<1>4. \A n \in 1 .. 8 : f[n] = Further(o, lead, h, OpenGates(o, h), f[n - 1])
  <2>1. \A n \in 1 .. 8 : f[n - 1] \in SUBSET Region
    OBVIOUS
  <2> QED
    BY <1>3, <2>1
<1>5. \A n \in 0 .. 8 : f[n] = G(f)[n]
  <2>1. f[0] = G(f)[0]
    BY <1>3
  <2>2. \A n \in 1 .. 8 : f[n] = G(f)[n]
    BY <1>4
  <2> QED
    BY <2>1, <2>2
<1>6. f = G(f)
  BY <1>5
<1>7. after = G(after)
  <2> HIDE DEF G
  <2> QED
    BY <1>6
<1>8. Walk(o, lead, h) = after[8]
  BY Zenon DEF Walk, WalkLength
<1>9. \A n \in 0 .. 8 : after[n] = IF n = 0 THEN {"Menu"}
                                   ELSE Further(o, lead, h, OpenGates(o, h), after[n - 1])
  <2> HIDE DEF after
  <2> QED
    BY <1>7
<1> HIDE DEF after
<1>10. \A n \in 1 .. 8 : after[n] = Further(o, lead, h, OpenGates(o, h), after[n - 1])
  BY <1>9
<1>11. after[0] = {"Menu"}
  BY <1>9
<1>12. Walked(after, o, lead, h)
  BY <1>8, <1>10, <1>11, Zenon DEF Walked
<1> QED
  BY <1>12

\* What the walk reaches the rules call open.
LEMMA WalkWithinRules ==
    ASSUME NEW o, NEW to, NEW lead, Entrances(to, lead), NEW h
    PROVE  Walk(o, lead, h) \subseteq LevelRules(o, to, h)
<1> DEFINE open == OpenGates(o, h)
           R == ClosedRules(o, to, h, open)
<1>0. PICK after : Walked(after, o, lead, h)
  BY WalkIs, Zenon
<1>1. /\ after[0] = {"Menu"}
      /\ \A n \in 1 .. 8 : after[n] = Further(o, lead, h, open, after[n - 1])
      /\ Walk(o, lead, h) = after[8]
  BY <1>0, Zenon DEF Walked
<1>2. \A from \in R, y \in Region : Connected(o, lead, h, open, from, y) => y \in R
  BY RulesFollowGraph
<1>21. {"Menu", "Swampland", "Marrow Gates"} \subseteq R
  BY RulesAre, Zenon
<1>3. after[0] \subseteq R
  BY <1>1, <1>21
<1> HIDE DEF R, open
<1>4. ASSUME NEW n \in 1 .. 8, after[n - 1] \subseteq R
      PROVE  after[n] \subseteq R
  <2>1. after[n] = after[n - 1] \cup {y \in Region \ after[n - 1] :
                      \E from \in after[n - 1] : Connected(o, lead, h, open, from, y)}
    BY <1>1 DEF Further
  <2> QED
    BY <1>2, <1>4, <2>1
<1>5. after[1] \subseteq R /\ after[2] \subseteq R
  BY <1>3, <1>4
<1>6. after[3] \subseteq R /\ after[4] \subseteq R
  BY <1>5, <1>4
<1>7. after[5] \subseteq R /\ after[6] \subseteq R
  BY <1>6, <1>4
<1>8. after[7] \subseteq R /\ after[8] \subseteq R
  BY <1>7, <1>4
<1> QED
  BY <1>1, <1>8 DEF LevelRules, R, open

\* Unless entrances are shuffled, what the rules call open the walk reaches.
LEMMA RulesWithinWalk ==
    ASSUME NEW o, NEW h
    PROVE  LevelRules(o, Unshuffled, h) \subseteq Walk(o, SamePlace, h)
<1> DEFINE open == OpenGates(o, h)
           R == ClosedRules(o, Unshuffled, h, open)
           Front(r) == InFront(o, Unshuffled, h, open, r)
           Edge(from, y) == Connected(o, SamePlace, h, open, from, y)
<1>0. PICK after : Walked(after, o, SamePlace, h)
  BY WalkIs, Zenon
<1>1. /\ after[0] = {"Menu"}
      /\ \A n \in 1 .. 8 : after[n] = Further(o, SamePlace, h, open, after[n - 1])
      /\ Walk(o, SamePlace, h) = after[8]
  BY <1>0, Zenon DEF Walked
<1>2. \A n \in 1 .. 8 : after[n] = after[n - 1] \cup {y \in Region \ after[n - 1] :
                                      \E from \in after[n - 1] : Edge(from, y)}
  BY <1>1 DEF Further
<1>3. /\ \A r \in SpokeRegions : r \in R <=> Front(r)
      /\ "Cathedral" \in R <=> Front("Gateways") /\ GatewaysDoor(o, h)
      /\ "Experimentation" \in R <=> Front("Gateways") /\ GatewaysDoor(o, h)
      /\ "Engine Block" \in R <=> Front("Cageways") /\ Has(h, "ENG_KEY")
      /\ \A l \in Liveside : l \in R <=> "Cathedral" \in R /\ RetractorsOk(o, h, l)
      /\ \A l \in Liveside : EngineSection[l] \in R => l \in R /\ Completable(o, h, l)
  BY RulesAre, Zenon
<1>4. R \subseteq Region
  BY RulesAre
<1>5. \A r \in SpokeRegions : Front(r) => Edge("Marrow Gates", r)
  <2> SUFFICES ASSUME NEW r \in SpokeRegions, Front(r)
               PROVE  Edge("Marrow Gates", r)
    OBVIOUS
  <2>1. PICK p \in DeadsidePortal : SpokeRegion[p] = r /\ PortalRule(o, h, open, p)
    BY DEF InFront, Spokes, SpokeRule
  <2>2. SamePlace[p] = p /\ Routes(o, h, open, PortalRoutes[p])
    BY <2>1, SamePlaceLeads, PortalLeads DEF PortalRule
  <2> QED
    BY <2>1, <2>2 DEF Connected
<1>6. /\ Edge("Menu", "Swampland") /\ Edge("Swampland", "Marrow Gates")
      /\ GatewaysDoor(o, h) => Edge("Gateways", "Cathedral") /\ Edge("Gateways", "Experimentation")
      /\ Has(h, "ENG_KEY") => Edge("Cageways", "Engine Block")
      /\ \A l \in Liveside : RetractorsOk(o, h, l) => Edge("Cathedral", l)
  BY DEF Connected
<1>7. \A l \in Liveside : Completable(o, h, l) => Edge(l, EngineSection[l])
  BY PortalLeads, SamePlaceLeads DEF Connected
<1> HIDE DEF R, Front, Edge
<1>8. \A n \in 1 .. 8 : after[n - 1] \subseteq after[n]
  BY <1>2
<1>9. after[0] \subseteq after[1] /\ after[1] \subseteq after[2] /\ after[2] \subseteq after[3]
      /\ after[3] \subseteq after[4] /\ after[4] \subseteq after[5] /\ after[5] \subseteq after[6]
      /\ after[6] \subseteq after[7] /\ after[7] \subseteq after[8]
  BY <1>8
<1> DEFINE Onward(a, b) == \A from \in a, y \in Region : Edge(from, y) => y \in b
<1>10. \A n \in 1 .. 8 : Onward(after[n - 1], after[n])
  BY <1>2
<1>101. /\ Onward(after[0], after[1]) /\ Onward(after[1], after[2])
        /\ Onward(after[2], after[3]) /\ Onward(after[3], after[4])
        /\ Onward(after[4], after[5]) /\ Onward(after[5], after[6])
  <2> HIDE DEF Onward
  <2> QED
    BY <1>10
<1>11. "Menu" \in after[1] /\ "Swampland" \in after[1] /\ "Marrow Gates" \in after[2]
  BY <1>1, <1>6, <1>9, <1>101, RegionsAre
<1>12. \A r \in SpokeRegions : r \in R => r \in after[3]
  BY <1>3, <1>4, <1>5, <1>101, <1>11
<1>13. /\ "Gateways" \in SpokeRegions /\ "Cageways" \in SpokeRegions
       /\ Front("Gateways") => "Gateways" \in after[3]
       /\ Front("Cageways") => "Cageways" \in after[3]
  BY <1>3, <1>12, SpokeRegionsAre
<1>14. \A y \in {"Cathedral", "Experimentation", "Engine Block"} : y \in R => y \in after[4]
  BY <1>3, <1>6, <1>101, <1>13, RegionsAre
<1>15. \A l \in Liveside : l \in R => l \in after[5]
  BY <1>3, <1>4, <1>6, <1>101, <1>14
<1>16. \A l \in Liveside : EngineSection[l] \in R => EngineSection[l] \in after[6]
  BY <1>3, <1>4, <1>7, <1>101, <1>15
<1>17. R \subseteq after[8]
  <2> SUFFICES ASSUME NEW r \in R
               PROVE  r \in after[8]
    OBVIOUS
  <2>1. \/ r \in {"Menu", "Swampland", "Marrow Gates"}
        \/ r \in SpokeRegions
        \/ r \in {"Cathedral", "Experimentation", "Engine Block"}
        \/ r \in Liveside
        \/ \E l \in Liveside : r = EngineSection[l]
    <3>1. r \in Region
      BY <1>4
    <3>2. \A x \in EngineSections : \E l \in Liveside : x = EngineSection[l]
      BY DEF EngineSections
    <3> QED
      BY <3>1, <3>2, RegionsAre, SpokeRegionsAre, EngineSectionsAre DEF Liveside
  <2> QED
    BY <1>9, <1>11, <1>12, <1>14, <1>15, <1>16, <2>1
<1> QED
  BY <1>1, <1>17 DEF LevelRules, R

\* With shuffled entrances the walk reaches what the rules call open, if the
\* Gateways are behind no soul gate and every soul gate whose rule is met is at
\* the end of a level that is reached.
LEMMA RulesWithinShuffledWalk ==
    ASSUME NEW o, NEW to \in [Portal -> Portal], to # Unshuffled, NEW h,
           \A p \in Liveside : to[p] # "Asy1",
           \A l \in Liveside : CompletionRule(o, h, l) => l \in Walk(o, to, h)
    PROVE  LevelRules(o, to, h) \subseteq Walk(o, to, h)
<1> DEFINE open == OpenGates(o, h)
           R == ClosedRules(o, to, h, open)
           Front(r) == InFront(o, to, h, open, r)
           Edge(from, y) == Connected(o, to, h, open, from, y)
<1>0. PICK after : Walked(after, o, to, h)
  BY WalkIs, Zenon
<1>1. /\ after[0] = {"Menu"}
      /\ \A n \in 1 .. 8 : after[n] = Further(o, to, h, open, after[n - 1])
      /\ Walk(o, to, h) = after[8]
  BY <1>0, Zenon DEF Walked
<1>2. \A n \in 1 .. 8 : after[n] = after[n - 1] \cup {y \in Region \ after[n - 1] :
                                      \E from \in after[n - 1] : Edge(from, y)}
  BY <1>1 DEF Further
<1>3. /\ \A r \in SpokeRegions : r \in R <=> Front(r)
      /\ "Cathedral" \in R <=> Front("Gateways") /\ GatewaysDoor(o, h)
      /\ "Experimentation" \in R <=> Front("Gateways") /\ GatewaysDoor(o, h)
      /\ "Engine Block" \in R <=> Front("Cageways") /\ Has(h, "ENG_KEY")
      /\ \A l \in Liveside : l \in R <=> "Cathedral" \in R /\ RetractorsOk(o, h, l)
      /\ \A l \in Liveside : EngineSection[l] \in R => Front(EngineSection[l])
  BY RulesAre, Zenon
<1>4. R \subseteq Region /\ Walk(o, to, h) \subseteq R
  <2>1. Entrances(to, to)
    BY DEF Entrances
  <2> QED
    BY <2>1, RulesAre, WalkWithinRules DEF LevelRules
<1>5. \A r : Front(r) <=> \E p \in Portal : SpokeRegion[to[p]] = r /\ PortalRule(o, h, open, p)
  BY DEF InFront, Spokes, SpokeRule
<1>6. \A p \in DeadsidePortal : PortalRule(o, h, open, p) => Edge("Marrow Gates", SpokeRegion[to[p]])
  BY DEF PortalRule, Connected
<1>7. \A l \in Liveside : PortalRule(o, h, open, l) =>
          l \in R /\ RetractorsOk(o, h, l) /\ Edge(l, SpokeRegion[to[l]])
  <2> SUFFICES ASSUME NEW l \in Liveside, PortalRule(o, h, open, l)
               PROVE  l \in R /\ RetractorsOk(o, h, l) /\ Edge(l, SpokeRegion[to[l]])
    OBVIOUS
  <2>1. CompletionRule(o, h, l)
    BY PortalLeads DEF PortalRule
  <2>2. l \in R
    BY <1>4, <2>1
  <2>3. RetractorsOk(o, h, l) /\ Completable(o, h, l)
    BY <2>1 DEF CompletionRule
  <2> QED
    BY <2>2, <2>3 DEF Connected
<1>8. /\ Edge("Menu", "Swampland") /\ Edge("Swampland", "Marrow Gates")
      /\ GatewaysDoor(o, h) => Edge("Gateways", "Cathedral") /\ Edge("Gateways", "Experimentation")
      /\ Has(h, "ENG_KEY") => Edge("Cageways", "Engine Block")
      /\ \A l \in Liveside : RetractorsOk(o, h, l) => Edge("Cathedral", l)
  BY DEF Connected
<1>9. \A p \in Portal : SpokeRegion[to[p]] \in Region
  BY PortalLeads, RegionsAre, SpokeRegionsAre, EngineSectionsAre
<1> HIDE DEF R, Front, Edge
<1>10. \A n \in 1 .. 8 : after[n - 1] \subseteq after[n]
  BY <1>2
<1>11. after[0] \subseteq after[1] /\ after[1] \subseteq after[2] /\ after[2] \subseteq after[3]
       /\ after[3] \subseteq after[4] /\ after[4] \subseteq after[5] /\ after[5] \subseteq after[6]
       /\ after[6] \subseteq after[7] /\ after[7] \subseteq after[8]
  BY <1>10
<1> DEFINE Onward(a, b) == \A from \in a, y \in Region : Edge(from, y) => y \in b
<1>12. \A n \in 1 .. 8 : Onward(after[n - 1], after[n])
  BY <1>2
<1>13. /\ Onward(after[0], after[1]) /\ Onward(after[1], after[2])
       /\ Onward(after[2], after[3]) /\ Onward(after[3], after[4])
       /\ Onward(after[4], after[5]) /\ Onward(after[5], after[6])
       /\ Onward(after[6], after[7])
  <2> HIDE DEF Onward
  <2> QED
    BY <1>12
<1>14. "Menu" \in after[1] /\ "Swampland" \in after[1] /\ "Marrow Gates" \in after[2]
  BY <1>1, <1>8, <1>11, <1>13, RegionsAre
<1>15. \A p \in DeadsidePortal : PortalRule(o, h, open, p) => SpokeRegion[to[p]] \in after[3]
  BY <1>6, <1>9, <1>13, <1>14, PortalLeads
<1>16. Front("Gateways") => "Gateways" \in after[3]
  <2> SUFFICES ASSUME Front("Gateways")
               PROVE  "Gateways" \in after[3]
    OBVIOUS
  <2>1. PICK p \in Portal : SpokeRegion[to[p]] = "Gateways" /\ PortalRule(o, h, open, p)
    BY <1>5
  <2>2. to[p] = "Asy1"
    <3>1. to[p] \in Portal
      OBVIOUS
    <3>2. \A l \in Liveside : SpokeRegion[l] # "Gateways"
      BY SpokeValues, EngineValues DEF Liveside
    <3>3. \A q \in DeadsidePortal : SpokeRegion[q] = "Gateways" => q = "Asy1"
      BY SpokeValues DEF DeadsidePortal
    <3> QED
      BY <2>1, <3>1, <3>2, <3>3, PortalLeads
  <2>3. p \in DeadsidePortal
    BY <2>2, PortalLeads
  <2> QED
    BY <1>15, <2>1, <2>3
<1>17. \A y \in {"Cathedral", "Experimentation"} : y \in R => y \in after[4]
  BY <1>3, <1>8, <1>13, <1>16, RegionsAre
<1>18. \A l \in Liveside : l \in R => l \in after[5]
  BY <1>3, <1>4, <1>8, <1>13, <1>17
<1>19. \A l \in Liveside : PortalRule(o, h, open, l) => SpokeRegion[to[l]] \in after[6]
  BY <1>7, <1>9, <1>13, <1>18, PortalLeads
<1>20. \A r : Front(r) => r \in after[6]
  BY <1>5, <1>11, <1>15, <1>19, PortalLeads
<1>21. "Engine Block" \in R => "Engine Block" \in after[7]
  BY <1>3, <1>8, <1>13, <1>20, RegionsAre
<1>22. R \subseteq after[8]
  <2> SUFFICES ASSUME NEW r \in R
               PROVE  r \in after[8]
    OBVIOUS
  <2>1. \/ r \in {"Menu", "Swampland", "Marrow Gates"}
        \/ r \in SpokeRegions
        \/ r \in {"Cathedral", "Experimentation", "Engine Block"}
        \/ r \in Liveside
        \/ \E l \in Liveside : r = EngineSection[l]
    <3>1. r \in Region
      BY <1>4
    <3>2. \A x \in EngineSections : \E l \in Liveside : x = EngineSection[l]
      BY DEF EngineSections
    <3> QED
      BY <3>1, <3>2, RegionsAre, SpokeRegionsAre, EngineSectionsAre DEF Liveside
  <2>2. r \in SpokeRegions \/ (\E l \in Liveside : r = EngineSection[l]) => r \in after[6]
    BY <1>3, <1>20
  <2> QED
    BY <1>11, <1>14, <1>17, <1>18, <1>21, <2>1, <2>2
<1> QED
  BY <1>1, <1>22 DEF LevelRules, R

\* Entrances that lead to the Asylum through no soul gate.
OutOfDeadside(f) == f \in [Portal -> Portal] /\ \A p \in Liveside : f[p] # "Asy1"

\* The entrances drawn for a seed.
Drawn == mode \in EntranceModes /\ (out = Unshuffled \/ OutOfDeadside(out))

\* A deal of portals under which a coffin gate leads to the Asylum.
LEMMA DealtLeads ==
    ASSUME NEW T \in SUBSET Portal, NEW f \in Bijection(T, T),
           NEW p \in T \cap DeadsidePortal, f[p] = "Asy1"
    PROVE  OutOfDeadside(Dealt(f))
<1>1. f \in [T -> T] /\ \A a, b \in T : f[a] = f[b] => a = b
  BY DEF Bijection, Injection, IsInjective
<1>2. Dealt(f) \in [Portal -> Portal]
  BY <1>1 DEF Dealt
<1>3. ASSUME NEW l \in Liveside
      PROVE  Dealt(f)[l] # "Asy1"
  <2>1. l \in Portal /\ l \notin DeadsidePortal /\ l # "Asy1"
    BY PortalLeads DEF Liveside
  <2>2. CASE l \in T
    BY <1>1, <2>1, <2>2 DEF Dealt
  <2>3. CASE l \notin T
    BY <1>1, <2>1, <2>3 DEF Dealt
  <2> QED
    BY <2>2, <2>3
<1> QED
  BY <1>2, <1>3 DEF OutOfDeadside

\* A seed yet to be drawn leads every portal to itself.
LEMMA InitDrawn == SeedInit => Drawn
BY SeedOptionsAssumption DEF SeedInit, Drawn

\* The deal of entrances keeps what is drawn.
LEMMA EntrancesDrawn == ASSUME Drawn, ShuffleEntrances PROVE Drawn'
<1>1. \A f \in CrossHub : OutOfDeadside(f)
  <2> SUFFICES ASSUME NEW b \in Bijection(MovedPortals, MovedPortals),
                      NEW p \in MovedPortals \cap DeadsidePortal, b[p] = "Asy1"
               PROVE  OutOfDeadside(Dealt(b))
    BY DEF CrossHub
  <2> QED
    BY DealtLeads, SeedOptionsAssumption
<1>2. \A f \in DeadsideOnly : OutOfDeadside(f)
  <2> DEFINE T == MovedPortals \cap DeadsidePortal
  <2> SUFFICES ASSUME NEW b \in Bijection(T, T)
               PROVE  OutOfDeadside(Dealt(b))
    BY DEF DeadsideOnly
  <2>1. T \in SUBSET Portal /\ "Asy1" \in T
    BY SeedOptionsAssumption, PortalLeads DEF DeadsidePortal
  <2>2. PICK p \in T : b[p] = "Asy1"
    BY <2>1 DEF Bijection, Surjection
  <2> QED
    BY <2>1, <2>2, DealtLeads
<1>3. CASE mode = "off"
  BY <1>3 DEF ShuffleEntrances, Drawn
<1>4. CASE mode = "deadside_only"
  BY <1>2, <1>4 DEF ShuffleEntrances, Drawn
<1>5. CASE mode = "cross_hub"
  BY <1>1, <1>5 DEF ShuffleEntrances, Drawn
<1> QED
  BY <1>3, <1>4, <1>5 DEF Drawn, EntranceModes

\* Every step of the draw keeps it.
LEMMA NextDrawn == ASSUME Drawn, [SeedNext]_seedVars PROVE Drawn'
<1>1. CASE ShuffleEntrances
  BY <1>1, EntrancesDrawn
<1>2. CASE ShuffleGates
  BY <1>2 DEF ShuffleGates, Drawn
<1>3. ASSUME NEW k \in Gathered(mode), Gather(k)
      PROVE  Drawn'
  BY <1>3 DEF Gather, Drawn
<1>4. ASSUME NEW level \in Liveside, GatherKey(level)
      PROVE  Drawn'
  BY <1>4 DEF GatherKey, Drawn
<1>5. CASE GatherSouls
  BY <1>5 DEF GatherSouls, Drawn
<1>6. CASE UNCHANGED seedVars
  BY <1>6 DEF seedVars, Drawn
<1> QED
  BY <1>1, <1>2, <1>3, <1>4, <1>5, <1>6 DEF SeedNext

\* On what is drawn the rules and the walk agree.
LEMMA DrawnMirrors == Drawn => RulesMirrorGraph
<1> SUFFICES ASSUME Drawn
             PROVE  RulesMirrorGraph
  OBVIOUS
<1>1. Entrances(out, Leads)
  BY DEF Drawn, Entrances, Leads, OutOfDeadside
<1>2. Walk(Options, Leads, st) \subseteq LevelRules(Options, out, st)
  BY <1>1, WalkWithinRules
<1>3. out = Unshuffled => LevelRules(Options, out, st) \subseteq Walk(Options, Leads, st)
  BY RulesWithinWalk DEF Leads
<1>4. ASSUME out # Unshuffled, FinishedEarly = {}
      PROVE  LevelRules(Options, out, st) \subseteq Walk(Options, Leads, st)
  <2>1. /\ out \in [Portal -> Portal] /\ Leads = out
        /\ \A p \in Liveside : out[p] # "Asy1"
    BY <1>4 DEF Drawn, Leads, OutOfDeadside
  <2>2. \A l \in Liveside : CompletionRule(Options, st, l) => l \in Walk(Options, Leads, st)
    BY <1>4 DEF FinishedEarly
  <2> QED
    BY <1>4, <2>1, <2>2, RulesWithinShuffledWalk
<1> QED
  BY <1>2, <1>3, <1>4 DEF RulesMirrorGraph

\* For every seed and whatever the player holds, the closed rules agree with the
\* walk over the graph, as long as no soul gate can be finished before its level
\* is reached.
THEOREM GraphIsMirrored == SeedSpec => []RulesMirrorGraph
<1>1. SeedInit => Drawn
  BY InitDrawn
<1>2. Drawn /\ [SeedNext]_seedVars => Drawn'
  BY NextDrawn
<1>3. Drawn => RulesMirrorGraph
  BY DrawnMirrors
<1> QED
  BY <1>1, <1>2, <1>3, PTL DEF SeedSpec

-----------------------------------------------------------------------------
(* The rules grow with what the player holds.                               *)

OptionsOk(o) ==
    /\ o.remap \in [Gate -> 0 .. 10]
    /\ o.souls \in [0 .. 10 -> Nat]
    /\ o.pistons \in Nat

Holding == [inv : [ItemKind -> Nat], souls : Nat, retractors : Nat,
            keys : SUBSET Liveside, regions : SUBSET Region]

\* What h holds b holds too, as far as any rule asks.
Poorer(o, h, b) ==
    /\ \A k \in ItemKind : k # "SCHEMATIC" \/ o.schematic => h.inv[k] <= b.inv[k]
    /\ h.souls <= b.souls
    /\ h.retractors <= b.retractors
    /\ h.keys \subseteq b.keys

\* And where h has been b has been.
Below(o, h, b) == Poorer(o, h, b) /\ h.regions \subseteq b.regions

\* What each gate needs, gate by gate.
LEMMA DependenciesAre ==
    /\ GateDependencies["MARROW"] = {{}}
    /\ GateDependencies["WASTELAND"] = {{"MARROW"}}
    /\ GateDependencies["ASYLUM"] = {{"WASTELAND"}}
    /\ \A g \in {"PATH_3", "LALUNE"} : GateDependencies[g] = {{"ASYLUM"}}
    /\ \A g \in {"CAGEWAYS", "PATH_7"} : GateDependencies[g] = {{"PATH_3"}}
    /\ GateDependencies["PLAYROOMS"] = {{"CAGEWAYS"}}
    /\ GateDependencies["PATH_6"] = {{"PLAYROOMS"}}
    /\ \A g \in {"LAVADUCTS", "LALAME", "BLOOD", "FOGOMETERS"} :
          GateDependencies[g] = LowerDeadside
    /\ \A g \in {"MYSTERY", "ENSEIGNE", "FIRE_POIGNE", "FIRE_FLAMBEAU",
                 "PROPHECY_INTERIOR", "BLOOD_INTERIOR", "FOGOMETERS_INTERIOR"} :
          GateDependencies[g] = {{}}
<1>1. DOMAIN Approach = {"WASTELAND", "ASYLUM", "PATH_3", "LALUNE", "CAGEWAYS",
            "PLAYROOMS", "PATH_6", "PATH_7", "LAVADUCTS", "LALAME", "BLOOD", "FOGOMETERS"}
  BY DEF Approach
<1>2. \A g \in Gate : GateDependencies[g] = IF g \in DOMAIN Approach THEN Approach[g] ELSE {{}}
  BY DEF GateDependencies
<1> QED
  BY <1>1, <1>2 DEF Approach, Gate

\* The open gates: each has one of its approaches open, and its soul level met.
LEMMA GatesAre ==
    ASSUME NEW o, NEW h
    PROVE  /\ OpenGates(o, h) \subseteq Gate
           /\ \A g \in Gate : g \in OpenGates(o, h) <=>
                 Routes(o, h, OpenGates(o, h), GateDependencies[g]) /\ SoulLevel(o, h, o.remap[g])
<1> DEFINE up(g) == SoulLevel(o, h, o.remap[g])
           rule(t) == ItemRule(o, h, t)
           Body(f, g) == /\ \E route \in GateDependencies[g] :
                               \A t \in route : IF t \in Gate THEN f[t] ELSE rule(t)
                         /\ up(g)
           open == CHOOSE f : f = [g \in Gate |-> Body(f, g)]
<1>1. \E f : f = [g \in Gate |-> Body(f, g)]
  <2> DEFINE marrow == up("MARROW")
             wasteland == marrow /\ up("WASTELAND")
             asylum == wasteland /\ up("ASYLUM")
             path3 == asylum /\ up("PATH_3")
             cageways == path3 /\ up("CAGEWAYS")
             playrooms == cageways /\ up("PLAYROOMS")
             path6 == playrooms /\ up("PATH_6")
             path7 == path3 /\ up("PATH_7")
             lower == path6 \/ path7 \/ (asylum /\ rule("BATON") /\ rule("GAD2_WALK"))
             way(g) == CASE g = "WASTELAND" -> marrow
                         [] g = "ASYLUM" -> wasteland
                         [] g \in {"PATH_3", "LALUNE"} -> asylum
                         [] g \in {"CAGEWAYS", "PATH_7"} -> path3
                         [] g = "PLAYROOMS" -> cageways
                         [] g = "PATH_6" -> playrooms
                         [] g \in {"LAVADUCTS", "LALAME", "BLOOD", "FOGOMETERS"} -> lower
                         [] OTHER -> TRUE
             f == [g \in Gate |-> way(g) /\ up(g)]
  <2>1. /\ f["MARROW"] <=> marrow
        /\ f["WASTELAND"] <=> wasteland
        /\ f["ASYLUM"] <=> asylum
        /\ f["PATH_3"] <=> path3
        /\ f["CAGEWAYS"] <=> cageways
        /\ f["PLAYROOMS"] <=> playrooms
        /\ f["PATH_6"] <=> path6
        /\ f["PATH_7"] <=> path7
    <3>1. \A g \in Gate : f[g] <=> way(g) /\ up(g)
      <4> HIDE DEF way, up
      <4> QED
        OBVIOUS
    <3>2. {"MARROW", "WASTELAND", "ASYLUM", "PATH_3", "CAGEWAYS", "PLAYROOMS", "PATH_6", "PATH_7"}
            \subseteq Gate
      BY DEF Gate
    <3>3. /\ way("MARROW") <=> TRUE
          /\ way("WASTELAND") <=> marrow
          /\ way("ASYLUM") <=> wasteland
          /\ way("PATH_3") <=> asylum
          /\ way("CAGEWAYS") <=> path3
          /\ way("PLAYROOMS") <=> cageways
          /\ way("PATH_6") <=> playrooms
          /\ way("PATH_7") <=> path3
      <4> HIDE DEF up, rule
      <4> QED
        OBVIOUS
    <3> HIDE DEF f, way
    <3> QED
      BY <3>1, <3>2, <3>3
  <2>2. \A g \in Gate : Body(f, g) <=> way(g) /\ up(g)
    <3> SUFFICES ASSUME NEW g \in Gate
                 PROVE  Body(f, g) <=> way(g) /\ up(g)
      OBVIOUS
    <3>1. CASE GateDependencies[g] = {{}} /\ way(g)
      BY <3>1
    <3>2. CASE \E a \in Gate : GateDependencies[g] = {{a}} /\ (way(g) <=> f[a])
      <4> HIDE DEF f, way
      <4> QED
        BY <3>2
    <3>3. CASE g \in {"LAVADUCTS", "LALAME", "BLOOD", "FOGOMETERS"}
      <4>1. GateDependencies[g] = {{"PATH_6"}, {"PATH_7"}, {"ASYLUM", "BATON", "GAD2_WALK"}}
        BY <3>3, DependenciesAre DEF LowerDeadside, Shortcut
      <4>2. "BATON" \notin Gate /\ "GAD2_WALK" \notin Gate
            /\ {"PATH_6", "PATH_7", "ASYLUM"} \subseteq Gate
        BY DEF Gate
      <4>3. way(g) <=> lower
        BY <3>3
      <4> HIDE DEF f, way, asylum, path6, path7
      <4>4. (\E route \in GateDependencies[g] :
               \A t \in route : IF t \in Gate THEN f[t] ELSE rule(t)) <=> lower
        BY <2>1, <4>1, <4>2
      <4> QED
        BY <4>3, <4>4
    <3>4. /\ way("MARROW")
          /\ \A x \in {"MYSTERY", "ENSEIGNE", "FIRE_POIGNE", "FIRE_FLAMBEAU",
                 "PROPHECY_INTERIOR", "BLOOD_INTERIOR", "FOGOMETERS_INTERIOR"} : way(x)
          /\ (way("WASTELAND") <=> f["MARROW"]) /\ (way("ASYLUM") <=> f["WASTELAND"])
          /\ \A x \in {"PATH_3", "LALUNE"} : (way(x) <=> f["ASYLUM"])
          /\ \A x \in {"CAGEWAYS", "PATH_7"} : (way(x) <=> f["PATH_3"])
          /\ (way("PLAYROOMS") <=> f["CAGEWAYS"]) /\ (way("PATH_6") <=> f["PLAYROOMS"])
      <4> HIDE DEF f
      <4> QED
        BY <2>1
    <3> HIDE DEF f, way
    <3> QED
      BY <3>1, <3>2, <3>3, <3>4, DependenciesAre DEF Gate
  <2>3. f = [g \in Gate |-> Body(f, g)]
    BY <2>2
  <2> QED
    BY <2>3
<1>2. open = [g \in Gate |-> Body(open, g)]
  <2> HIDE DEF Body
  <2> QED
    BY <1>1
<1>3. OpenGates(o, h) = {g \in Gate : open[g]}
  BY Zenon DEF OpenGates
<1> HIDE DEF open
<1>4. \A g \in Gate : open[g] <=> Body(open, g)
  <2> HIDE DEF Body
  <2> QED
    BY <1>2
<1>5. \A g \in Gate : open[g] <=> g \in OpenGates(o, h)
  BY <1>3
<1>6. \A g \in Gate : Body(open, g) <=>
         Routes(o, h, OpenGates(o, h), GateDependencies[g]) /\ SoulLevel(o, h, o.remap[g])
  BY <1>5, Zenon DEF Routes
<1> QED
  BY <1>3, <1>4, <1>5, <1>6

\* A set of five is finite.
LEMMA FiveAreFew ==
    ASSUME NEW a, NEW b, NEW c, NEW d, NEW e
    PROVE  IsFiniteSet({a, b, c, d, e})
<1>1. IsFiniteSet({a})
  BY FS_Singleton
<1>2. IsFiniteSet({a} \cup {b})
  BY <1>1, FS_AddElement
<1>3. IsFiniteSet(({a} \cup {b}) \cup {c})
  BY <1>2, FS_AddElement
<1>4. IsFiniteSet((({a} \cup {b}) \cup {c}) \cup {d})
  BY <1>3, FS_AddElement
<1>5. IsFiniteSet(((({a} \cup {b}) \cup {c}) \cup {d}) \cup {e})
  BY <1>4, FS_AddElement
<1>6. {a, b, c, d, e} = ((({a} \cup {b}) \cup {c}) \cup {d}) \cup {e}
  OBVIOUS
<1> QED
  BY <1>5, <1>6

\* So is the set of regions.
LEMMA RegionsAreFew == IsFiniteSet(EngineSections) /\ IsFiniteSet(Region)
<1> DEFINE A == {"London", "Prison", "Salvage", "Queens", "Florida"}
           B == {"Menu", "Swampland", "Marrow Gates", "Wasteland", "Gateways"}
           C == {"Cathedral", "Experimentation", "Temple of Fire", "Cageways", "Engine Block"}
           D == {"Playrooms", "Temple of Prophecy", "Lavaducts", "Temple of Blood", "Fogometers"}
<1>1. IsFiniteSet(EngineSections)
  BY FiveAreFew, EngineSectionsAre
<1>2. IsFiniteSet(A) /\ IsFiniteSet(B) /\ IsFiniteSet(C) /\ IsFiniteSet(D)
  BY FiveAreFew
<1>3. Region = (((A \cup EngineSections) \cup B) \cup C) \cup D
  BY EngineSectionsAre, RegionsAre
<1> HIDE DEF A, B, C, D
<1>4. IsFiniteSet((((A \cup EngineSections) \cup B) \cup C) \cup D)
  BY <1>1, <1>2, FS_Union
<1> QED
  BY <1>1, <1>3, <1>4

\* A player who holds more has the pistons the other has.
LEMMA PistonsUp ==
    ASSUME NEW o, OptionsOk(o), NEW h \in Holding, NEW b \in Holding, Below(o, h, b),
           Pistons(o, h)
    PROVE  Pistons(o, b)
<1> DEFINE at(x) == x.regions \cap EngineSections
<1>1. IsFiniteSet(at(b)) /\ at(h) \subseteq at(b)
  BY RegionsAreFew, FS_Subset DEF Below
<1>2. Cardinality(at(h)) <= Cardinality(at(b))
  BY <1>1, FS_Subset
<1>3. Cardinality(at(h)) \in Nat /\ Cardinality(at(b)) \in Nat
  BY <1>1, FS_Subset, FS_CardinalityType
<1>4. o.schematic => Has(b, "SCHEMATIC")
  BY DEF Pistons, Has, Below, Poorer, Holding, ItemKind
<1>5. Has(b, "ENG_KEY")
  BY DEF Pistons, Has, Below, Poorer, Holding, ItemKind
<1>6. Cardinality(at(h)) >= o.pistons - 1
  BY DEF Pistons
<1>7. o.pistons \in Nat
  BY DEF OptionsOk
<1> HIDE DEF at
<1>8. Cardinality(at(b)) >= o.pistons - 1
  BY <1>2, <1>3, <1>6, <1>7
<1> QED
  BY <1>4, <1>5, <1>8 DEF Pistons, at

\* A player who holds more has the soul level the other has.
LEMMA SoulLevelUp ==
    ASSUME NEW o, OptionsOk(o), NEW h \in Holding, NEW b \in Holding, Poorer(o, h, b),
           NEW n \in 0 .. 10, SoulLevel(o, h, n)
    PROVE  SoulLevel(o, b, n)
<1>1. o.souls[n] \in Nat /\ h.souls \in Nat /\ b.souls \in Nat /\ h.souls <= b.souls
  BY DEF OptionsOk, Holding, Poorer
<1> QED
  BY <1>1 DEF SoulLevel

\* What a rule may ask for that does not depend on where one has been.
ItemToken == Token \ {"PISTONS"}

\* A player who holds more meets the item rules the other meets,
LEMMA HeldRuleUp ==
    ASSUME NEW o, OptionsOk(o), NEW h \in Holding, NEW b \in Holding, Poorer(o, h, b),
           NEW t \in ItemToken, ItemRule(o, h, t)
    PROVE  ItemRule(o, b, t)
<1>1. \A k \in ItemKind \ {"SCHEMATIC"} :
         h.inv[k] \in Nat /\ b.inv[k] \in Nat /\ h.inv[k] <= b.inv[k]
  BY DEF Holding, Poorer
<1>2. /\ {"GAD", "ACCUMULATOR", "FLAMBEAU", "CALABASH", "BATON", "MARTEAU", "POIGNE",
          "ENG_KEY", "PRISON_KEY_CARD"} \subseteq ItemKind \ {"SCHEMATIC"}
      /\ Eclipser \subseteq ItemKind \ {"SCHEMATIC"}
  BY DEF ItemKind, Eclipser
<1>3. \A k \in ItemKind \ {"SCHEMATIC"} : Has(h, k) => Has(b, k)
  BY <1>1 DEF Has
<1>4. Night(h) => Night(b)
  BY <1>2, <1>3 DEF Night
<1>5. SoulLevel(o, h, 1) => SoulLevel(o, b, 1)
  BY SoulLevelUp
<1>6. CASE t \in {"GAD1_HAND", "GAD2_WALK", "GAD3_SWIM", "X3_ACCUMULATOR"}
  BY <1>1, <1>2, <1>6 DEF ItemRule
<1>7. CASE t \in {"NIGHT", "CADEAUX_666"}
  BY <1>4, <1>7 DEF ItemRule
<1>8. CASE t \in {"FLAMBEAU", "CALABASH"}
  BY <1>2, <1>3, <1>5, <1>8 DEF ItemRule
<1>9. CASE t \in {"BATON", "MARTEAU", "POIGNE", "ENG_KEY", "PRISON_KEY_CARD"}
  BY <1>2, <1>3, <1>9 DEF ItemRule
<1> QED
  BY <1>6, <1>7, <1>8, <1>9 DEF ItemToken, Token

\* that of the pistons included if he has been to as many engine rooms.
LEMMA ItemRuleUp ==
    ASSUME NEW o, OptionsOk(o), NEW h \in Holding, NEW b \in Holding, Below(o, h, b),
           NEW t \in Token, ItemRule(o, h, t)
    PROVE  ItemRule(o, b, t)
<1>1. CASE t \in ItemToken
  BY <1>1, HeldRuleUp DEF Below
<1>2. CASE t = "PISTONS"
  BY <1>2, PistonsUp DEF ItemRule
<1> QED
  BY <1>1, <1>2 DEF ItemToken

\* A player who holds more has a route where the other has one.
LEMMA RoutesUp ==
    ASSUME NEW o, OptionsOk(o), NEW h \in Holding, NEW b \in Holding, Below(o, h, b),
           NEW open, NEW wider, open \subseteq wider,
           NEW routes \in SUBSET SUBSET (Gate \cup Token), Routes(o, h, open, routes)
    PROVE  Routes(o, b, wider, routes)
<1>1. PICK route \in routes :
         \A t \in route : IF t \in Gate THEN t \in open ELSE ItemRule(o, h, t)
  BY DEF Routes
<1>2. \A t \in Token : ItemRule(o, h, t) => ItemRule(o, b, t)
  BY ItemRuleUp
<1>3. \A t \in route : IF t \in Gate THEN t \in wider ELSE ItemRule(o, b, t)
  BY <1>1, <1>2
<1> QED
  BY <1>3 DEF Routes

\* A player who holds more has open the gates the other has open.
LEMMA GatesUp ==
    ASSUME NEW o, OptionsOk(o), NEW h \in Holding, NEW b \in Holding, Poorer(o, h, b)
    PROVE  OpenGates(o, h) \subseteq OpenGates(o, b)
<1> DEFINE lo == OpenGates(o, h)
           hi == OpenGates(o, b)
<1>1. \A g \in Gate : SoulLevel(o, h, o.remap[g]) => SoulLevel(o, b, o.remap[g])
  BY SoulLevelUp DEF OptionsOk
<1>2. /\ lo \subseteq Gate
      /\ \A g \in Gate : /\ g \in lo <=> /\ Routes(o, h, lo, GateDependencies[g])
                                         /\ SoulLevel(o, h, o.remap[g])
                         /\ g \in hi <=> /\ Routes(o, b, hi, GateDependencies[g])
                                         /\ SoulLevel(o, b, o.remap[g])
  BY GatesAre
<1>3. \A t \in ItemToken : ItemRule(o, h, t) => ItemRule(o, b, t)
  BY HeldRuleUp
<1> HIDE DEF lo, hi
<1>4. ASSUME NEW g \in Gate, g \in lo,
             \A route \in GateDependencies[g] : \A t \in route :
                 t \in lo => t \in hi \/ t \notin Gate,
             GateDependencies[g] \subseteq SUBSET (Gate \cup ItemToken)
      PROVE  g \in hi
  <2>1. PICK route \in GateDependencies[g] :
           \A t \in route : IF t \in Gate THEN t \in lo ELSE ItemRule(o, h, t)
    BY <1>2, <1>4 DEF Routes
  <2>2. \A t \in route : IF t \in Gate THEN t \in hi ELSE ItemRule(o, b, t)
    BY <1>3, <1>4, <2>1
  <2>3. Routes(o, b, hi, GateDependencies[g])
    BY <2>2 DEF Routes
  <2> QED
    BY <1>1, <1>2, <1>4, <2>3
<1>5. ASSUME NEW g \in Gate, NEW a \in Gate, GateDependencies[g] = {{a}}, a \in lo => a \in hi
      PROVE  g \in lo => g \in hi
  BY <1>4, <1>5
<1>6. \A g \in Gate : GateDependencies[g] = {{}} => (g \in lo => g \in hi)
  BY <1>4
<1>7. "MARROW" \in lo => "MARROW" \in hi
  BY <1>6, DependenciesAre DEF Gate
<1>8. "WASTELAND" \in lo => "WASTELAND" \in hi
  BY <1>5, <1>7, DependenciesAre DEF Gate
<1>9. "ASYLUM" \in lo => "ASYLUM" \in hi
  BY <1>5, <1>8, DependenciesAre DEF Gate
<1>10. \A g \in {"PATH_3", "LALUNE"} : g \in lo => g \in hi
  BY <1>5, <1>9, DependenciesAre DEF Gate
<1>11. \A g \in {"CAGEWAYS", "PATH_7"} : g \in lo => g \in hi
  BY <1>5, <1>10, DependenciesAre DEF Gate
<1>12. "PLAYROOMS" \in lo => "PLAYROOMS" \in hi
  BY <1>5, <1>11, DependenciesAre DEF Gate
<1>13. "PATH_6" \in lo => "PATH_6" \in hi
  BY <1>5, <1>12, DependenciesAre DEF Gate
<1>14. \A g \in {"LAVADUCTS", "LALAME", "BLOOD", "FOGOMETERS"} : g \in lo => g \in hi
  <2> SUFFICES ASSUME NEW g \in {"LAVADUCTS", "LALAME", "BLOOD", "FOGOMETERS"}, g \in lo
               PROVE  g \in hi
    OBVIOUS
  <2>1. GateDependencies[g] = {{"PATH_6"}, {"PATH_7"}, {"ASYLUM", "BATON", "GAD2_WALK"}}
    BY DependenciesAre DEF LowerDeadside, Shortcut
  <2>2. {"PATH_6", "PATH_7", "ASYLUM", g} \subseteq Gate /\ {"BATON", "GAD2_WALK"} \subseteq ItemToken
        /\ "BATON" \notin Gate /\ "GAD2_WALK" \notin Gate
    BY DEF Gate, Token, ItemToken
  <2>3. \A route \in GateDependencies[g] : \A t \in route :
           t \in lo => t \in hi \/ t \notin Gate
    BY <1>9, <1>11, <1>13, <2>1, <2>2
  <2>4. GateDependencies[g] \subseteq SUBSET (Gate \cup ItemToken)
    BY <2>1, <2>2
  <2> QED
    BY <1>4, <2>2, <2>3, <2>4
<1>15. \A g \in {"MYSTERY", "ENSEIGNE", "FIRE_POIGNE", "FIRE_FLAMBEAU", "PROPHECY_INTERIOR",
                 "BLOOD_INTERIOR", "FOGOMETERS_INTERIOR"} : g \in lo => g \in hi
  BY <1>6, DependenciesAre DEF Gate
<1>16. \A g \in Gate : g \in lo => g \in hi
  BY <1>7, <1>8, <1>9, <1>10, <1>11, <1>12, <1>13, <1>14, <1>15 DEF Gate
<1> QED
  BY <1>2, <1>16 DEF lo, hi

\* The routes to a portal ask for gates and items.
LEMMA PortalRoutesOk ==
    \A p \in DeadsidePortal : PortalRoutes[p] \in SUBSET SUBSET (Gate \cup ItemToken)
<1>1. /\ \A p \in DeadsidePortal : PortalRoutes[p] \subseteq
              {{"WASTELAND"}, {"ASYLUM"}, {"PATH_3"}, {"CAGEWAYS"}, {"PATH_7"}, Shortcut,
               {"PLAYROOMS"}, {"LAVADUCTS"}, {"FOGOMETERS"},
               {"CAGEWAYS", "PLAYROOMS", "PATH_6"}, {"BLOOD"}}
  BY DEF DeadsidePortal, PortalRoutes
<1>2. /\ {"WASTELAND", "ASYLUM", "PATH_3", "CAGEWAYS", "PATH_7", "PLAYROOMS", "LAVADUCTS",
          "FOGOMETERS", "PATH_6", "BLOOD"} \subseteq Gate
      /\ {"BATON", "GAD2_WALK"} \subseteq ItemToken
  BY DEF Gate, Token, ItemToken
<1> QED
  BY <1>1, <1>2 DEF Shortcut

\* A player who holds more reaches the regions the other reaches.
LEMMA RulesUp ==
    ASSUME NEW o, OptionsOk(o), NEW h \in Holding, NEW b \in Holding, Poorer(o, h, b)
    PROVE  LevelRules(o, Unshuffled, h) \subseteq LevelRules(o, Unshuffled, b)
<1> DEFINE lo == OpenGates(o, h)
           hi == OpenGates(o, b)
           R == ClosedRules(o, Unshuffled, h, lo)
           T == ClosedRules(o, Unshuffled, b, hi)
           Front(r) == InFront(o, Unshuffled, h, lo, r)
           Before(r) == InFront(o, Unshuffled, b, hi, r)
<1>0. \A t \in ItemToken : ItemRule(o, h, t) => ItemRule(o, b, t)
  BY HeldRuleUp
<1>1. \A r : Front(r) => Before(r)
  <2> SUFFICES ASSUME NEW r, Front(r)
               PROVE  Before(r)
    OBVIOUS
  <2>1. PICK p \in DeadsidePortal : SpokeRegion[p] = r /\ PortalRule(o, h, lo, p)
    BY DEF InFront, Spokes, SpokeRule
  <2>2. Routes(o, h, lo, PortalRoutes[p])
    BY <2>1 DEF PortalRule
  <2>3. PICK route \in PortalRoutes[p] :
           \A t \in route : IF t \in Gate THEN t \in lo ELSE ItemRule(o, h, t)
    BY <2>2 DEF Routes
  <2>4. \A t \in route : IF t \in Gate THEN t \in hi ELSE ItemRule(o, b, t)
    BY <1>0, <2>3, GatesUp, PortalRoutesOk
  <2>5. PortalRule(o, b, hi, p)
    BY <2>4 DEF PortalRule, Routes
  <2> QED
    BY <2>1, <2>5 DEF InFront, Spokes, SpokeRule
<1>3. Has(h, "ENG_KEY") => Has(b, "ENG_KEY")
  BY DEF Has, Holding, Poorer, ItemKind
<1>4. GatewaysDoor(o, h) => GatewaysDoor(o, b)
  BY <1>0 DEF GatewaysDoor, ItemToken, Token
<1>5. \A l \in Liveside : RetractorsOk(o, h, l) => RetractorsOk(o, b, l)
  BY DEF RetractorsOk, Holding, Poorer
<1>6. \A l \in Liveside : CompletionItems[l] \subseteq ItemToken
  BY DEF Liveside, CompletionItems, ItemToken, Token
<1>7. \A l \in Liveside : Completable(o, h, l) => Completable(o, b, l)
  BY <1>0, <1>6 DEF Completable
<1>8. /\ {"Menu", "Swampland", "Marrow Gates"} \subseteq T
      /\ \A r \in SpokeRegions : r \in R <=> Front(r)
      /\ "Cathedral" \in R <=> Front("Gateways") /\ GatewaysDoor(o, h)
      /\ "Experimentation" \in R <=> Front("Gateways") /\ GatewaysDoor(o, h)
      /\ "Engine Block" \in R <=> Front("Cageways") /\ Has(h, "ENG_KEY")
      /\ \A l \in Liveside : l \in R <=> "Cathedral" \in R /\ RetractorsOk(o, h, l)
      /\ \A l \in Liveside : EngineSection[l] \in R <=> l \in R /\ Completable(o, h, l)
  BY RulesAre, Zenon
<1>9. /\ \A r \in SpokeRegions : r \in T <=> Before(r)
      /\ "Cathedral" \in T <=> Before("Gateways") /\ GatewaysDoor(o, b)
      /\ "Experimentation" \in T <=> Before("Gateways") /\ GatewaysDoor(o, b)
      /\ "Engine Block" \in T <=> Before("Cageways") /\ Has(b, "ENG_KEY")
      /\ \A l \in Liveside : l \in T <=> "Cathedral" \in T /\ RetractorsOk(o, b, l)
      /\ \A l \in Liveside : EngineSection[l] \in T <=> l \in T /\ Completable(o, b, l)
  BY RulesAre, Zenon
<1>10. R \subseteq Region
  BY RulesAre
<1> HIDE DEF R, T, Front, Before
<1>11. \A r \in SpokeRegions : r \in R => r \in T
  BY <1>1, <1>8, <1>9
<1>12. \A r \in {"Menu", "Swampland", "Marrow Gates", "Cathedral", "Experimentation", "Engine Block"} :
          r \in R => r \in T
  BY <1>1, <1>3, <1>4, <1>8, <1>9
<1>13. \A l \in Liveside : l \in R => l \in T
  BY <1>5, <1>8, <1>9, <1>12
<1>14. \A l \in Liveside : EngineSection[l] \in R => EngineSection[l] \in T
  BY <1>7, <1>8, <1>9, <1>13
<1>15. \A r \in R : \/ r \in SpokeRegions \cup Liveside
                    \/ r \in {"Menu", "Swampland", "Marrow Gates", "Cathedral",
                              "Experimentation", "Engine Block"}
                    \/ \E l \in Liveside : r = EngineSection[l]
  <2>1. \A x \in EngineSections : \E l \in Liveside : x = EngineSection[l]
    BY DEF EngineSections
  <2> QED
    BY <1>10, <2>1, RegionsAre, SpokeRegionsAre, EngineSectionsAre DEF Liveside
<1>16. R \subseteq T
  BY <1>11, <1>12, <1>13, <1>14, <1>15
<1> QED
  BY <1>16 DEF LevelRules, R, T

-----------------------------------------------------------------------------
(* Stages of a recursive definition.                                        *)

\* What holds at the first stage and of a stage after one it holds of, holds
\* of them all.
LEMMA StagesKeep ==
    ASSUME NEW n \in Nat, NEW A, NEW Good, A[0] \in Good[0],
           \A k \in 1 .. n : A[k - 1] \in Good[k - 1] => A[k] \in Good[k]
    PROVE  \A k \in 0 .. n : A[k] \in Good[k]
<1> DEFINE Bad == {k \in 0 .. n : A[k] \notin Good[k]}
<1> SUFFICES ASSUME Bad # {}
             PROVE  FALSE
  OBVIOUS
<1>1. Bad \in SUBSET Nat
  OBVIOUS
<1>2. PICK m \in Bad : \A k \in Bad : m <= k
  BY <1>1, Least, Zenon
<1>3. m \in 0 .. n /\ A[m] \notin Good[m]
  OBVIOUS
<1>4. m # 0
  BY <1>3
<1>5. m - 1 \in 0 .. n /\ m \in 1 .. n /\ ~(m <= m - 1)
  BY <1>3, <1>4
<1>6. m - 1 \notin Bad
  BY <1>2, <1>5
<1>7. A[m - 1] \in Good[m - 1]
  BY <1>5, <1>6
<1> QED
  BY <1>3, <1>5, <1>7

-----------------------------------------------------------------------------
(* The gad powers of the temples.                                           *)

GadState == [gad : Nat, grants : SUBSET (1 .. 3)]

Offer(n, a, regions) ==
    IF Temple[n] \in regions /\ n \notin a.grants /\ a.gad = n - 1
    THEN [gad |-> n, grants |-> a.grants \cup {n}]
    ELSE a

Offers(a, regions) == Offer(3, Offer(2, Offer(1, a, regions), regions), regions)

\* The grants of a sphere are three offers in turn.
LEMMA GrantedIs ==
    ASSUME NEW s, NEW regions
    PROVE  Granted(s, regions) = Offers([gad |-> s.st.inv["GAD"], grants |-> s.grants], regions)
<1> DEFINE a == [gad |-> s.st.inv["GAD"], grants |-> s.grants]
           b == Offer(1, a, regions)
           c == Offer(2, b, regions)
           d == Offer(3, c, regions)
           G(f) == [n \in 0 .. 3 |->
                       IF n = 0 THEN a
                       ELSE LET g == f[n - 1]
                            IN IF Temple[n] \in regions /\ n \notin g.grants /\ g.gad = n - 1
                               THEN [gad |-> n, grants |-> g.grants \cup {n}]
                               ELSE g]
           after == CHOOSE f : f = G(f)
<1>1. \E f : f = G(f)
  <2> DEFINE f == [n \in 0 .. 3 |-> CASE n = 0 -> a [] n = 1 -> b [] n = 2 -> c [] OTHER -> d]
  <2>1. f[0] = a /\ f[1] = b /\ f[2] = c /\ f[3] = d
    <3> HIDE DEF a, b, c, d
    <3> QED
      OBVIOUS
  <2>2. G(f)[0] = a /\ G(f)[1] = b /\ G(f)[2] = c /\ G(f)[3] = d
    <3> HIDE DEF f, a
    <3>1. G(f)[0] = a
      OBVIOUS
    <3>2. G(f)[1] = Offer(1, f[0], regions)
      BY DEF Offer
    <3>3. G(f)[2] = Offer(2, f[1], regions)
      BY DEF Offer
    <3>4. G(f)[3] = Offer(3, f[2], regions)
      BY DEF Offer
    <3> QED
      BY <2>1, <3>1, <3>2, <3>3, <3>4
  <2>3. \A n \in 0 .. 3 : n = 0 \/ n = 1 \/ n = 2 \/ n = 3
    OBVIOUS
  <2>4. DOMAIN f = 0 .. 3 /\ DOMAIN G(f) = 0 .. 3
    OBVIOUS
  <2>5. f = [n \in 0 .. 3 |-> f[n]] /\ G(f) = [n \in 0 .. 3 |-> G(f)[n]]
    OBVIOUS
  <2> HIDE DEF f, G, a, b, c, d
  <2>6. \A n \in 0 .. 3 : f[n] = G(f)[n]
    BY <2>1, <2>2, <2>3
  <2>7. f = G(f)
    BY <2>5, <2>6
  <2> QED
    BY <2>7
<1>2. after = G(after)
  <2> HIDE DEF G
  <2> QED
    BY <1>1
<1>3. Granted(s, regions) = after[3]
  BY Zenon DEF Granted
<1> HIDE DEF after, a
<1>4. after[0] = a
  BY <1>2
<1>5. after[1] = Offer(1, after[0], regions)
  BY <1>2 DEF Offer
<1>6. after[2] = Offer(2, after[1], regions)
  BY <1>2 DEF Offer
<1>7. after[3] = Offer(3, after[2], regions)
  BY <1>2 DEF Offer
<1> QED
  BY <1>3, <1>4, <1>5, <1>6, <1>7 DEF Offers, a

\* A power granted is held.
Earned(a) == \A n \in a.grants : n <= a.gad

\* An offer takes no gad and no grant away, and grants what it counts.
LEMMA OfferKeeps ==
    ASSUME NEW n \in 1 .. 3, NEW a \in GadState, NEW regions
    PROVE  LET b == Offer(n, a, regions)
           IN /\ b \in GadState
              /\ a.grants \subseteq b.grants
              /\ a.gad <= b.gad
              /\ b.grants = a.grants => b = a
              /\ Earned(a) => Earned(b)
<1>1. CASE Temple[n] \in regions /\ n \notin a.grants /\ a.gad = n - 1
  <2> DEFINE b == Offer(n, a, regions)
  <2>1. b = [gad |-> n, grants |-> a.grants \cup {n}]
    BY <1>1 DEF Offer
  <2> HIDE DEF b
  <2> QED
    BY <1>1, <2>1 DEF b, GadState, Earned
<1>2. CASE ~(Temple[n] \in regions /\ n \notin a.grants /\ a.gad = n - 1)
  <2>1. Offer(n, a, regions) = a
    BY <1>2, Zenon DEF Offer
  <2>2. a.gad \in Nat
    BY DEF GadState
  <2> QED
    BY <2>1, <2>2
<1> QED
  BY <1>1, <1>2

\* To a player who holds more an offer leaves as many gads.
LEMMA OfferUp ==
    ASSUME NEW n \in 1 .. 3, NEW a \in GadState, NEW b \in GadState, a.gad <= b.gad, Earned(b),
           NEW regions, NEW wider, regions \subseteq wider
    PROVE  Offer(n, a, regions).gad <= Offer(n, b, wider).gad
<1>1. a.gad \in Nat /\ b.gad \in Nat
  BY DEF GadState
<1>2. CASE Temple[n] \in regions /\ n \notin a.grants /\ a.gad = n - 1
  <2>1. Offer(n, a, regions).gad = n
    BY <1>2 DEF Offer
  <2>2. CASE b.gad = n - 1
    <3>1. n \notin b.grants
      BY <1>1, <2>2 DEF Earned
    <3>2. Offer(n, b, wider).gad = n
      BY <1>2, <2>2, <3>1 DEF Offer
    <3> QED
      BY <2>1, <3>2
  <2>3. CASE b.gad # n - 1
    <3>1. Offer(n, b, wider).gad = b.gad
      BY <2>3 DEF Offer
    <3> QED
      BY <1>1, <1>2, <2>1, <2>3, <3>1
  <2> QED
    BY <2>2, <2>3
<1>3. CASE ~(Temple[n] \in regions /\ n \notin a.grants /\ a.gad = n - 1)
  <2>1. Offer(n, a, regions) = a
    BY <1>3, Zenon DEF Offer
  <2>2. b.gad <= Offer(n, b, wider).gad /\ Offer(n, b, wider) \in GadState
    BY OfferKeeps
  <2>3. Offer(n, b, wider).gad \in Nat
    BY <2>2 DEF GadState
  <2> QED
    BY <1>1, <2>1, <2>2, <2>3
<1> QED
  BY <1>2, <1>3

\* Nor do three offers.
LEMMA OffersKeep ==
    ASSUME NEW a \in GadState, NEW regions
    PROVE  LET b == Offers(a, regions)
           IN /\ b \in GadState
              /\ a.grants \subseteq b.grants
              /\ a.gad <= b.gad
              /\ b.grants = a.grants => b = a
              /\ Earned(a) => Earned(b)
<1> DEFINE b == Offer(1, a, regions)
           c == Offer(2, b, regions)
           d == Offer(3, c, regions)
           Grew(y, z) == /\ z \in GadState
                         /\ y.grants \subseteq z.grants
                         /\ y.gad <= z.gad
                         /\ z.grants = y.grants => z = y
                         /\ Earned(y) => Earned(z)
<1>1. Grew(a, b)
  BY OfferKeeps
<1>2. Grew(b, c)
  <2> HIDE DEF b
  <2> QED
    BY <1>1, OfferKeeps
<1>3. Grew(c, d)
  <2> HIDE DEF c
  <2> QED
    BY <1>2, OfferKeeps
<1> HIDE DEF b, c, d
<1>4. Grew(a, d)
  BY <1>1, <1>2, <1>3 DEF GadState
<1> QED
  BY <1>4, Zenon DEF Offers, b, c, d

\* To a player who holds more three offers leave as many gads.
LEMMA OffersUp ==
    ASSUME NEW a \in GadState, NEW b \in GadState, a.gad <= b.gad, Earned(b),
           NEW regions, NEW wider, regions \subseteq wider
    PROVE  Offers(a, regions).gad <= Offers(b, wider).gad
<1> DEFINE a1 == Offer(1, a, regions)
           a2 == Offer(2, a1, regions)
           b1 == Offer(1, b, wider)
           b2 == Offer(2, b1, wider)
<1>1. a1 \in GadState /\ b1 \in GadState /\ a1.gad <= b1.gad /\ Earned(b1)
  BY OfferKeeps, OfferUp
<1>2. a2 \in GadState /\ b2 \in GadState /\ a2.gad <= b2.gad /\ Earned(b2)
  <2> HIDE DEF a1, b1
  <2> QED
    BY <1>1, OfferKeeps, OfferUp
<1> HIDE DEF a1, b1, a2, b2
<1>3. Offer(3, a2, regions).gad <= Offer(3, b2, wider).gad
  BY <1>2, OfferUp
<1> QED
  BY <1>3, Zenon DEF Offers, a1, a2, b1, b2

-----------------------------------------------------------------------------
(* One sphere of the simulation, of a world x whose slots hold p.           *)

WorldOk(x) ==
    /\ IsFiniteSet(DOMAIN x.locs)
    /\ IsFiniteSet(DOMAIN x.items)
    /\ OptionsOk(x.options)
    /\ \A l \in DOMAIN x.locs : x.locs[l].expr \in SUBSET SUBSET (Gate \cup Token)
    /\ x.start \in [ItemKind -> Nat]
    /\ x.retractors \in Nat
    /\ x.retractorLevel \in [DOMAIN x.items -> Liveside]

FillOk(x, p) ==
    /\ DOMAIN p \subseteq FillSlots(x)
    /\ \A l \in DOMAIN p : p[l] \in DOMAIN x.items
    /\ \A l, m \in DOMAIN p : p[l] = p[m] => l = m

\* The gad powers are items, or there are no such items.
GadsOk(x, g) == g \in BOOLEAN /\ (g \/ \A i \in DOMAIN x.items : x.items[i].kind # "GAD")

SimState(x) ==
    [progress : BOOLEAN, reached : SUBSET DOMAIN x.locs, grants : SUBSET (1 .. 3), st : Holding]

\* The items of some locations, those of a kind and those of a category.
Carried(p, S) == {p[l] : l \in S \cap DOMAIN p}
OfKind(x, k) == {i \in DOMAIN x.items : x.items[i].kind = k}
OfCategory(x, c) == {i \in DOMAIN x.items : x.items[i].category = c}

Carries(p, S, K) == Cardinality(Carried(p, S) \cap K)

\* What slots carry is a finite set of items.
LEMMA CarriedFew ==
    ASSUME NEW x, WorldOk(x), NEW p, FillOk(x, p), NEW S, NEW K
    PROVE  /\ Carried(p, S) \subseteq DOMAIN x.items
           /\ IsFiniteSet(Carried(p, S) \cap K)
           /\ Carries(p, S, K) \in Nat
<1>1. Carried(p, S) \subseteq DOMAIN x.items
  BY DEF Carried, FillOk
<1>2. IsFiniteSet(Carried(p, S) \cap K)
  BY <1>1, FS_Subset DEF WorldOk
<1> QED
  BY <1>1, <1>2, FS_CardinalityType DEF Carries

\* What is carried from elsewhere adds up.
LEMMA CarriesAdd ==
    ASSUME NEW x, WorldOk(x), NEW p, FillOk(x, p), NEW S, NEW T, S \cap T = {}, NEW K
    PROVE  Carries(p, S \cup T, K) = Carries(p, S, K) + Carries(p, T, K)
<1> DEFINE A == Carried(p, S) \cap K
           B == Carried(p, T) \cap K
<1>1. Carried(p, S \cup T) \cap K = A \cup B
  BY DEF Carried
<1>2. A \cap B = {}
  BY DEF Carried, FillOk
<1>3. IsFiniteSet(A) /\ IsFiniteSet(B)
  BY CarriedFew
<1> HIDE DEF A, B
<1>4. Cardinality(A \cup B) = Cardinality(A) + Cardinality(B) - Cardinality(A \cap B)
  BY <1>3, FS_Union
<1>5. Cardinality(A) \in Nat /\ Cardinality(B) \in Nat /\ Cardinality(A \cap B) = 0
  BY <1>2, <1>3, FS_CardinalityType, FS_EmptySet
<1>6. Cardinality(A \cup B) = Cardinality(A) + Cardinality(B)
  BY <1>4, <1>5
<1> QED
  BY <1>1, <1>6 DEF Carries, A, B

\* What a sphere that follows s meets.
Opens(x, s) == OpenGates(x.options, s.st)
Rules(x, s) == LevelRules(x.options, Unshuffled, s.st)
Met(x, s) == s.st.regions \cup Rules(x, s)
GadsHeld(s) == [gad |-> s.st.inv["GAD"], grants |-> s.grants]
Gads(x, g, s) == IF g THEN GadsHeld(s) ELSE Offers(GadsHeld(s), Met(x, s))
News(x, p, s) == Found(x, p, s, Rules(x, s), Opens(x, s))

\* And what it has then, k being its count of items of kind k before the items
\* of the new locations.
Before(x, g, s, k) == IF k = "GAD" THEN Gads(x, g, s).gad ELSE s.st.inv[k]

SphereIs(x, p, g, s, t) ==
    LET new == News(x, p, s)
        gad == Gads(x, g, s)
    IN /\ t.progress <=> new # {} \/ Met(x, s) # s.st.regions \/ gad.grants # s.grants
       /\ t.reached = s.reached \cup new
       /\ t.grants = gad.grants
       /\ t.st.regions = Met(x, s)
       /\ \A k \in ItemKind : t.st.inv[k] = Before(x, g, s, k) + Carries(p, new, OfKind(x, k))
       /\ t.st.souls = s.st.souls + Carries(p, new, OfCategory(x, "soul"))
                                 + Cardinality(new \ FillSlots(x))
       /\ t.st.retractors = s.st.retractors + Carries(p, new, OfCategory(x, "retractor"))
       /\ t.st.keys = s.st.keys \cup
             {x.retractorLevel[i] : i \in Carried(p, new) \cap OfCategory(x, "retractor")}

\* The gad is a kind of item.
LEMMA ItemKindsAre == "GAD" \in ItemKind
BY DEF ItemKind

\* The gads after a sphere are no fewer than before.
LEMMA GadsType ==
    ASSUME NEW x, NEW s \in SimState(x), NEW g
    PROVE  /\ GadsHeld(s) \in GadState
           /\ Gads(x, g, s) \in GadState
           /\ s.grants \subseteq Gads(x, g, s).grants
           /\ s.st.inv["GAD"] <= Gads(x, g, s).gad
           /\ Gads(x, g, s).grants = s.grants => Gads(x, g, s).gad = s.st.inv["GAD"]
           /\ Earned(GadsHeld(s)) => Earned(Gads(x, g, s))
<1>1. s.st.inv["GAD"] \in Nat /\ s.grants \in SUBSET (1 .. 3)
  BY ItemKindsAre DEF SimState, Holding
<1>2. GadsHeld(s) \in GadState
  BY <1>1 DEF GadsHeld, GadState
<1>3. GadsHeld(s).gad = s.st.inv["GAD"] /\ GadsHeld(s).grants = s.grants
  BY DEF GadsHeld
<1>4. CASE g
  BY <1>1, <1>2, <1>3, <1>4 DEF Gads
<1>5. CASE ~g
  <2>1. Gads(x, g, s) = Offers(GadsHeld(s), Met(x, s))
    BY <1>5, Zenon DEF Gads
  <2> QED
    BY <1>2, <1>3, <2>1, OffersKeep
<1> QED
  BY <1>4, <1>5

\* What a sphere finds was not reached before.
LEMMA NewsAre ==
    ASSUME NEW x, NEW p, NEW s
    PROVE  News(x, p, s) \subseteq DOMAIN x.locs \ s.reached
BY DEF News, Found

\* A sphere leads from state to state, as SphereIs says.
LEMMA SphereType ==
    ASSUME NEW x, WorldOk(x), NEW p, FillOk(x, p), NEW g \in BOOLEAN, NEW s \in SimState(x)
    PROVE  /\ Sphere(x, p, g, s) \in SimState(x)
           /\ SphereIs(x, p, g, s, Sphere(x, p, g, s))
<1> DEFINE new == News(x, p, s)
           gad == Gads(x, g, s)
           met == Met(x, s)
           items == {p[l] : l \in new \cap DOMAIN p}
           of(c) == {i \in items : x.items[i].category = c}
           inv == [s.st.inv EXCEPT !["GAD"] = gad.gad]
           t == [progress |-> new # {} \/ met # s.st.regions \/ gad.grants # s.grants,
                 reached |-> s.reached \cup new,
                 grants |-> gad.grants,
                 st |-> [inv |-> [k \in ItemKind |->
                            inv[k] + Cardinality({i \in items : x.items[i].kind = k})],
                souls |-> s.st.souls + Cardinality(of("soul")) + Cardinality(new \ FillSlots(x)),
                retractors |-> s.st.retractors + Cardinality(of("retractor")),
                keys |-> s.st.keys \cup {x.retractorLevel[i] : i \in of("retractor")},
                regions |-> met]]
<1>1. Sphere(x, p, g, s) = t
  <2>1. Sphere(x, p, g, s) = Gained(x, p, s, met, gad, new)
    BY GrantedIs, Zenon
       DEF Sphere, Met, Gads, GadsHeld, News, Rules, Opens, LevelRules
  <2>2. Gained(x, p, s, met, gad, new) = t
    BY Zenon DEF Gained
  <2> QED
    BY <2>1, <2>2
<1>2. items = Carried(p, new)
  BY DEF Carried
<1>3. \A k : {i \in items : x.items[i].kind = k} = Carried(p, new) \cap OfKind(x, k)
  BY CarriedFew DEF Carried, OfKind
<1>4. \A c : of(c) = Carried(p, new) \cap OfCategory(x, c)
  BY CarriedFew DEF Carried, OfCategory
<1>5. \A k \in ItemKind : inv[k] = Before(x, g, s, k)
  BY DEF Before, SimState, Holding
<1>6. gad \in GadState
  BY GadsType
<1>7. new \subseteq DOMAIN x.locs
  BY NewsAre
<1>8. met \subseteq Region
  <2>1. Rules(x, s) \subseteq Region
    BY RulesAre, Zenon DEF Rules, LevelRules
  <2> QED
    BY <2>1 DEF Met, SimState, Holding
<1> HIDE DEF new, gad, met, items, of, inv
<1>9. SphereIs(x, p, g, s, t)
  BY <1>3, <1>4, <1>5 DEF SphereIs, Carries, new, gad, met
<1>10. \A k \in ItemKind : Before(x, g, s, k) \in Nat /\ Carries(p, new, OfKind(x, k)) \in Nat
  BY <1>6, CarriedFew DEF Before, GadState, SimState, Holding, gad
<1>11. /\ Carries(p, new, OfCategory(x, "soul")) \in Nat
       /\ Carries(p, new, OfCategory(x, "retractor")) \in Nat
       /\ Cardinality(new \ FillSlots(x)) \in Nat
  BY <1>7, CarriedFew, FS_Subset, FS_CardinalityType DEF WorldOk
<1>12. t.st \in Holding
  <2>1. t.st.inv \in [ItemKind -> Nat]
    <3>1. \A k \in ItemKind :
             inv[k] \in Nat /\ Cardinality({i \in items : x.items[i].kind = k}) \in Nat
      BY <1>3, <1>5, <1>10 DEF Carries
    <3>2. \A k \in ItemKind : inv[k] + Cardinality({i \in items : x.items[i].kind = k}) \in Nat
      BY <3>1
    <3> QED
      BY <3>2
  <2>2. s.st.souls \in Nat /\ s.st.retractors \in Nat /\ s.st.keys \subseteq Liveside
    BY DEF SimState, Holding
  <2>3. t.st.souls \in Nat
    <3>1. Cardinality(of("soul")) \in Nat
      BY <1>4, <1>11 DEF Carries
    <3> HIDE DEF of
    <3>2. s.st.souls + Cardinality(of("soul")) + Cardinality(new \ FillSlots(x)) \in Nat
      BY <1>11, <2>2, <3>1
    <3> QED
      BY <3>2
  <2>4. t.st.retractors \in Nat
    <3>1. Cardinality(of("retractor")) \in Nat
      BY <1>4, <1>11 DEF Carries
    <3> HIDE DEF of
    <3>2. s.st.retractors + Cardinality(of("retractor")) \in Nat
      BY <1>11, <2>2, <3>1
    <3> QED
      BY <3>2
  <2>5. t.st.keys \subseteq Liveside
    BY <1>4, <2>2, CarriedFew DEF WorldOk
  <2>6. t.st.regions \subseteq Region
    BY <1>8
  <2> QED
    BY <2>1, <2>3, <2>4, <2>5, <2>6 DEF Holding
<1>13. t \in SimState(x)
  BY <1>6, <1>7, <1>12 DEF SimState, GadState
<1> QED
  BY <1>1, <1>9, <1>13

\* What is held after any sphere is what the game starts with and what the
\* locations reached gave.
Accounts(x, p, g, s) ==
    /\ Earned(GadsHeld(s))
    /\ x.start["GAD"] <= s.st.inv["GAD"]
    /\ \A k \in ItemKind : k # "GAD" \/ g =>
          s.st.inv[k] = x.start[k] + Carries(p, s.reached, OfKind(x, k))
    /\ s.st.souls = Carries(p, s.reached, OfCategory(x, "soul"))
                    + Cardinality(s.reached \ FillSlots(x))
    /\ s.st.retractors = x.retractors + Carries(p, s.reached, OfCategory(x, "retractor"))
    /\ s.st.keys =
          {x.retractorLevel[i] : i \in Carried(p, s.reached) \cap OfCategory(x, "retractor")}

\* Another sphere brings nothing.
Still(x, p, g, s) ==
    /\ News(x, p, s) = {}
    /\ Rules(x, s) \subseteq s.st.regions
    /\ Gads(x, g, s).gad = s.st.inv["GAD"]

Size(s) == Cardinality(s.reached) + Cardinality(s.st.regions) + Cardinality(s.grants)

\* What a sphere finds adds to the counts.
LEMMA NewsSplit ==
    ASSUME NEW x, WorldOk(x), NEW p, NEW s \in SimState(x)
    PROVE  LET new == News(x, p, s)
               all == s.reached \cup new
               rest(S) == S \ FillSlots(x)
           IN /\ Cardinality(rest(all)) = Cardinality(rest(s.reached)) + Cardinality(rest(new))
              /\ Cardinality(all) = Cardinality(s.reached) + Cardinality(new)
              /\ new # {} => Cardinality(new) >= 1
              /\ Cardinality(s.reached) \in Nat /\ Cardinality(new) \in Nat
              /\ Cardinality(rest(s.reached)) \in Nat /\ Cardinality(rest(new)) \in Nat
<1> DEFINE new == News(x, p, s)
           all == s.reached \cup new
           rest(S) == S \ FillSlots(x)
           F(S) == IsFiniteSet(S) /\ Cardinality(S) \in Nat
<1>1. new \subseteq DOMAIN x.locs /\ s.reached \subseteq DOMAIN x.locs /\ s.reached \cap new = {}
  BY NewsAre DEF SimState
<1> HIDE DEF new
<1>2. \A S \in SUBSET DOMAIN x.locs : F(S)
  BY FS_Subset, FS_CardinalityType DEF WorldOk
<1>3. F(new) /\ F(s.reached) /\ F(rest(new)) /\ F(rest(s.reached))
  <2>1. rest(new) \subseteq DOMAIN x.locs /\ rest(s.reached) \subseteq DOMAIN x.locs
    BY <1>1
  <2> HIDE DEF F, rest
  <2> QED
    BY <1>1, <1>2, <2>1
<1>4. \A S, T : F(S) /\ F(T) /\ S \cap T = {} =>
         Cardinality(S \cup T) = Cardinality(S) + Cardinality(T)
  <2> SUFFICES ASSUME NEW S, NEW T, F(S), F(T), S \cap T = {}
               PROVE  Cardinality(S \cup T) = Cardinality(S) + Cardinality(T)
    OBVIOUS
  <2>1. Cardinality(S \cup T) = Cardinality(S) + Cardinality(T) - Cardinality({})
    BY FS_Union
  <2> QED
    BY <2>1, FS_EmptySet
<1>5. rest(all) = rest(s.reached) \cup rest(new) /\ rest(s.reached) \cap rest(new) = {}
  BY <1>1
<1>6. new # {} => Cardinality(new) >= 1
  BY <1>3, FS_EmptySet
<1> HIDE DEF rest
<1>7. Cardinality(rest(all)) = Cardinality(rest(s.reached)) + Cardinality(rest(new))
  <2> HIDE DEF F
  <2> QED
    BY <1>3, <1>4, <1>5
<1>8. Cardinality(all) = Cardinality(s.reached) + Cardinality(new)
  <2> HIDE DEF F
  <2> QED
    BY <1>1, <1>3, <1>4
<1> QED
  BY <1>3, <1>6, <1>7, <1>8 DEF new, rest

\* A sphere keeps the accounts of what the reached slots carry.
LEMMA SphereAccounts ==
    ASSUME NEW x, WorldOk(x), NEW p, FillOk(x, p), NEW g, GadsOk(x, g),
           NEW s \in SimState(x), Accounts(x, p, g, s),
           NEW t \in SimState(x), SphereIs(x, p, g, s, t)
    PROVE  Accounts(x, p, g, t)
<1> DEFINE new == News(x, p, s)
           gad == Gads(x, g, s)
           C(S, K) == Carries(p, S, K)
<1>1. t.reached = s.reached \cup new /\ s.reached \cap new = {}
  BY NewsAre DEF SphereIs
<1>2. \A K : C(t.reached, K) = C(s.reached, K) + C(new, K)
  BY <1>1, CarriesAdd
<1>3. \A K : C(s.reached, K) \in Nat /\ C(new, K) \in Nat
  BY CarriedFew
<1>4. \A k \in ItemKind : t.st.inv[k] = Before(x, g, s, k) + C(new, OfKind(x, k))
  BY DEF SphereIs
<1>5. gad \in GadState /\ s.st.inv["GAD"] <= gad.gad /\ Earned(gad)
  BY GadsType DEF Accounts
<1>6. \A k \in ItemKind : s.st.inv[k] \in Nat /\ x.start[k] \in Nat
  BY DEF SimState, Holding, WorldOk
<1>7. t.grants = gad.grants
  BY DEF SphereIs
<1>8. t.st.souls = s.st.souls + C(new, OfCategory(x, "soul")) + Cardinality(new \ FillSlots(x))
  BY DEF SphereIs
<1>9. t.st.retractors = s.st.retractors + C(new, OfCategory(x, "retractor"))
  BY DEF SphereIs
<1>10. t.st.keys = s.st.keys \cup
             {x.retractorLevel[i] : i \in Carried(p, new) \cap OfCategory(x, "retractor")}
  BY DEF SphereIs
<1>11. Carried(p, t.reached) = Carried(p, s.reached) \cup Carried(p, new)
  BY <1>1 DEF Carried
<1>12. /\ Cardinality(t.reached \ FillSlots(x))
            = Cardinality(s.reached \ FillSlots(x)) + Cardinality(new \ FillSlots(x))
       /\ Cardinality(s.reached \ FillSlots(x)) \in Nat
       /\ Cardinality(new \ FillSlots(x)) \in Nat
  BY <1>1, NewsSplit, Zenon
<1> HIDE DEF new, gad, C
<1>13. t.st.inv["GAD"] = gad.gad + C(new, OfKind(x, "GAD"))
  BY <1>4, ItemKindsAre DEF Before, gad
<1>14. gad.gad \in Nat /\ gad.gad <= t.st.inv["GAD"]
  BY <1>3, <1>5, <1>13 DEF GadState
<1>15. Earned(GadsHeld(t))
  <2>1. \A n \in t.grants : n <= gad.gad
    BY <1>5, <1>7 DEF Earned
  <2>2. \A n \in t.grants : n \in Nat
    BY DEF SimState
  <2>3. t.st.inv["GAD"] \in Nat
    BY ItemKindsAre DEF SimState, Holding
  <2>4. GadsHeld(t).gad = t.st.inv["GAD"] /\ GadsHeld(t).grants = t.grants
    BY DEF GadsHeld
  <2>5. \A n \in t.grants : n <= t.st.inv["GAD"]
    BY <1>14, <2>1, <2>2, <2>3
  <2> QED
    BY <2>4, <2>5 DEF Earned
<1>16. x.start["GAD"] <= t.st.inv["GAD"]
  <2>1. x.start["GAD"] <= s.st.inv["GAD"] /\ t.st.inv["GAD"] \in Nat
    BY ItemKindsAre DEF Accounts, SimState, Holding
  <2> QED
    BY <1>5, <1>6, <1>14, <2>1, ItemKindsAre
<1>17. \A k \in ItemKind : k # "GAD" \/ g =>
          t.st.inv[k] = x.start[k] + C(t.reached, OfKind(x, k))
  <2> SUFFICES ASSUME NEW k \in ItemKind, k # "GAD" \/ g
               PROVE  t.st.inv[k] = x.start[k] + C(t.reached, OfKind(x, k))
    OBVIOUS
  <2>1. s.st.inv[k] = x.start[k] + C(s.reached, OfKind(x, k))
    BY DEF Accounts, C
  <2>2. Before(x, g, s, k) = s.st.inv[k]
    BY DEF Before, Gads, GadsHeld
  <2>3. C(t.reached, OfKind(x, k)) = C(s.reached, OfKind(x, k)) + C(new, OfKind(x, k))
    BY <1>2
  <2> QED
    BY <1>3, <1>4, <1>6, <2>1, <2>2, <2>3
<1>18. t.st.souls = C(t.reached, OfCategory(x, "soul")) + Cardinality(t.reached \ FillSlots(x))
  <2>1. s.st.souls = C(s.reached, OfCategory(x, "soul")) + Cardinality(s.reached \ FillSlots(x))
    BY DEF Accounts, C
  <2>2. C(t.reached, OfCategory(x, "soul"))
          = C(s.reached, OfCategory(x, "soul")) + C(new, OfCategory(x, "soul"))
    BY <1>2
  <2>3. C(s.reached, OfCategory(x, "soul")) \in Nat /\ C(new, OfCategory(x, "soul")) \in Nat
    BY <1>3
  <2> QED
    BY <1>8, <1>12, <2>1, <2>2, <2>3
<1>19. t.st.retractors = x.retractors + C(t.reached, OfCategory(x, "retractor"))
  <2>1. s.st.retractors = x.retractors + C(s.reached, OfCategory(x, "retractor"))
    BY DEF Accounts, C
  <2>2. C(t.reached, OfCategory(x, "retractor"))
          = C(s.reached, OfCategory(x, "retractor")) + C(new, OfCategory(x, "retractor"))
    BY <1>2
  <2>3. /\ C(s.reached, OfCategory(x, "retractor")) \in Nat
        /\ C(new, OfCategory(x, "retractor")) \in Nat /\ x.retractors \in Nat
    BY <1>3 DEF WorldOk
  <2> QED
    BY <1>9, <2>1, <2>2, <2>3
<1>20. t.st.keys =
          {x.retractorLevel[i] : i \in Carried(p, t.reached) \cap OfCategory(x, "retractor")}
  BY <1>10, <1>11 DEF Accounts
<1> QED
  BY <1>15, <1>16, <1>17, <1>18, <1>19, <1>20 DEF Accounts, C

\* A sphere that made progress has reached, opened or granted one thing more.
LEMMA SphereGrows ==
    ASSUME NEW x, WorldOk(x), NEW p, NEW g,
           NEW s \in SimState(x), NEW t \in SimState(x), SphereIs(x, p, g, s, t), t.progress
    PROVE  Size(t) >= Size(s) + 1
<1> DEFINE new == News(x, p, s)
           more(S, T) == /\ Cardinality(S) \in Nat /\ Cardinality(T) \in Nat
                         /\ Cardinality(S) <= Cardinality(T)
                         /\ S # T => Cardinality(S) < Cardinality(T)
<1>1. \A T : IsFiniteSet(T) => \A S \in SUBSET T : more(S, T)
  <2> SUFFICES ASSUME NEW T, IsFiniteSet(T), NEW S \in SUBSET T
               PROVE  more(S, T)
    OBVIOUS
  <2>1. /\ IsFiniteSet(S) /\ Cardinality(S) <= Cardinality(T)
        /\ Cardinality(S) = Cardinality(T) => S = T
    BY FS_Subset
  <2>2. Cardinality(S) \in Nat /\ Cardinality(T) \in Nat
    BY <2>1, FS_CardinalityType
  <2> QED
    BY <2>1, <2>2
<1>2. more(s.reached, t.reached)
  <2>1. IsFiniteSet(t.reached) /\ s.reached \subseteq t.reached
    BY FS_Subset DEF SimState, WorldOk, SphereIs
  <2> QED
    BY <1>1, <2>1
<1>3. more(s.st.regions, t.st.regions)
  <2>1. IsFiniteSet(t.st.regions) /\ s.st.regions \subseteq t.st.regions
    BY FS_Subset, RegionsAreFew DEF SimState, Holding, SphereIs, Met
  <2> QED
    BY <1>1, <2>1
<1>4. more(s.grants, t.grants)
  <2>1. t.grants \in SUBSET Nat /\ \A n \in t.grants : n <= 3
    BY DEF SimState
  <2>2. IsFiniteSet(t.grants)
    BY <2>1, 3 \in Nat, FS_BoundedSetOfNaturals
  <2>3. s.grants \subseteq t.grants
    BY GadsType DEF SphereIs
  <2> QED
    BY <1>1, <2>2, <2>3
<1>5. s.reached # t.reached \/ s.st.regions # t.st.regions \/ s.grants # t.grants
  BY NewsAre DEF SphereIs
<1> QED
  BY <1>2, <1>3, <1>4, <1>5 DEF Size

\* One that made none leaves nothing for another.
LEMMA SphereSettles ==
    ASSUME NEW x, WorldOk(x), NEW p, NEW g,
           NEW s \in SimState(x), NEW t \in SimState(x), SphereIs(x, p, g, s, t), ~t.progress
    PROVE  Still(x, p, g, t)
<1>1. News(x, p, s) = {} /\ Met(x, s) = s.st.regions /\ Gads(x, g, s).grants = s.grants
  BY DEF SphereIs
<1>2. Gads(x, g, s).gad = s.st.inv["GAD"]
  BY <1>1, GadsType
<1>3. t.reached = s.reached /\ t.grants = s.grants /\ t.st.regions = s.st.regions
  BY <1>1 DEF SphereIs
<1>4. \A K : Carries(p, {}, K) = 0
  BY FS_EmptySet DEF Carries, Carried
<1>5. Carried(p, {}) = {}
  BY DEF Carried
<1>6. \A k \in ItemKind : t.st.inv[k] = s.st.inv[k]
  <2> SUFFICES ASSUME NEW k \in ItemKind
               PROVE  t.st.inv[k] = s.st.inv[k]
    OBVIOUS
  <2>1. t.st.inv[k] = Before(x, g, s, k) + 0
    BY <1>1, <1>4 DEF SphereIs
  <2>2. Before(x, g, s, k) = s.st.inv[k]
    BY <1>2 DEF Before
  <2>3. s.st.inv[k] \in Nat
    BY DEF SimState, Holding
  <2> QED
    BY <2>1, <2>2, <2>3
<1>7. t.st.inv = s.st.inv
  BY <1>6 DEF SimState, Holding
<1>8. t.st.souls = s.st.souls
  <2>1. Cardinality({} \ FillSlots(x)) = 0
    BY FS_EmptySet
  <2>2. t.st.souls = s.st.souls + 0 + 0
    BY <1>1, <1>4, <2>1 DEF SphereIs
  <2>3. s.st.souls \in Nat
    BY DEF SimState, Holding
  <2> QED
    BY <2>2, <2>3
<1>9. t.st.retractors = s.st.retractors
  <2>1. t.st.retractors = s.st.retractors + 0
    BY <1>1, <1>4 DEF SphereIs
  <2>2. s.st.retractors \in Nat
    BY DEF SimState, Holding
  <2> QED
    BY <2>1, <2>2
<1>10. t.st.keys = s.st.keys
  BY <1>1, <1>5 DEF SphereIs
<1>11. t.st = s.st
  BY <1>3, <1>7, <1>8, <1>9, <1>10 DEF SimState, Holding
<1>12. Rules(x, t) = Rules(x, s) /\ Opens(x, t) = Opens(x, s)
  BY <1>11 DEF Rules, Opens
<1>13. News(x, p, t) = News(x, p, s)
  BY <1>3, <1>11, <1>12 DEF News, Found
<1>14. Rules(x, t) \subseteq t.st.regions
  BY <1>1, <1>3, <1>12 DEF Met
<1>15. Gads(x, g, t) = Gads(x, g, s)
  BY <1>3, <1>11, <1>12 DEF Gads, GadsHeld, Met
<1> QED
  BY <1>1, <1>2, <1>11, <1>13, <1>14, <1>15 DEF Still

-----------------------------------------------------------------------------
(* The whole simulation.                                                    *)

Played(after, x, p, g) ==
    /\ after[0] = NewGame(x)
    /\ \A k \in 1 .. SphereBound(x) :
          after[k] = IF after[k - 1].progress THEN Sphere(x, p, g, after[k - 1]) ELSE after[k - 1]
    /\ Simulate(x, p, g) = after[SphereBound(x)]

\* The bound on the spheres is a number.
LEMMA BoundIsNat == ASSUME NEW x, WorldOk(x) PROVE SphereBound(x) \in Nat
<1>1. Cardinality(DOMAIN x.locs) \in Nat /\ Cardinality(Region) \in Nat
  BY FS_CardinalityType, RegionsAreFew DEF WorldOk
<1> QED
  BY <1>1 DEF SphereBound

\* A new game is a state of the simulation.
LEMMA NewGameType == ASSUME NEW x, WorldOk(x) PROVE NewGame(x) \in SimState(x)
BY DEF NewGame, SimState, Holding, WorldOk

\* The simulation has its spheres, up to the bound.
LEMMA SimulationIs ==
    ASSUME NEW x, WorldOk(x), NEW p, FillOk(x, p), NEW g \in BOOLEAN
    PROVE  \E after : Played(after, x, p, g)
<1> DEFINE S == SimState(x)
           N == SphereBound(x)
           one(s) == IF s.progress THEN Sphere(x, p, g, s) ELSE s
           F == [s \in S |-> one(s)]
           G(f) == [k \in 0 .. N |-> IF k = 0 THEN NewGame(x)
                                     ELSE LET s == f[k - 1]
                                          IN IF s.progress THEN Sphere(x, p, g, s) ELSE s]
           after == CHOOSE f : f = G(f)
<1>1. \A s \in S : one(s) \in S
  BY SphereType
<1>2. N \in Nat
  BY BoundIsNat
<1>3. NewGame(x) \in S
  BY NewGameType
<1>4. \E f : f = G(f)
  <2> HIDE DEF S, N, one
  <2>1. F \in [S -> S]
    BY <1>1
  <2> HIDE DEF F
  <2>2. PICK f : Iteration(f, S, F, NewGame(x), N)
    BY <1>2, <1>3, <2>1, Iterates
  <2>3. f \in [0 .. N -> S] /\ f[0] = NewGame(x) /\ \A k \in 1 .. N : f[k] = F[f[k - 1]]
    BY <2>2 DEF Iteration
  <2>4. \A k \in 1 .. N : f[k - 1] \in S
    BY <1>2, <2>3
  <2>5. \A k \in 1 .. N : f[k] = one(f[k - 1])
    BY <2>3, <2>4 DEF F
  <2>6. \A k \in 0 .. N : f[k] = G(f)[k]
    <3>1. f[0] = G(f)[0]
      BY <1>2, <2>3
    <3>2. \A k \in 1 .. N : f[k] = G(f)[k]
      BY <1>2, <2>5 DEF one
    <3>3. \A k \in 0 .. N : k = 0 \/ k \in 1 .. N
      BY <1>2
    <3> HIDE DEF G
    <3> QED
      BY <3>1, <3>2, <3>3
  <2>7. f = G(f)
    BY <2>3, <2>6
  <2> QED
    BY <2>7
<1>5. after = G(after)
  <2> HIDE DEF G
  <2> QED
    BY <1>4
<1>6. Simulate(x, p, g) = after[N]
  BY Zenon DEF Simulate, Spheres
<1> HIDE DEF after, N
<1>7. after[0] = NewGame(x)
  BY <1>2, <1>5
<1>8. \A k \in 1 .. N : after[k] = one(after[k - 1])
  BY <1>2, <1>5
<1>9. Played(after, x, p, g)
  BY <1>6, <1>7, <1>8, Zenon DEF Played, N
<1> QED
  BY <1>9

\* What holds of a new game, and after a sphere if it held before, holds of the
\* whole simulation.
LEMMA SimulationKeeps ==
    ASSUME NEW x, WorldOk(x), NEW p, FillOk(x, p), NEW g \in BOOLEAN, NEW G,
           NewGame(x) \in G, \A s \in G : Sphere(x, p, g, s) \in G
    PROVE  Simulate(x, p, g) \in G
<1> DEFINE N == SphereBound(x)
           Good == [k \in 0 .. N |-> G]
<1>1. PICK after : Played(after, x, p, g)
  BY SimulationIs, Zenon
<1>2. /\ after[0] = NewGame(x)
      /\ \A k \in 1 .. N : after[k] = IF after[k - 1].progress
                                      THEN Sphere(x, p, g, after[k - 1]) ELSE after[k - 1]
      /\ Simulate(x, p, g) = after[N]
  BY <1>1, Zenon DEF Played
<1>3. N \in Nat
  BY BoundIsNat
<1> HIDE DEF N
<1>4. \A k \in 1 .. N : after[k - 1] \in G => after[k] \in G
  BY <1>2
<1>5. after[0] \in Good[0]
  BY <1>2, <1>3
<1>6. \A k \in 1 .. N : after[k - 1] \in Good[k - 1] => after[k] \in Good[k]
  BY <1>3, <1>4
<1> HIDE DEF Good
<1>7. \A k \in 0 .. N : after[k] \in Good[k]
  BY <1>3, <1>5, <1>6, StagesKeep
<1>8. after[N] \in Good[N]
  BY <1>3, <1>7
<1> QED
  BY <1>2, <1>3, <1>8 DEF Good

\* A new game has reached nothing and holds what it starts with.
LEMMA NewGameAccounts ==
    ASSUME NEW x, WorldOk(x), NEW p, NEW g
    PROVE  Accounts(x, p, g, NewGame(x)) /\ Size(NewGame(x)) = 0
<1> DEFINE s == NewGame(x)
<1>1. /\ s.reached = {} /\ s.grants = {} /\ s.st.inv = x.start /\ s.st.souls = 0
      /\ s.st.retractors = x.retractors /\ s.st.keys = {} /\ s.st.regions = {}
  BY DEF NewGame
<1>2. Carried(p, {}) = {} /\ \A K : Carries(p, {}, K) = 0
  BY FS_EmptySet DEF Carries, Carried
<1>3. Cardinality({} \ FillSlots(x)) = 0 /\ Cardinality({}) = 0
  BY FS_EmptySet
<1>4. \A k \in ItemKind : x.start[k] \in Nat
  BY DEF WorldOk
<1>5. x.retractors \in Nat
  BY DEF WorldOk
<1> HIDE DEF s
<1>6. Earned(GadsHeld(s))
  BY <1>1 DEF Earned, GadsHeld
<1>7. x.start["GAD"] <= s.st.inv["GAD"]
  BY <1>1, <1>4, ItemKindsAre
<1>8. \A k \in ItemKind : s.st.inv[k] = x.start[k] + Carries(p, s.reached, OfKind(x, k))
  BY <1>1, <1>2, <1>4
<1>9. s.st.souls = Carries(p, s.reached, OfCategory(x, "soul")) + Cardinality(s.reached \ FillSlots(x))
  BY <1>1, <1>2, <1>3
<1>10. s.st.retractors = x.retractors + Carries(p, s.reached, OfCategory(x, "retractor"))
  BY <1>1, <1>2, <1>5
<1>11. s.st.keys =
          {x.retractorLevel[i] : i \in Carried(p, s.reached) \cap OfCategory(x, "retractor")}
  BY <1>1, <1>2
<1>12. Size(s) = 0
  BY <1>1, <1>3 DEF Size
<1> QED
  BY <1>6, <1>7, <1>8, <1>9, <1>10, <1>11, <1>12 DEF Accounts, s

\* What is reached, open and granted can be counted.
LEMMA SizeIsNat == ASSUME NEW x, WorldOk(x), NEW s \in SimState(x) PROVE Size(s) \in Nat
<1>1. IsFiniteSet(s.reached)
  BY FS_Subset DEF WorldOk, SimState
<1>2. IsFiniteSet(s.st.regions)
  BY FS_Subset, RegionsAreFew DEF SimState, Holding
<1>3. IsFiniteSet(s.grants)
  <2>1. s.grants \in SUBSET Nat /\ \A n \in s.grants : n <= 3
    BY DEF SimState
  <2> QED
    BY <2>1, 3 \in Nat, FS_BoundedSetOfNaturals
<1>4. Cardinality(s.reached) \in Nat /\ Cardinality(s.st.regions) \in Nat
      /\ Cardinality(s.grants) \in Nat
  BY <1>1, <1>2, <1>3, FS_CardinalityType
<1> QED
  BY <1>4 DEF Size

\* A state as large as the bound has reached everything.
LEMMA SizeBound ==
    ASSUME NEW x, WorldOk(x), NEW s \in SimState(x), Size(s) >= SphereBound(x)
    PROVE  s.reached = DOMAIN x.locs
<1>1. IsFiniteSet(DOMAIN x.locs) /\ s.reached \in SUBSET DOMAIN x.locs
  BY DEF WorldOk, SimState
<1>2. s.st.regions \in SUBSET Region
  BY DEF SimState, Holding
<1>3. /\ Cardinality(s.reached) <= Cardinality(DOMAIN x.locs)
      /\ Cardinality(s.reached) = Cardinality(DOMAIN x.locs) => s.reached = DOMAIN x.locs
      /\ Cardinality(s.reached) \in Nat /\ Cardinality(DOMAIN x.locs) \in Nat
  BY <1>1, FS_Subset, FS_CardinalityType
<1>4. /\ Cardinality(s.st.regions) <= Cardinality(Region)
      /\ Cardinality(s.st.regions) \in Nat /\ Cardinality(Region) \in Nat
  BY <1>2, RegionsAreFew, FS_Subset, FS_CardinalityType
<1>5. Cardinality(s.grants) <= 3 /\ Cardinality(s.grants) \in Nat
  <2> DEFINE T == s.grants \cup {0}
  <2>1. s.grants \in SUBSET (1 .. 3)
    BY DEF SimState
  <2>2. T \in SUBSET Nat /\ \A n \in T : n <= 3
    BY <2>1
  <2>3. IsFiniteSet(T) /\ Cardinality(T) <= 3 + 1
    <3> HIDE DEF T
    <3> QED
      BY <2>2, 3 \in Nat, FS_BoundedSetOfNaturals
  <2>4. IsFiniteSet(s.grants)
    BY <2>3, FS_Subset
  <2>5. Cardinality(T) = Cardinality(s.grants) + 1
    <3>1. 0 \notin s.grants
      BY <2>1
    <3> QED
      BY <2>4, <3>1, FS_AddElement
  <2>6. Cardinality(s.grants) \in Nat
    BY <2>4, FS_CardinalityType
  <2> HIDE DEF T
  <2> QED
    BY <2>3, <2>5, <2>6
<1>6. Cardinality(s.reached) + Cardinality(s.st.regions) + Cardinality(s.grants)
        >= Cardinality(DOMAIN x.locs) + Cardinality(Region) + 3
  BY DEF Size, SphereBound
<1> QED
  BY <1>3, <1>4, <1>5, <1>6

\* The simulation goes on until a sphere brings nothing, or all is reached.
LEMMA SimulationEnds ==
    ASSUME NEW x, WorldOk(x), NEW p, FillOk(x, p), NEW g, GadsOk(x, g)
    PROVE  LET s == Simulate(x, p, g)
           IN /\ s \in SimState(x)
              /\ Accounts(x, p, g, s)
              /\ Still(x, p, g, s) \/ s.reached = DOMAIN x.locs
<1> DEFINE N == SphereBound(x)
           Good == [k \in 0 .. N |->
                       {s \in SimState(x) : /\ Accounts(x, p, g, s)
                                            /\ s.progress => Size(s) >= k
                                            /\ ~s.progress => Still(x, p, g, s)}]
<1>1. PICK after : Played(after, x, p, g)
  BY SimulationIs, Zenon DEF GadsOk
<1>2. /\ after[0] = NewGame(x)
      /\ \A k \in 1 .. N : after[k] = IF after[k - 1].progress
                                      THEN Sphere(x, p, g, after[k - 1]) ELSE after[k - 1]
      /\ Simulate(x, p, g) = after[N]
  BY <1>1, Zenon DEF Played
<1>3. N \in Nat
  BY BoundIsNat
<1> HIDE DEF N
<1>4. after[0] \in Good[0]
  <2>1. NewGame(x).progress
    BY DEF NewGame
  <2>2. NewGame(x) \in SimState(x) /\ Accounts(x, p, g, NewGame(x)) /\ Size(NewGame(x)) >= 0
    BY NewGameType, NewGameAccounts
  <2>3. Good[0] = {s \in SimState(x) : /\ Accounts(x, p, g, s)
                                       /\ s.progress => Size(s) >= 0
                                       /\ ~s.progress => Still(x, p, g, s)}
    BY <1>3
  <2> QED
    BY <1>2, <2>1, <2>2, <2>3
<1>5. ASSUME NEW k \in 1 .. N, after[k - 1] \in Good[k - 1]
      PROVE  after[k] \in Good[k]
  <2> DEFINE s == after[k - 1]
             t == after[k]
  <2>1. k - 1 \in 0 .. N /\ k \in 0 .. N
    BY <1>3
  <2>2. s \in SimState(x) /\ Accounts(x, p, g, s)
        /\ (s.progress => Size(s) >= k - 1) /\ (~s.progress => Still(x, p, g, s))
    BY <1>5, <2>1
  <2>3. t = IF s.progress THEN Sphere(x, p, g, s) ELSE s
    BY <1>2
  <2> HIDE DEF s, t
  <2>4. CASE s.progress
    <3>1. t = Sphere(x, p, g, s)
      BY <2>3, <2>4
    <3>2. t \in SimState(x) /\ SphereIs(x, p, g, s, t)
      BY <2>2, <3>1, SphereType DEF GadsOk
    <3>3. Accounts(x, p, g, t)
      BY <2>2, <3>2, SphereAccounts
    <3>4. t.progress => Size(t) >= Size(s) + 1
      BY <2>2, <3>2, SphereGrows
    <3>5. ~t.progress => Still(x, p, g, t)
      BY <2>2, <3>2, SphereSettles
    <3>6. Size(s) \in Nat /\ Size(t) \in Nat
      BY <2>2, <3>2, SizeIsNat
    <3>7. t.progress => Size(t) >= k
      BY <2>1, <2>2, <2>4, <3>4, <3>6
    <3> QED
      BY <2>1, <3>2, <3>3, <3>5, <3>7 DEF t
  <2>5. CASE ~s.progress
    <3>1. t = s
      BY <2>3, <2>5
    <3> QED
      BY <2>1, <2>2, <2>5, <3>1 DEF t
  <2> QED
    BY <2>4, <2>5
<1>6. \A k \in 0 .. N : after[k] \in Good[k]
  <2> HIDE DEF Good
  <2> QED
    BY <1>3, <1>4, <1>5, StagesKeep
<1>7. after[N] \in Good[N] /\ N \in 0 .. N
  BY <1>3, <1>6
<1>8. /\ after[N] \in SimState(x) /\ Accounts(x, p, g, after[N])
      /\ after[N].progress => Size(after[N]) >= N
      /\ ~after[N].progress => Still(x, p, g, after[N])
  BY <1>7
<1>9. after[N].progress => after[N].reached = DOMAIN x.locs
  BY <1>8, SizeBound DEF N
<1> QED
  BY <1>2, <1>8, <1>9

-----------------------------------------------------------------------------
(* Two fills that differ in one slot.                                       *)

\* An item no rule counts.
Inert(x, i) ==
    /\ x.items[i].category \notin {"soul", "retractor"}
    /\ \A k \in ItemKind : k # "SCHEMATIC" \/ x.options.schematic => x.items[i].kind # k

\* q holds what p holds but for slot l, which is free or holds an inert item in p.
SlotChanged(x, p, q, l) ==
    /\ l \in FillSlots(x)
    /\ DOMAIN q = DOMAIN p \cup {l}
    /\ \A y \in DOMAIN p \ {l} : q[y] = p[y]
    /\ l \in DOMAIN p => Inert(x, p[l])

\* A state s has nothing that t does not have, but for what is taken from l, and
\* to take that t lacks nothing but perhaps the night a soul asks for.
Within(x, s, t, l) ==
    /\ s.reached \ {l} \subseteq t.reached
    /\ Below(x.options, s.st, t.st)
    /\ l \in s.reached => /\ x.locs[l].region \in Rules(x, t)
                          /\ Routes(x.options, t.st, Opens(x, t), x.locs[l].expr)

\* What p carries outside l to slots of S, q carries to slots of T.
LEMMA CarriesUp ==
    ASSUME NEW x, WorldOk(x), NEW p, FillOk(x, p), NEW q, FillOk(x, q),
           NEW l, SlotChanged(x, p, q, l), NEW S, NEW T, S \ {l} \subseteq T,
           NEW K, l \in DOMAIN p => p[l] \notin K
    PROVE  /\ Carried(p, S) \cap K \subseteq Carried(q, T) \cap K
           /\ Carries(p, S, K) <= Carries(q, T, K)
<1>1. Carried(p, S) \cap K \subseteq Carried(q, T) \cap K
  BY DEF Carried, SlotChanged
<1>2. IsFiniteSet(Carried(q, T) \cap K)
  BY CarriedFew
<1> QED
  BY <1>1, <1>2, FS_Subset DEF Carries

\* An inert item counts for no rule.
LEMMA InertCounts ==
    ASSUME NEW x, NEW i, Inert(x, i)
    PROVE  /\ \A k \in ItemKind : k # "SCHEMATIC" \/ x.options.schematic => i \notin OfKind(x, k)
           /\ i \notin OfCategory(x, "soul") /\ i \notin OfCategory(x, "retractor")
BY DEF Inert, OfKind, OfCategory

\* A player who holds more has the night the other has.
LEMMA NightUp ==
    ASSUME NEW o, NEW h \in Holding, NEW b \in Holding, Poorer(o, h, b), Night(h)
    PROVE  Night(b)
<1>1. Eclipser \subseteq ItemKind \ {"SCHEMATIC"}
  BY DEF ItemKind, Eclipser
<1>2. \A k \in ItemKind \ {"SCHEMATIC"} :
         h.inv[k] \in Nat /\ b.inv[k] \in Nat /\ h.inv[k] <= b.inv[k]
  BY DEF Holding, Poorer
<1>3. \A k \in ItemKind \ {"SCHEMATIC"} : Has(h, k) => Has(b, k)
  BY <1>2 DEF Has
<1> QED
  BY <1>1, <1>3 DEF Night

\* One sphere of p stays within a state of q that another sphere of q leaves
\* as it is.
LEMMA SphereWithin ==
    ASSUME NEW x, WorldOk(x), NEW p, FillOk(x, p), NEW q, FillOk(x, q), NEW g, GadsOk(x, g),
           NEW l, SlotChanged(x, p, q, l),
           NEW t \in SimState(x), Accounts(x, q, g, t), Still(x, q, g, t),
           NEW s \in SimState(x), Within(x, s, t, l),
           NEW u \in SimState(x), SphereIs(x, p, g, s, u), Accounts(x, p, g, u)
    PROVE  Within(x, u, t, l)
<1> DEFINE o == x.options
<1>1. OptionsOk(o) /\ s.st \in Holding /\ t.st \in Holding /\ Below(o, s.st, t.st)
  BY DEF WorldOk, SimState, Within
<1>2. Opens(x, s) \subseteq Opens(x, t)
  BY <1>1, GatesUp DEF Opens, Below
<1>3. Rules(x, s) \subseteq Rules(x, t)
  BY <1>1, RulesUp DEF Rules, Below
<1>4. Met(x, s) \subseteq t.st.regions
  BY <1>3 DEF Met, Still, Within, Below
<1>5. ASSUME NEW y \in News(x, p, s)
      PROVE  /\ y \in DOMAIN x.locs
             /\ x.locs[y].region \in Rules(x, t)
             /\ Routes(o, t.st, Opens(x, t), x.locs[y].expr)
             /\ y \in DOMAIN p /\ x.items[p[y]].category = "soul"
                  /\ x.locs[y].region \in LivesideRegions => Night(t.st)
  <2>1. y \in DOMAIN x.locs /\ Collectable(x, p, s.st, Rules(x, s), Opens(x, s), y)
    BY DEF News, Found
  <2>2. x.locs[y].region \in Rules(x, t)
    BY <1>3, <2>1 DEF Collectable
  <2>3. Routes(o, s.st, Opens(x, s), x.locs[y].expr)
    BY <2>1 DEF Collectable
  <2>4. Routes(o, t.st, Opens(x, t), x.locs[y].expr)
    BY <1>1, <1>2, <2>1, <2>3, RoutesUp DEF WorldOk
  <2>5. Night(s.st) => Night(t.st)
    BY <1>1, NightUp DEF Below
  <2> QED
    BY <2>1, <2>2, <2>4, <2>5 DEF Collectable
<1>6. News(x, p, s) \ {l} \subseteq t.reached
  <2> SUFFICES ASSUME NEW y \in News(x, p, s), y # l, y \notin t.reached
               PROVE  FALSE
    OBVIOUS
  <2>1. (y \in DOMAIN q <=> y \in DOMAIN p) /\ (y \in DOMAIN p => q[y] = p[y])
    BY DEF SlotChanged
  <2>2. Collectable(x, q, t.st, Rules(x, t), Opens(x, t), y)
    BY <1>5, <2>1 DEF Collectable
  <2>3. y \in News(x, q, t)
    BY <1>5, <2>2 DEF News, Found
  <2> QED
    BY <2>3 DEF Still
<1>7. u.reached = s.reached \cup News(x, p, s)
  BY DEF SphereIs
<1>8. u.reached \ {l} \subseteq t.reached
  BY <1>6, <1>7 DEF Within
<1>9. l \in u.reached => /\ x.locs[l].region \in Rules(x, t)
                         /\ Routes(o, t.st, Opens(x, t), x.locs[l].expr)
  BY <1>5, <1>7 DEF Within
<1>10. u.st.regions \subseteq t.st.regions
  BY <1>4 DEF SphereIs
<1>11. ASSUME NEW K, l \in DOMAIN p => p[l] \notin K
       PROVE  /\ Carried(p, u.reached) \cap K \subseteq Carried(q, t.reached) \cap K
              /\ Carries(p, u.reached, K) <= Carries(q, t.reached, K)
              /\ Carries(p, u.reached, K) \in Nat /\ Carries(q, t.reached, K) \in Nat
  BY <1>8, <1>11, CarriesUp, CarriedFew
<1>12. l \in DOMAIN p =>
          /\ \A k \in ItemKind : k # "SCHEMATIC" \/ o.schematic => p[l] \notin OfKind(x, k)
          /\ p[l] \notin OfCategory(x, "soul") /\ p[l] \notin OfCategory(x, "retractor")
  BY InertCounts DEF SlotChanged
<1>13. u.st.keys \subseteq t.st.keys
  <2>1. Carried(p, u.reached) \cap OfCategory(x, "retractor")
          \subseteq Carried(q, t.reached) \cap OfCategory(x, "retractor")
    BY <1>11, <1>12
  <2> QED
    BY <2>1 DEF Accounts
<1>14. u.st.retractors <= t.st.retractors
  <2>1. /\ Carries(p, u.reached, OfCategory(x, "retractor"))
             <= Carries(q, t.reached, OfCategory(x, "retractor"))
        /\ Carries(p, u.reached, OfCategory(x, "retractor")) \in Nat
        /\ Carries(q, t.reached, OfCategory(x, "retractor")) \in Nat
    BY <1>11, <1>12
  <2>2. x.retractors \in Nat
    BY DEF WorldOk
  <2> QED
    BY <2>1, <2>2 DEF Accounts
<1>15. u.st.souls <= t.st.souls
  <2>1. /\ Carries(p, u.reached, OfCategory(x, "soul"))
             <= Carries(q, t.reached, OfCategory(x, "soul"))
        /\ Carries(p, u.reached, OfCategory(x, "soul")) \in Nat
        /\ Carries(q, t.reached, OfCategory(x, "soul")) \in Nat
    BY <1>11, <1>12
  <2>2. u.reached \ FillSlots(x) \subseteq t.reached \ FillSlots(x)
    BY <1>8 DEF SlotChanged
  <2>3. IsFiniteSet(t.reached \ FillSlots(x)) /\ IsFiniteSet(u.reached \ FillSlots(x))
    <3>1. t.reached \ FillSlots(x) \in SUBSET DOMAIN x.locs
          /\ u.reached \ FillSlots(x) \in SUBSET DOMAIN x.locs
      BY DEF SimState
    <3> QED
      BY <3>1, FS_Subset DEF WorldOk
  <2>4. /\ Cardinality(u.reached \ FillSlots(x)) <= Cardinality(t.reached \ FillSlots(x))
        /\ Cardinality(u.reached \ FillSlots(x)) \in Nat
        /\ Cardinality(t.reached \ FillSlots(x)) \in Nat
    BY <2>2, <2>3, FS_Subset, FS_CardinalityType
  <2> QED
    BY <2>1, <2>4 DEF Accounts
<1>16. ASSUME NEW k \in ItemKind, k # "SCHEMATIC" \/ o.schematic
       PROVE  u.st.inv[k] <= t.st.inv[k]
  <2>1. CASE k # "GAD" \/ g
    <3>1. /\ u.st.inv[k] = x.start[k] + Carries(p, u.reached, OfKind(x, k))
          /\ t.st.inv[k] = x.start[k] + Carries(q, t.reached, OfKind(x, k))
      BY <2>1 DEF Accounts
    <3>2. /\ Carries(p, u.reached, OfKind(x, k)) <= Carries(q, t.reached, OfKind(x, k))
          /\ Carries(p, u.reached, OfKind(x, k)) \in Nat
          /\ Carries(q, t.reached, OfKind(x, k)) \in Nat
      BY <1>11, <1>12, <1>16
    <3>3. x.start[k] \in Nat
      BY DEF WorldOk
    <3> QED
      BY <3>1, <3>2, <3>3
  <2>2. CASE k = "GAD" /\ ~g
    <3>1. OfKind(x, "GAD") = {}
      BY <2>2 DEF GadsOk, OfKind
    <3>2. Carries(p, News(x, p, s), OfKind(x, "GAD")) = 0
      BY <3>1, FS_EmptySet DEF Carries
    <3>3. u.st.inv["GAD"] = Gads(x, g, s).gad + 0
      BY <2>2, <3>2, ItemKindsAre DEF SphereIs, Before
    <3>4. Gads(x, g, s).gad <= Gads(x, g, t).gad
      <4>1. GadsHeld(s) \in GadState /\ GadsHeld(t) \in GadState
        BY GadsType
      <4>2. GadsHeld(s).gad <= GadsHeld(t).gad
        BY <1>1, ItemKindsAre DEF GadsHeld, Below, Poorer
      <4>3. Earned(GadsHeld(t))
        BY DEF Accounts
      <4>4. Met(x, s) \subseteq Met(x, t)
        BY <1>4 DEF Met
      <4>5. Offers(GadsHeld(s), Met(x, s)).gad <= Offers(GadsHeld(t), Met(x, t)).gad
        BY <4>1, <4>2, <4>3, <4>4, OffersUp
      <4> QED
        BY <2>2, <4>5, Zenon DEF Gads
    <3>5. Gads(x, g, t).gad = t.st.inv["GAD"]
      BY DEF Still
    <3>6. Gads(x, g, s).gad \in Nat
      BY GadsType DEF GadState
    <3> QED
      BY <2>2, <3>3, <3>4, <3>5, <3>6
  <2> QED
    BY <2>1, <2>2 DEF GadsOk
<1>17. Below(o, u.st, t.st)
  BY <1>10, <1>13, <1>14, <1>15, <1>16 DEF Below, Poorer
<1> QED
  BY <1>8, <1>9, <1>17 DEF Within

\* So does the whole simulation of p.
LEMMA SimulationWithin ==
    ASSUME NEW x, WorldOk(x), NEW p, FillOk(x, p), NEW q, FillOk(x, q), NEW g, GadsOk(x, g),
           NEW l, SlotChanged(x, p, q, l),
           NEW t \in SimState(x), Accounts(x, q, g, t), Still(x, q, g, t)
    PROVE  Within(x, Simulate(x, p, g), t, l)
<1> DEFINE G == {s \in SimState(x) : Accounts(x, p, g, s) /\ Within(x, s, t, l)}
<1>1. NewGame(x) \in G
  <2> DEFINE s == NewGame(x)
  <2>1. s \in SimState(x) /\ Accounts(x, p, g, s)
    BY NewGameType, NewGameAccounts
  <2>2. /\ s.reached = {} /\ s.st.inv = x.start /\ s.st.souls = 0
        /\ s.st.retractors = x.retractors /\ s.st.keys = {} /\ s.st.regions = {}
    BY DEF NewGame
  <2> HIDE DEF s
  <2>3. \A k \in ItemKind : x.start[k] <= t.st.inv[k]
    <3> SUFFICES ASSUME NEW k \in ItemKind
                 PROVE  x.start[k] <= t.st.inv[k]
      OBVIOUS
    <3>1. x.start[k] \in Nat /\ Carries(q, t.reached, OfKind(x, k)) \in Nat
      BY CarriedFew DEF WorldOk
    <3> QED
      BY <3>1 DEF Accounts
  <2>4. 0 <= t.st.souls
    BY DEF SimState, Holding
  <2>5. x.retractors <= t.st.retractors
    <3>1. x.retractors \in Nat /\ Carries(q, t.reached, OfCategory(x, "retractor")) \in Nat
      BY CarriedFew DEF WorldOk
    <3> QED
      BY <3>1 DEF Accounts
  <2>6. Within(x, s, t, l)
    BY <2>2, <2>3, <2>4, <2>5 DEF Within, Below, Poorer
  <2> QED
    BY <2>1, <2>6 DEF s
<1>2. ASSUME NEW s \in G
      PROVE  Sphere(x, p, g, s) \in G
  <2> DEFINE u == Sphere(x, p, g, s)
  <2>1. u \in SimState(x) /\ SphereIs(x, p, g, s, u)
    BY SphereType DEF GadsOk
  <2> HIDE DEF u
  <2>2. Accounts(x, p, g, u)
    BY <2>1, SphereAccounts
  <2>3. Within(x, u, t, l)
    BY <2>1, <2>2, SphereWithin
  <2> QED
    BY <2>1, <2>2, <2>3 DEF u
<1>3. Simulate(x, p, g) \in G
  <2> HIDE DEF G
  <2> QED
    BY <1>1, <1>2, SimulationKeeps DEF GadsOk
<1> QED
  BY <1>3

\* What p keeps reachable q keeps reachable, its own slot l included.
LEMMA ChangeReaches ==
    ASSUME NEW x, WorldOk(x), NEW p, FillOk(x, p), NEW q, FillOk(x, q), NEW g, GadsOk(x, g),
           NEW l, SlotChanged(x, p, q, l),
           DOMAIN p \cup {l} \subseteq Simulate(x, p, g).reached,
           x.items[q[l]].category = "soul" /\ x.locs[l].region \in LivesideRegions =>
               Night(Simulate(x, p, g).st)
    PROVE  DOMAIN q \subseteq Simulate(x, q, g).reached
<1> DEFINE s == Simulate(x, p, g)
           t == Simulate(x, q, g)
<1>1. t \in SimState(x) /\ Accounts(x, q, g, t)
      /\ (Still(x, q, g, t) \/ t.reached = DOMAIN x.locs)
  BY SimulationEnds
<1>2. s \in SimState(x)
  BY SimulationEnds
<1>3. DOMAIN q = DOMAIN p \cup {l} /\ DOMAIN q \subseteq DOMAIN x.locs
  BY DEF SlotChanged, FillOk, FillSlots
<1>4. CASE t.reached = DOMAIN x.locs
  BY <1>3, <1>4
<1>5. CASE Still(x, q, g, t)
  <2>1. Within(x, s, t, l)
    <3> HIDE DEF t
    <3> QED
      BY <1>1, <1>5, SimulationWithin
  <2> HIDE DEF s, t
  <2>2. DOMAIN p \cup {l} \subseteq s.reached
    BY DEF s
  <2>3. DOMAIN p \ {l} \subseteq t.reached
    BY <2>1, <2>2 DEF Within
  <2>4. l \in t.reached
    <3> SUFFICES ASSUME l \notin t.reached
                 PROVE  FALSE
      OBVIOUS
    <3>1. /\ x.locs[l].region \in Rules(x, t)
          /\ Routes(x.options, t.st, Opens(x, t), x.locs[l].expr)
      BY <2>1, <2>2 DEF Within
    <3>2. Night(s.st) => Night(t.st)
      <4>1. OptionsOk(x.options) /\ s.st \in Holding /\ t.st \in Holding
            /\ Below(x.options, s.st, t.st)
        BY <1>1, <1>2, <2>1 DEF WorldOk, SimState, Within
      <4> QED
        BY <4>1, NightUp DEF Below
    <3>3. Collectable(x, q, t.st, Rules(x, t), Opens(x, t), l)
      BY <3>1, <3>2 DEF Collectable, s
    <3>4. l \in News(x, q, t)
      BY <1>3, <3>3 DEF News, Found
    <3> QED
      BY <1>5, <3>4 DEF Still
  <2> QED
    BY <1>3, <2>3, <2>4 DEF t
<1> QED
  BY <1>1, <1>4, <1>5

-----------------------------------------------------------------------------
(* Whatever is placed stays reachable.                                      *)

\* The assumptions on worlds are those of the simulation.
LEMMA WorldIsOk ==
    ASSUME w \in Worlds
    PROVE  WorldOk(w) /\ GadsOk(w, w.gadItems)
<1>1. WorldOk(w)
  BY WorldsAssumption, WorldTypes DEF WorldOk, OptionsOk
<1>2. GadsOk(w, w.gadItems)
  BY WorldTypes DEF GadsOk
<1> QED
  BY <1>1, <1>2

\* A settled placement can be played.
LEMMA PlacementIsOk == ASSUME Settled PROVE FillOk(w, placement)
BY DEF Settled, FillOk, Slots, PlacedItems, AllItems

\* A neutral item is one no rule asks for.
LEMMA NeutralIsInert ==
    ASSUME w \in Worlds, NEW i \in AllItems, Neutral(i)
    PROVE  Inert(w, i)
<1>1. /\ w.items[i].category \in {"weapon", "lore", "bonus"}
      /\ ~(w.options.schematic /\ w.items[i].kind = "SCHEMATIC")
  BY DEF Neutral, Category
<1>2. w.items[i].kind \notin ItemKind \ {"SCHEMATIC"}
  BY <1>1, WorldTypes DEF AllItems
<1> QED
  BY <1>1, <1>2 DEF Inert

\* The placement with item i in slot l.
PlacedAt(i, l) ==
    [y \in DOMAIN placement \cup {l} |-> IF y = l THEN i ELSE placement[y]]

\* An item put in a slot it fits leaves every slot reachable.
LEMMA FitReaches ==
    ASSUME Settled, PlacedStaysReachable, NEW i \in AllItems \ PlacedItems, NEW l \in Slots,
           Fits(i, l, Simulate(w, placement, w.gadItems)),
           l \in DOMAIN placement => Neutral(placement[l])
    PROVE  DOMAIN PlacedAt(i, l) \subseteq Simulate(w, PlacedAt(i, l), w.gadItems).reached
<1> DEFINE sim == Simulate(w, placement, w.gadItems)
           q == PlacedAt(i, l)
<1>1. WorldOk(w) /\ GadsOk(w, w.gadItems) /\ FillOk(w, placement)
  BY WorldIsOk, PlacementIsOk DEF Settled
<1>2. DOMAIN q = DOMAIN placement \cup {l} /\ q[l] = i
      /\ \A y \in DOMAIN placement \ {l} : q[y] = placement[y]
  BY DEF PlacedAt
<1> HIDE DEF q
<1>3. \A y \in DOMAIN placement : placement[y] # i
  BY DEF PlacedItems
<1>4. FillOk(w, q)
  <2>1. DOMAIN q \subseteq FillSlots(w)
    BY <1>1, <1>2 DEF FillOk, Slots
  <2>2. \A y \in DOMAIN q : q[y] \in DOMAIN w.items
    BY <1>1, <1>2 DEF FillOk, AllItems
  <2>3. \A y, z \in DOMAIN q : q[y] = q[z] => y = z
    BY <1>1, <1>2, <1>3 DEF FillOk
  <2> QED
    BY <2>1, <2>2, <2>3 DEF FillOk
<1>5. SlotChanged(w, placement, q, l)
  <2>1. l \in DOMAIN placement => Inert(w, placement[l])
    BY NeutralIsInert DEF Settled, PlacedItems
  <2> QED
    BY <1>2, <2>1 DEF SlotChanged, Slots
<1>6. DOMAIN placement \cup {l} \subseteq sim.reached
  BY DEF PlacedStaysReachable, Fits
<1>7. w.items[q[l]].category = "soul" /\ w.locs[l].region \in LivesideRegions => Night(sim.st)
  <2>1. LivesideOk(i, l, sim.st)
    BY DEF Fits
  <2> HIDE DEF sim
  <2> QED
    BY <1>2, <2>1 DEF LivesideOk, Category, RegionOf
<1>8. DOMAIN q \subseteq Simulate(w, q, w.gadItems).reached
  BY <1>1, <1>4, <1>5, <1>6, <1>7, ChangeReaches
<1> QED
  BY <1>8 DEF q

\* So placing the item in hand does,
LEMMA PlaceReaches ==
    ASSUME Settled, PlacedStaysReachable, NEW i \in AllItems \ PlacedItems, NEW q,
           Place(i, q, Candidates(i, Simulate(w, placement, w.gadItems))), w' = w
    PROVE  PlacedStaysReachable'
<1>1. PICK l \in Candidates(i, Simulate(w, placement, w.gadItems)) : placement' = PlacedAt(i, l)
  BY DEF Place, PlacedAt
<1>2. /\ l \in Slots \ DOMAIN placement
      /\ Fits(i, l, Simulate(w, placement, w.gadItems))
  BY DEF Candidates
<1>3. DOMAIN PlacedAt(i, l) \subseteq Simulate(w, PlacedAt(i, l), w.gadItems).reached
  BY <1>2, FitReaches
<1> QED
  BY <1>1, <1>3 DEF PlacedStaysReachable

\* and placing it in place of another,
LEMMA DisplaceReaches ==
    ASSUME Settled, PlacedStaysReachable, NEW i \in AllItems \ PlacedItems, NEW q, NEW free,
           Displace(i, q, free, Victims(i, Simulate(w, placement, w.gadItems))), w' = w
    PROVE  PlacedStaysReachable'
<1> DEFINE sim == Simulate(w, placement, w.gadItems)
<1>1. PICK l \in Victims(i, sim) : placement' = [placement EXCEPT ![l] = i]
  BY DEF Displace
<1>2. l \in NeutralVictims(i, sim) \/ l \in LogicVictims(i, sim)
  BY <1>1, Zenon DEF Victims
<1>3. CASE l \in LogicVictims(i, sim)
  <2>1. DOMAIN placement' \subseteq Simulate(w, placement', w.gadItems).reached
    BY <1>1, <1>3 DEF LogicVictims
  <2> QED
    BY <2>1 DEF PlacedStaysReachable
<1>4. CASE l \in NeutralVictims(i, sim)
  <2>1. l \in DOMAIN placement /\ Neutral(placement[l]) /\ Fits(i, l, sim)
    BY <1>4 DEF NeutralVictims, Displaceable
  <2>2. l \in Slots
    BY <2>1 DEF Settled
  <2>3. placement' = PlacedAt(i, l)
    <3>1. [placement EXCEPT ![l] = i] =
             [y \in DOMAIN placement |-> IF y = l THEN i ELSE placement[y]]
      OBVIOUS
    <3>2. DOMAIN placement \cup {l} = DOMAIN placement
      BY <2>1
    <3> QED
      BY <1>1, <3>1, <3>2 DEF PlacedAt
  <2>4. DOMAIN PlacedAt(i, l) \subseteq Simulate(w, PlacedAt(i, l), w.gadItems).reached
    BY <2>1, <2>2, FitReaches
  <2> QED
    BY <2>3, <2>4 DEF PlacedStaysReachable
<1> QED
  BY <1>2, <1>3, <1>4

\* An empty placement has no slot to reach.
LEMMA NothingPlacedReaches == placement = << >> => PlacedStaysReachable
BY DEF PlacedStaysReachable

\* and with them the sweep.
LEMMA SweepReaches == ASSUME Kept, PlacedStaysReachable, Sweep PROVE PlacedStaysReachable'
<1> DEFINE sim == Simulate(w, placement, w.gadItems)
<1>1. PICK i \in NextItems : \E j \in Turn(i, Without(i), sim) :
         Attempt(j, Behind(i, j), Candidates(j, sim), Victims(j, sim))
  BY Zenon DEF Sweep, Behind
<1>2. PICK j \in Turn(i, Without(i), sim) :
         Attempt(j, Behind(i, j), Candidates(j, sim), Victims(j, sim))
  BY <1>1
<1>3. j \in AllItems \ PlacedItems
  <2> HIDE DEF sim
  <2>1. InHand(j, Behind(i, j))
    BY TurnTakesOne
  <2> QED
    BY <2>1 DEF InHand
<1>4. Settled /\ w' = w
  BY DEF Kept, Sweep
<1>5. CASE Place(j, Behind(i, j), Candidates(j, sim))
  BY <1>3, <1>4, <1>5, PlaceReaches
<1>6. CASE Displace(j, Behind(i, j), Candidates(j, sim), Victims(j, sim))
  BY <1>3, <1>4, <1>6, DisplaceReaches
<1>7. CASE placement' = placement
  BY <1>4, <1>7 DEF PlacedStaysReachable
<1> QED
  BY <1>2, <1>5, <1>6, <1>7, Zenon DEF Attempt, Defer, NoSlot

\* Every step keeps what is placed reachable.
LEMMA NextReaches ==
    ASSUME Kept, PlacedStaysReachable, [Next]_vars
    PROVE  PlacedStaysReachable'
<1>1. CASE Sweep
  BY <1>1, SweepReaches
<1>2. CASE w' = w /\ placement' = placement
  BY <1>2 DEF PlacedStaysReachable
<1>3. CASE placement' = << >>
  BY <1>3 DEF PlacedStaysReachable
<1> QED
  BY <1>1, <1>2, <1>3 DEF Next, SweepDone, FillFiller, Validate, StartFill, vars

\* In every world and at every step of the sweep, whatever was displaced, the
\* player can reach every slot that holds an item: a free slot is given away only
\* when it is reachable itself, an item a rule may ask for gives its slot away
\* only when a trial leaves all else reachable, and others no rule asks for.
THEOREM PlacedIsReachable == Spec => []PlacedStaysReachable
<1>1. Init => Kept /\ PlacedStaysReachable
  BY InitKept, NothingPlacedReaches DEF Init
<1>2. Kept /\ PlacedStaysReachable /\ [Next]_vars => Kept' /\ PlacedStaysReachable'
  BY NextKept, NextReaches
<1> QED
  BY <1>1, <1>2, PTL DEF Spec

-----------------------------------------------------------------------------
(* The player who walks the graph.                                          *)

Prefixes(seen) == {n \in 1 .. 3 : \A m \in 1 .. n : Temple[m] \in seen}

\* The prefixes of the temples that are seen are finitely many.
LEMMA PrefixesFew ==
    ASSUME NEW seen
    PROVE  IsFiniteSet(Prefixes(seen)) /\ Cardinality(Prefixes(seen)) \in 0 .. 3
<1>1. IsFiniteSet(1 .. 3) /\ Cardinality(1 .. 3) = 3
  <2>1. 1 \in Int /\ 3 \in Int /\ ~(1 > 3) /\ 3 - 1 + 1 = 3
    OBVIOUS
  <2>2. IsFiniteSet(1 .. 3) /\ Cardinality(1 .. 3) = IF 1 > 3 THEN 0 ELSE 3 - 1 + 1
    BY <2>1, FS_Interval, Zenon
  <2> QED
    BY <2>1, <2>2
<1>2. Prefixes(seen) \subseteq 1 .. 3
  BY DEF Prefixes
<1>3. IsFiniteSet(Prefixes(seen)) /\ Cardinality(Prefixes(seen)) <= 3
  BY <1>1, <1>2, FS_Subset
<1>4. Cardinality(Prefixes(seen)) \in Nat
  BY <1>3, FS_CardinalityType
<1> QED
  BY <1>3, <1>4

\* The temples give three gad powers at most, and no fewer to one who sees more.
LEMMA TempleGadsUp ==
    ASSUME NEW seen, NEW wider, seen \subseteq wider
    PROVE  TempleGads(seen) \in 0 .. 3 /\ TempleGads(seen) <= TempleGads(wider)
<1>1. Prefixes(seen) \subseteq Prefixes(wider)
  BY DEF Prefixes
<1>2. Cardinality(Prefixes(seen)) <= Cardinality(Prefixes(wider))
  BY <1>1, PrefixesFew, FS_Subset
<1>3. Cardinality(Prefixes(seen)) \in 0 .. 3
  BY PrefixesFew
<1>4. CASE w.gadItems
  BY <1>4 DEF TempleGads
<1>5. CASE ~w.gadItems
  BY <1>2, <1>3, <1>5 DEF TempleGads, Prefixes
<1> QED
  BY <1>4, <1>5

\* One who sees the first n temples has n of them.
LEMMA TempleGadsReach ==
    ASSUME ~w.gadItems, NEW seen, NEW n \in 1 .. 3, \A m \in 1 .. n : Temple[m] \in seen
    PROVE  n <= TempleGads(seen)
<1>1. 1 .. n \subseteq Prefixes(seen)
  BY DEF Prefixes
<1>2. Cardinality(1 .. n) = n
  <2>1. 1 \in Int /\ n \in Int /\ ~(1 > n) /\ n - 1 + 1 = n
    OBVIOUS
  <2>2. Cardinality(1 .. n) = IF 1 > n THEN 0 ELSE n - 1 + 1
    BY <2>1, FS_Interval, Zenon
  <2> QED
    BY <2>1, <2>2
<1>3. Cardinality(1 .. n) <= Cardinality(Prefixes(seen))
  BY <1>1, PrefixesFew, FS_Subset
<1> QED
  BY <1>2, <1>3 DEF TempleGads, Prefixes

\* The gad powers after one, two and three walks.
Gads1(got) == TempleGads(Seen(got, 0))
Gads2(got) == TempleGads(Seen(got, Gads1(got)))
Gads3(got) == TempleGads(Seen(got, Gads2(got)))

\* The inventory is what is held with the gad powers of three walks.
LEMMA InventoryIs ==
    ASSUME NEW got
    PROVE  Inventory(got) = [Held(got, Gads3(got)) EXCEPT !.regions = Seen(got, Gads3(got))]
<1> DEFINE G(f) == [n \in 0 .. 3 |-> IF n = 0 THEN 0 ELSE TempleGads(Seen(got, f[n - 1]))]
           gads == CHOOSE f : f = G(f)
<1>1. \E f : f = G(f)
  <2> DEFINE f == [n \in 0 .. 3 |-> CASE n = 0 -> 0 [] n = 1 -> Gads1(got)
                                      [] n = 2 -> Gads2(got) [] OTHER -> Gads3(got)]
  <2>1. f[0] = 0 /\ f[1] = Gads1(got) /\ f[2] = Gads2(got) /\ f[3] = Gads3(got)
    OBVIOUS
  <2>2. \A n \in 0 .. 3 : n = 0 \/ n = 1 \/ n = 2 \/ n = 3
    OBVIOUS
  <2>3. f = [n \in 0 .. 3 |-> f[n]] /\ G(f) = [n \in 0 .. 3 |-> G(f)[n]]
    OBVIOUS
  <2> HIDE DEF f
  <2>4. /\ G(f)[0] = 0 /\ G(f)[1] = TempleGads(Seen(got, f[0]))
        /\ G(f)[2] = TempleGads(Seen(got, f[1])) /\ G(f)[3] = TempleGads(Seen(got, f[2]))
    OBVIOUS
  <2> HIDE DEF G
  <2>5. G(f)[1] = Gads1(got) /\ G(f)[2] = Gads2(got) /\ G(f)[3] = Gads3(got)
    BY <2>1, <2>4 DEF Gads1, Gads2, Gads3
  <2>6. \A n \in 0 .. 3 : f[n] = G(f)[n]
    BY <2>1, <2>2, <2>4, <2>5
  <2>7. f = G(f)
    BY <2>3, <2>6
  <2> QED
    BY <2>7
<1>2. gads = G(gads)
  <2> HIDE DEF G
  <2> QED
    BY <1>1
<1>3. Inventory(got) = [Held(got, gads[3]) EXCEPT !.regions = Seen(got, gads[3])]
  BY Zenon DEF Inventory
<1> HIDE DEF gads
<1>4. /\ gads[0] = 0 /\ gads[1] = TempleGads(Seen(got, gads[0]))
      /\ gads[2] = TempleGads(Seen(got, gads[1])) /\ gads[3] = TempleGads(Seen(got, gads[2]))
  BY <1>2
<1>5. gads[3] = Gads3(got)
  BY <1>4 DEF Gads1, Gads2, Gads3
<1> QED
  BY <1>3, <1>5

\* What the locations got gave, counted as the simulation counts.
HeldIs(h, got, gads) ==
    /\ \A k \in ItemKind :
          h.inv[k] = w.start[k] + Carries(placement, got, OfKind(w, k))
                     + IF k = "GAD" THEN gads ELSE 0
    /\ h.souls = Carries(placement, got, OfCategory(w, "soul"))
                 + Cardinality(got \ FillSlots(w))
    /\ h.retractors = w.retractors + Carries(placement, got, OfCategory(w, "retractor"))
    /\ h.keys = {w.retractorLevel[i] :
                    i \in Carried(placement, got) \cap OfCategory(w, "retractor")}

\* The counts of what is held.
LEMMA HeldType ==
    ASSUME WorldOk(w), FillOk(w, placement), NEW got \in SUBSET DOMAIN w.locs, NEW gads \in Nat
    PROVE  /\ Held(got, gads) \in Holding
           /\ HeldIs(Held(got, gads), got, gads)
           /\ Held(got, gads).regions = {}
<1> DEFINE items == {placement[l] : l \in got \cap DOMAIN placement}
           of(c) == {i \in items : Category(i) = c}
           kind(k) == {i \in items : w.items[i].kind = k}
           h == [inv |-> [k \in ItemKind |-> w.start[k] + Cardinality(kind(k))
                                             + IF k = "GAD" THEN gads ELSE 0],
                 souls |-> Cardinality(of("soul")) + Cardinality(got \ Slots),
                 retractors |-> w.retractors + Cardinality(of("retractor")),
                 keys |-> {w.retractorLevel[i] : i \in of("retractor")},
                 regions |-> {}]
<1>1. Held(got, gads) = h
  BY Zenon DEF Held
<1>2. items = Carried(placement, got) /\ items \subseteq DOMAIN w.items
  BY CarriedFew DEF Carried
<1>3. \A c : of(c) = Carried(placement, got) \cap OfCategory(w, c)
  BY <1>2 DEF OfCategory, Category
<1>4. \A k : kind(k) = Carried(placement, got) \cap OfKind(w, k)
  BY <1>2 DEF OfKind
<1> HIDE DEF items, of, kind
<1>5. \A k \in ItemKind : /\ Cardinality(kind(k)) = Carries(placement, got, OfKind(w, k))
                          /\ Cardinality(kind(k)) \in Nat
  BY <1>4, CarriedFew DEF Carries
<1>6. \A c : /\ Cardinality(of(c)) = Carries(placement, got, OfCategory(w, c))
             /\ Cardinality(of(c)) \in Nat
  BY <1>3, CarriedFew DEF Carries
<1>7. Cardinality(got \ Slots) \in Nat
  <2>1. got \ Slots \subseteq DOMAIN w.locs
    OBVIOUS
  <2> QED
    BY <2>1, FS_Subset, FS_CardinalityType DEF WorldOk
<1>8. h.keys \subseteq Liveside
  <2>1. of("retractor") \subseteq DOMAIN w.items
    BY <1>2, <1>3
  <2> QED
    BY <2>1 DEF WorldOk
<1>9. h.inv \in [ItemKind -> Nat]
  BY <1>5 DEF WorldOk
<1>10. h.souls \in Nat /\ h.retractors \in Nat
  BY <1>6, <1>7 DEF WorldOk
<1>11. h \in Holding
  BY <1>8, <1>9, <1>10 DEF Holding
<1>12. HeldIs(h, got, gads)
  <2>1. \A k \in ItemKind :
          h.inv[k] = w.start[k] + Carries(placement, got, OfKind(w, k))
                     + IF k = "GAD" THEN gads ELSE 0
    BY <1>5
  <2>2. h.souls = Carries(placement, got, OfCategory(w, "soul"))
                 + Cardinality(got \ FillSlots(w))
    BY <1>6 DEF Slots
  <2>3. h.retractors = w.retractors + Carries(placement, got, OfCategory(w, "retractor"))
    BY <1>6
  <2>4. h.keys = {w.retractorLevel[i] :
                    i \in Carried(placement, got) \cap OfCategory(w, "retractor")}
    BY <1>3
  <2> QED
    BY <2>1, <2>2, <2>3, <2>4, Zenon DEF HeldIs
<1> QED
  BY <1>1, <1>11, <1>12

\* Without shuffled entrances the walk and the rules agree.
LEMMA SeenIsRules ==
    ASSUME NEW got, NEW gads
    PROVE  Seen(got, gads) = LevelRules(w.options, Unshuffled, Held(got, gads))
<1>1. Entrances(Unshuffled, SamePlace)
  BY DEF Entrances
<1> QED
  BY <1>1, WalkWithinRules, RulesWithinWalk DEF Seen

\* With more gad powers he sees no less.
LEMMA SeenUp ==
    ASSUME WorldOk(w), FillOk(w, placement), NEW got \in SUBSET DOMAIN w.locs,
           NEW few \in Nat, NEW more \in Nat, few <= more
    PROVE  Seen(got, few) \subseteq Seen(got, more)
<1> DEFINE h == Held(got, few)
           b == Held(got, more)
<1>1. h \in Holding /\ b \in Holding /\ HeldIs(h, got, few) /\ HeldIs(b, got, more)
  BY HeldType
<1> HIDE DEF h, b
<1>2. \A k \in ItemKind : h.inv[k] <= b.inv[k]
  <2> SUFFICES ASSUME NEW k \in ItemKind
               PROVE  h.inv[k] <= b.inv[k]
    OBVIOUS
  <2>1. w.start[k] \in Nat /\ Carries(placement, got, OfKind(w, k)) \in Nat
    BY CarriedFew DEF WorldOk
  <2> QED
    BY <1>1, <2>1 DEF HeldIs
<1>3. h.souls = b.souls /\ h.retractors = b.retractors /\ h.keys = b.keys
  BY <1>1 DEF HeldIs
<1>4. h.souls \in Nat /\ h.retractors \in Nat
  BY <1>1 DEF Holding
<1>5. Poorer(w.options, h, b)
  BY <1>2, <1>3, <1>4 DEF Poorer
<1>6. LevelRules(w.options, Unshuffled, h) \subseteq LevelRules(w.options, Unshuffled, b)
  BY <1>1, <1>5, RulesUp DEF WorldOk
<1> QED
  BY <1>6, SeenIsRules DEF h, b

\* After three walks no temple is left that would give him another.
LEMMA GadsSettle ==
    ASSUME WorldOk(w), FillOk(w, placement), NEW got \in SUBSET DOMAIN w.locs
    PROVE  /\ Gads3(got) \in 0 .. 3
           /\ TempleGads(Seen(got, Gads3(got))) <= Gads3(got)
<1> DEFINE t == [n \in 0 .. 3 |-> TempleGads(Seen(got, n))]
<1>1. \A n : TempleGads(Seen(got, n)) \in 0 .. 3
  BY TempleGadsUp
<1>2. \A m, n \in 0 .. 3 : m <= n => TempleGads(Seen(got, m)) <= TempleGads(Seen(got, n))
  BY SeenUp, TempleGadsUp
<1>3. t \in [0 .. 3 -> 0 .. 3] /\ \A m, n \in 0 .. 3 : m <= n => t[m] <= t[n]
  BY <1>1, <1>2
<1>4. Gads1(got) \in 0 .. 3 /\ Gads2(got) \in 0 .. 3 /\ Gads3(got) \in 0 .. 3
  BY <1>1 DEF Gads1, Gads2, Gads3
<1>5. /\ Gads1(got) = t[0] /\ Gads2(got) = t[Gads1(got)] /\ Gads3(got) = t[Gads2(got)]
      /\ TempleGads(Seen(got, Gads3(got))) = t[Gads3(got)]
  BY <1>4 DEF Gads1, Gads2, Gads3
<1> HIDE DEF t
<1>6. Gads1(got) <= Gads2(got)
  BY <1>3, <1>4, <1>5
<1>7. Gads2(got) <= Gads3(got)
  BY <1>3, <1>4, <1>5, <1>6
<1>8. t[Gads3(got)] <= Gads3(got)
  <2> SUFFICES ASSUME t[Gads3(got)] > Gads3(got)
               PROVE  FALSE
    BY <1>3, <1>4
  <2>1. Gads3(got) # Gads2(got)
    BY <1>4, <1>5
  <2>2. Gads2(got) # Gads1(got)
    BY <1>4, <1>5, <2>1
  <2>3. Gads1(got) # 0
    BY <1>4, <1>5, <2>2
  <2>4. Gads3(got) = 3
    BY <1>4, <1>6, <1>7, <2>1, <2>2, <2>3
  <2> QED
    BY <1>3, <2>4
<1> QED
  BY <1>4, <1>5, <1>8

\* The inventory: what is held, and where it lets him walk.
LEMMA InventoryType ==
    ASSUME WorldOk(w), FillOk(w, placement), NEW got \in SUBSET DOMAIN w.locs
    PROVE  /\ Inventory(got) \in Holding
           /\ HeldIs(Inventory(got), got, Gads3(got))
           /\ Inventory(got).regions = Seen(got, Gads3(got))
           /\ \A h : Poorer(w.options, h, Inventory(got)) =>
                        Poorer(w.options, h, Held(got, Gads3(got)))
<1> DEFINE h == Held(got, Gads3(got))
           seen == Seen(got, Gads3(got))
           b == Inventory(got)
<1>1. b = [h EXCEPT !.regions = seen]
  BY InventoryIs
<1>2. Gads3(got) \in Nat
  BY GadsSettle
<1>3. h \in Holding /\ HeldIs(h, got, Gads3(got))
  BY <1>2, HeldType
<1>4. seen \subseteq Region
  BY SeenIsRules, RulesAre DEF LevelRules
<1> HIDE DEF h, seen, b
<1>5. /\ b.inv = h.inv /\ b.souls = h.souls /\ b.retractors = h.retractors /\ b.keys = h.keys
      /\ b.regions = seen
  BY <1>1, <1>3 DEF Holding
<1>6. b \in Holding
  BY <1>1, <1>3, <1>4 DEF Holding
<1>7. HeldIs(b, got, Gads3(got))
  BY <1>3, <1>5 DEF HeldIs
<1>8. \A x : Poorer(w.options, x, b) => Poorer(w.options, x, h)
  BY <1>5 DEF Poorer
<1> QED
  BY <1>5, <1>6, <1>7, <1>8 DEF h, seen, b

\* What can be taken is not taken yet.
LEMMA CanTakeIs == ASSUME NEW got PROVE CanTake(got) \subseteq DOMAIN w.locs \ got
BY DEF CanTake

\* He takes one location after another until there is none left to take.
LEMMA CollectedCloses ==
    ASSUME WorldOk(w)
    PROVE  Collected \in SUBSET DOMAIN w.locs /\ CanTake(Collected) = {}
<1> DEFINE S == SUBSET DOMAIN w.locs
           N == Cardinality(DOMAIN w.locs)
           one(s) == IF CanTake(s) = {} THEN s ELSE s \cup {CHOOSE l \in CanTake(s) : TRUE}
           F == [s \in S |-> one(s)]
           G(f) == [k \in 0 .. N |-> IF k = 0 THEN {} ELSE one(f[k - 1])]
           got == CHOOSE f : f = G(f)
           Good == [k \in 0 .. N |-> {s \in S : CanTake(s) = {} \/ Cardinality(s) >= k}]
<1>1. \A s \in S : one(s) \in S
  BY CanTakeIs
<1>2. N \in Nat /\ IsFiniteSet(DOMAIN w.locs)
  BY FS_CardinalityType DEF WorldOk
<1>3. \E f : f = G(f)
  <2> HIDE DEF S, N, one
  <2>1. F \in [S -> S] /\ {} \in S
    BY <1>1 DEF S
  <2> HIDE DEF F
  <2>2. PICK f : Iteration(f, S, F, {}, N)
    BY <1>2, <2>1, Iterates
  <2>3. f \in [0 .. N -> S] /\ f[0] = {} /\ \A k \in 1 .. N : f[k] = F[f[k - 1]]
    BY <2>2 DEF Iteration
  <2>4. \A k \in 1 .. N : f[k - 1] \in S
    BY <1>2, <2>3
  <2>5. \A k \in 1 .. N : f[k] = one(f[k - 1])
    BY <2>3, <2>4 DEF F
  <2>6. \A k \in 0 .. N : f[k] = G(f)[k]
    <3>1. f[0] = G(f)[0]
      BY <1>2, <2>3
    <3>2. \A k \in 1 .. N : f[k] = G(f)[k]
      BY <1>2, <2>5
    <3>3. \A k \in 0 .. N : k = 0 \/ k \in 1 .. N
      BY <1>2
    <3> HIDE DEF G
    <3> QED
      BY <3>1, <3>2, <3>3
  <2>7. f = G(f)
    BY <2>3, <2>6
  <2> QED
    BY <2>7
<1>4. got = G(got)
  <2> HIDE DEF G
  <2> QED
    BY <1>3
<1>5. Collected = got[N]
  BY Zenon DEF Collected
<1> HIDE DEF got, N, one
<1>6. got[0] = {}
  BY <1>2, <1>4
<1>7. \A k \in 1 .. N : got[k] = one(got[k - 1])
  <2> SUFFICES ASSUME NEW k \in 1 .. N
               PROVE  got[k] = one(got[k - 1])
    OBVIOUS
  <2>1. k \in 0 .. N /\ k # 0
    BY <1>2
  <2>2. G(got)[k] = one(got[k - 1])
    BY <2>1
  <2> HIDE DEF G
  <2> QED
    BY <1>4, <2>2
<1>8. got[0] \in Good[0]
  <2>1. Cardinality({}) = 0
    BY FS_EmptySet
  <2> QED
    BY <1>2, <1>6, <2>1
<1>9. \A k \in 1 .. N : got[k - 1] \in Good[k - 1] => got[k] \in Good[k]
  <2> SUFFICES ASSUME NEW k \in 1 .. N, got[k - 1] \in Good[k - 1]
               PROVE  got[k] \in Good[k]
    OBVIOUS
  <2> DEFINE s == got[k - 1]
  <2>1. s \in S /\ (CanTake(s) = {} \/ Cardinality(s) >= k - 1)
    BY <1>2
  <2>2. got[k] = one(s)
    BY <1>7
  <2> HIDE DEF s
  <2>3. CASE CanTake(s) = {}
    BY <1>2, <2>1, <2>2, <2>3 DEF one
  <2>4. CASE CanTake(s) # {}
    <3> DEFINE l == CHOOSE x \in CanTake(s) : TRUE
    <3>1. l \in CanTake(s)
      BY <2>4
    <3>2. l \in DOMAIN w.locs \ s
      BY <3>1, CanTakeIs
    <3>3. IsFiniteSet(s) /\ Cardinality(s) \in Nat
      BY <1>2, <2>1, FS_Subset, FS_CardinalityType
    <3>4. one(s) = s \cup {l}
      BY <2>4 DEF one
    <3> HIDE DEF l
    <3>5. Cardinality(s \cup {l}) = Cardinality(s) + 1
      BY <3>2, <3>3, FS_AddElement
    <3>6. s \cup {l} \in S /\ Cardinality(s \cup {l}) >= k
      BY <1>2, <2>1, <2>4, <3>2, <3>3, <3>5
    <3> QED
      BY <1>2, <2>2, <3>4, <3>6
  <2> QED
    BY <2>3, <2>4
<1>10. got[N] \in Good[N]
  <2> HIDE DEF Good
  <2> QED
    BY <1>2, <1>8, <1>9, StagesKeep
<1>11. got[N] \in S /\ (CanTake(got[N]) = {} \/ Cardinality(got[N]) >= N)
  BY <1>2, <1>10
<1>12. CASE Cardinality(got[N]) >= N
  <2>1. Cardinality(got[N]) <= N
    BY <1>2, <1>11, FS_Subset DEF N
  <2>2. Cardinality(got[N]) \in Nat
    BY <1>2, <1>11, FS_Subset, FS_CardinalityType
  <2>3. Cardinality(got[N]) = Cardinality(DOMAIN w.locs)
    BY <1>2, <1>12, <2>1, <2>2 DEF N
  <2>4. got[N] = DOMAIN w.locs
    BY <1>2, <1>11, <2>3, FS_Subset
  <2> QED
    BY <1>5, <2>4, CanTakeIs
<1> QED
  BY <1>5, <1>11, <1>12

\* The powers counted are those of the first temples, all seen.
FromTemples(a, regions) ==
    a.gad \in 0 .. 3 /\ \A m \in 1 .. a.gad : Temple[m] \in regions

\* An offer adds the next temple at most.
LEMMA OfferFromTemples ==
    ASSUME NEW n \in 1 .. 3, NEW a \in GadState, NEW regions, FromTemples(a, regions)
    PROVE  FromTemples(Offer(n, a, regions), regions)
<1>1. CASE Temple[n] \in regions /\ n \notin a.grants /\ a.gad = n - 1
  <2>1. Offer(n, a, regions).gad = n
    BY <1>1 DEF Offer
  <2>2. \A m \in 1 .. n : m = n \/ m \in 1 .. a.gad
    BY <1>1
  <2> QED
    BY <1>1, <2>1, <2>2 DEF FromTemples
<1>2. CASE ~(Temple[n] \in regions /\ n \notin a.grants /\ a.gad = n - 1)
  <2>1. Offer(n, a, regions) = a
    BY <1>2 DEF Offer
  <2> QED
    BY <2>1
<1> QED
  BY <1>1, <1>2

\* So do three.
LEMMA OffersFromTemples ==
    ASSUME NEW a \in GadState, NEW regions, FromTemples(a, regions)
    PROVE  FromTemples(Offers(a, regions), regions)
<1> DEFINE b == Offer(1, a, regions)
           c == Offer(2, b, regions)
<1>1. b \in GadState /\ FromTemples(b, regions)
  BY OfferKeeps, OfferFromTemples
<1> HIDE DEF b
<1>2. c \in GadState /\ FromTemples(c, regions)
  BY <1>1, OfferKeeps, OfferFromTemples
<1> HIDE DEF c
<1>3. FromTemples(Offer(3, c, regions), regions)
  BY <1>2, OfferFromTemples
<1> QED
  BY <1>3 DEF Offers, b, c

\* More slots carry no less.
LEMMA CarriesMore ==
    ASSUME NEW x, WorldOk(x), NEW p, FillOk(x, p), NEW S, NEW T, S \subseteq T, NEW K
    PROVE  Carries(p, S, K) <= Carries(p, T, K)
<1>1. Carried(p, S) \cap K \subseteq Carried(p, T) \cap K
  BY DEF Carried
<1> QED
  BY <1>1, CarriedFew, FS_Subset DEF Carries

\* A state s of the simulation has nothing that he who took the locations got
\* does not have.
Taken(s, got) ==
    /\ s.reached \subseteq got
    /\ \A l \in s.reached : RegionOf(l) \in Inventory(got).regions
    /\ Below(w.options, s.st, Inventory(got))
    /\ w.gadItems \/ FromTemples(GadsHeld(s), s.st.regions)

\* The gad powers that the simulation counts he has, having seen the temples.
LEMMA GadsTaken ==
    ASSUME WorldOk(w), FillOk(w, placement), ~w.gadItems, NEW got \in SUBSET DOMAIN w.locs,
           NEW a \in GadState, FromTemples(a, Inventory(got).regions)
    PROVE  a.gad <= Inventory(got).inv["GAD"]
<1> DEFINE b == Inventory(got)
           n == a.gad
<1>1. b \in Holding /\ HeldIs(b, got, Gads3(got)) /\ b.regions = Seen(got, Gads3(got))
  BY InventoryType
<1>2. Gads3(got) \in 0 .. 3 /\ TempleGads(b.regions) <= Gads3(got)
      /\ TempleGads(b.regions) \in 0 .. 3
  BY <1>1, GadsSettle, TempleGadsUp
<1>3. n \in 0 .. 3 /\ \A m \in 1 .. n : Temple[m] \in b.regions
  BY DEF FromTemples
<1> HIDE DEF b, n
<1>4. n = 0 \/ n \in 1 .. 3
  BY <1>3
<1>5. n <= TempleGads(b.regions)
  BY <1>2, <1>3, <1>4, TempleGadsReach
<1>6. w.start["GAD"] \in Nat /\ Carries(placement, got, OfKind(w, "GAD")) \in Nat
  BY CarriedFew, ItemKindsAre DEF WorldOk
<1>7. b.inv["GAD"] = w.start["GAD"] + Carries(placement, got, OfKind(w, "GAD")) + Gads3(got)
  BY <1>1, ItemKindsAre DEF HeldIs
<1> QED
  BY <1>2, <1>3, <1>5, <1>6, <1>7 DEF b, n

\* Another sphere finds nothing that he has not taken.
LEMMA SphereTaken ==
    ASSUME WorldOk(w), FillOk(w, placement), GadsOk(w, w.gadItems),
           NEW got \in SUBSET DOMAIN w.locs, CanTake(got) = {},
           NEW s \in SimState(w), Taken(s, got),
           NEW u \in SimState(w), SphereIs(w, placement, w.gadItems, s, u),
           Accounts(w, placement, w.gadItems, u)
    PROVE  Taken(u, got)
<1> DEFINE o == w.options
           g == w.gadItems
           b == Inventory(got)
           h == Held(got, Gads3(got))
           new == News(w, placement, s)
<1>1. OptionsOk(o) /\ s.st \in Holding /\ b \in Holding /\ Below(o, s.st, b)
  BY InventoryType DEF WorldOk, SimState, Taken
<1>2. /\ Gads3(got) \in 0 .. 3 /\ h \in Holding /\ HeldIs(b, got, Gads3(got))
      /\ Poorer(o, s.st, h) /\ b.regions = LevelRules(o, Unshuffled, h)
  <2>1. Gads3(got) \in 0 .. 3 /\ Gads3(got) \in Nat
    BY GadsSettle
  <2>2. h \in Holding
    BY <2>1, HeldType
  <2>3. HeldIs(b, got, Gads3(got)) /\ b.regions = Seen(got, Gads3(got))
    BY InventoryType
  <2>4. Poorer(o, s.st, h)
    BY <1>1, InventoryType DEF Below
  <2>5. Seen(got, Gads3(got)) = LevelRules(o, Unshuffled, h)
    BY SeenIsRules
  <2> QED
    BY <2>1, <2>2, <2>3, <2>4, <2>5
<1> HIDE DEF h, b
<1>3. Rules(w, s) \subseteq b.regions
  BY <1>1, <1>2, RulesUp DEF Rules
<1>4. Met(w, s) \subseteq b.regions
  BY <1>1, <1>3 DEF Met, Below
<1>5. Opens(w, s) \subseteq OpenGates(o, b)
  BY <1>1, GatesUp DEF Opens, Below
<1>6. ASSUME NEW y \in new
      PROVE  y \in got /\ RegionOf(y) \in b.regions
  <2>1. y \in DOMAIN w.locs /\ Collectable(w, placement, s.st, Rules(w, s), Opens(w, s), y)
    BY DEF News, Found
  <2>2. RegionOf(y) \in b.regions
    BY <1>3, <2>1 DEF Collectable, RegionOf
  <2>3. Routes(o, s.st, Opens(w, s), w.locs[y].expr)
    BY <2>1 DEF Collectable
  <2>4. w.locs[y].expr \in SUBSET SUBSET (Gate \cup Token)
    BY <2>1 DEF WorldOk
  <2>5. Routes(o, b, OpenGates(o, b), w.locs[y].expr)
    BY <1>1, <1>5, <2>3, <2>4, RoutesUp
  <2>6. Night(s.st) => Night(b)
    BY <1>1, NightUp DEF Below
  <2>7. Collectable(w, placement, b, b.regions, OpenGates(o, b), y)
    BY <2>1, <2>2, <2>5, <2>6 DEF Collectable, RegionOf
  <2>8. y \notin got => y \in CanTake(got)
    BY <2>1, <2>7 DEF CanTake, b
  <2> QED
    BY <2>2, <2>8
<1>7. u.reached = s.reached \cup new /\ u.st.regions = Met(w, s)
  BY DEF SphereIs
<1> HIDE DEF new
<1>8. u.reached \subseteq got /\ \A l \in u.reached : RegionOf(l) \in b.regions
  BY <1>6, <1>7 DEF Taken, b
<1>9. \A K : /\ Carries(placement, u.reached, K) <= Carries(placement, got, K)
             /\ Carries(placement, u.reached, K) \in Nat
             /\ Carries(placement, got, K) \in Nat
  BY <1>8, CarriesMore, CarriedFew
<1>10. u.st.keys \subseteq b.keys
  <2>1. Carried(placement, u.reached) \subseteq Carried(placement, got)
    BY <1>8 DEF Carried
  <2> QED
    BY <1>2, <2>1 DEF Accounts, HeldIs
<1>11. u.st.retractors <= b.retractors
  BY <1>2, <1>9 DEF Accounts, HeldIs, WorldOk
<1>12. u.st.souls <= b.souls
  <2> DEFINE less == u.reached \ FillSlots(w)
             more == got \ FillSlots(w)
  <2>1. less \subseteq more /\ more \subseteq DOMAIN w.locs
    BY <1>8
  <2> HIDE DEF less, more
  <2>2. IsFiniteSet(more) /\ IsFiniteSet(less)
    BY <2>1, FS_Subset DEF WorldOk
  <2>3. /\ Cardinality(less) <= Cardinality(more)
        /\ Cardinality(less) \in Nat /\ Cardinality(more) \in Nat
    BY <2>1, <2>2, FS_Subset, FS_CardinalityType
  <2>4. u.st.souls = Carries(placement, u.reached, OfCategory(w, "soul")) + Cardinality(less)
    BY DEF Accounts, less
  <2>5. b.souls = Carries(placement, got, OfCategory(w, "soul")) + Cardinality(more)
    BY <1>2 DEF HeldIs, more
  <2> QED
    BY <1>9, <2>3, <2>4, <2>5
<1>13. g \/ FromTemples(GadsHeld(u), u.st.regions)
  <2> SUFFICES ASSUME ~g
               PROVE  FromTemples(GadsHeld(u), u.st.regions)
    OBVIOUS
  <2>1. GadsHeld(s) \in GadState
    BY GadsType
  <2>2. FromTemples(GadsHeld(s), Met(w, s))
    BY DEF Taken, FromTemples, Met
  <2>3. FromTemples(Gads(w, g, s), Met(w, s))
    BY <2>1, <2>2, OffersFromTemples DEF Gads
  <2>4. Carries(placement, new, OfKind(w, "GAD")) = 0
    <3>1. OfKind(w, "GAD") = {}
      BY DEF GadsOk, OfKind
    <3> QED
      BY <3>1, FS_EmptySet DEF Carries
  <2>5. u.st.inv["GAD"] = Gads(w, g, s).gad + 0
    BY <2>4, ItemKindsAre DEF SphereIs, Before, new
  <2>6. GadsHeld(u).gad = Gads(w, g, s).gad
    BY <2>3, <2>5 DEF GadsHeld, FromTemples
  <2> QED
    BY <1>7, <2>3, <2>6 DEF FromTemples
<1>14. ASSUME NEW k \in ItemKind
       PROVE  u.st.inv[k] <= b.inv[k]
  <2>1. w.start[k] \in Nat
    BY DEF WorldOk
  <2>2. CASE k # "GAD" \/ g
    <3>1. u.st.inv[k] = w.start[k] + Carries(placement, u.reached, OfKind(w, k))
      BY <2>2 DEF Accounts
    <3>2. b.inv[k] = w.start[k] + Carries(placement, got, OfKind(w, k))
                     + IF k = "GAD" THEN Gads3(got) ELSE 0
      BY <1>2 DEF HeldIs
    <3>3. (IF k = "GAD" THEN Gads3(got) ELSE 0) \in Nat
      BY <1>2
    <3> QED
      BY <1>9, <2>1, <3>1, <3>2, <3>3
  <2>3. CASE k = "GAD" /\ ~g
    <3>1. FromTemples(GadsHeld(u), b.regions)
      BY <1>4, <1>7, <1>13, <2>3 DEF FromTemples
    <3>2. GadsHeld(u) \in GadState
      BY GadsType
    <3>3. GadsHeld(u).gad <= b.inv["GAD"]
      BY <2>3, <3>1, <3>2, GadsTaken DEF b
    <3> QED
      BY <2>3, <3>3 DEF GadsHeld
  <2> QED
    BY <2>2, <2>3 DEF GadsOk
<1>15. Below(o, u.st, b)
  BY <1>4, <1>7, <1>10, <1>11, <1>12, <1>14 DEF Below, Poorer
<1> QED
  BY <1>8, <1>13, <1>15 DEF Taken, b

\* So he takes all that the simulation reaches.
LEMMA SimulationTaken ==
    ASSUME w \in Worlds, FillOk(w, placement)
    PROVE  Taken(Simulate(w, placement, w.gadItems), Collected)
<1> DEFINE got == Collected
           b == Inventory(got)
           G == {s \in SimState(w) : Accounts(w, placement, w.gadItems, s) /\ Taken(s, got)}
<1>1. WorldOk(w) /\ GadsOk(w, w.gadItems)
  BY WorldIsOk
<1>2. got \in SUBSET DOMAIN w.locs /\ CanTake(got) = {}
  BY <1>1, CollectedCloses
<1> HIDE DEF got
<1>3. b \in Holding /\ HeldIs(b, got, Gads3(got)) /\ Gads3(got) \in 0 .. 3
  BY <1>1, <1>2, InventoryType, GadsSettle
<1> HIDE DEF b
<1>4. NewGame(w) \in G
  <2> DEFINE s == NewGame(w)
  <2>1. s \in SimState(w) /\ Accounts(w, placement, w.gadItems, s)
    BY <1>1, NewGameType, NewGameAccounts
  <2>2. /\ s.reached = {} /\ s.grants = {} /\ s.st.inv = w.start /\ s.st.souls = 0
        /\ s.st.retractors = w.retractors /\ s.st.keys = {} /\ s.st.regions = {}
    BY DEF NewGame
  <2> HIDE DEF s
  <2>3. ASSUME NEW k \in ItemKind
        PROVE  w.start[k] <= b.inv[k]
    <3>1. w.start[k] \in Nat /\ Carries(placement, got, OfKind(w, k)) \in Nat
      BY <1>1, CarriedFew DEF WorldOk
    <3>2. (IF k = "GAD" THEN Gads3(got) ELSE 0) \in Nat
      BY <1>3
    <3> QED
      BY <1>3, <3>1, <3>2 DEF HeldIs
  <2>4. 0 <= b.souls
    BY <1>3 DEF Holding
  <2>5. w.retractors <= b.retractors
    <3>1. w.retractors \in Nat /\ Carries(placement, got, OfCategory(w, "retractor")) \in Nat
      BY <1>1, CarriedFew DEF WorldOk
    <3> QED
      BY <1>3, <3>1 DEF HeldIs
  <2>6. Below(w.options, s.st, b)
    BY <2>2, <2>3, <2>4, <2>5 DEF Below, Poorer
  <2>7. ~w.gadItems => FromTemples(GadsHeld(s), s.st.regions)
    <3>1. ~w.gadItems => w.start["GAD"] = 0
      BY WorldTypes
    <3> QED
      BY <2>2, <3>1 DEF GadsHeld, FromTemples
  <2>8. Taken(s, got)
    BY <2>2, <2>6, <2>7 DEF Taken, b
  <2> QED
    BY <2>1, <2>8 DEF s
<1>5. ASSUME NEW s \in G
      PROVE  Sphere(w, placement, w.gadItems, s) \in G
  <2> DEFINE u == Sphere(w, placement, w.gadItems, s)
  <2>1. u \in SimState(w) /\ SphereIs(w, placement, w.gadItems, s, u)
    BY <1>1, SphereType DEF GadsOk
  <2> HIDE DEF u
  <2>2. Accounts(w, placement, w.gadItems, u)
    BY <1>1, <2>1, SphereAccounts
  <2>3. Taken(u, got)
    BY <1>1, <1>2, <2>1, <2>2, SphereTaken
  <2> QED
    BY <2>1, <2>2, <2>3 DEF u
<1>6. Simulate(w, placement, w.gadItems) \in G
  <2> HIDE DEF G
  <2> QED
    BY <1>1, <1>4, <1>5, SimulationKeeps DEF GadsOk
<1> QED
  BY <1>6 DEF got

\* Whatever is placed, he who walks the graph gets to it.
LEMMA PlacedIsTaken ==
    ASSUME Kept, PlacedStaysReachable
    PROVE  DOMAIN placement \subseteq Collected
<1>1. w \in Worlds /\ FillOk(w, placement)
  BY PlacementIsOk DEF Kept, Settled
<1>2. Simulate(w, placement, w.gadItems).reached \subseteq Collected
  BY <1>1, SimulationTaken DEF Taken
<1> QED
  BY <1>2 DEF PlacedStaysReachable

\* The pistons that validation found he can stop.
LEMMA ValidIsBeatable ==
    ASSUME w \in Worlds, FillOk(w, placement), ~w.gadItems, ValidFill(w, placement)
    PROVE  Pistons(w.options, Inventory(Collected))
<1> DEFINE sim == Simulate(w, placement, FALSE)
           final == [sim.st EXCEPT !.regions = {w.locs[l].region : l \in sim.reached}]
           b == Inventory(Collected)
           o == w.options
<1>1. Pistons(o, final)
  BY Zenon DEF ValidFill
<1>2. WorldOk(w) /\ GadsOk(w, w.gadItems)
  BY WorldIsOk
<1>3. w.gadItems = FALSE
  BY <1>2 DEF GadsOk
<1>4. Taken(sim, Collected)
  BY <1>3, SimulationTaken
<1>5. sim \in SimState(w)
  BY <1>2, <1>3, SimulationEnds, Zenon
<1>6. b \in Holding
  BY <1>2, CollectedCloses, InventoryType
<1>7. \A l \in sim.reached : w.locs[l].region \in b.regions
  BY <1>4 DEF Taken, RegionOf
<1>8. Below(o, sim.st, b)
  BY <1>4 DEF Taken
<1> HIDE DEF sim, b
<1>9. final \in Holding
  BY <1>5, <1>6, <1>7 DEF SimState, Holding
<1>10. /\ final.inv = sim.st.inv /\ final.souls = sim.st.souls /\ final.keys = sim.st.keys
       /\ final.retractors = sim.st.retractors /\ final.regions \subseteq b.regions
  BY <1>5, <1>7 DEF SimState, Holding
<1> HIDE DEF final
<1>11. Below(o, final, b)
  BY <1>8, <1>10 DEF Below, Poorer
<1> QED
  BY <1>1, <1>2, <1>6, <1>9, <1>11, PistonsUp DEF WorldOk, b

\* What is accepted was validated.
AcceptedIsValid == phase = "accepted" => ValidFill(w, placement)

\* Every step keeps that: an accepted fill is changed no more.
LEMMA NextValid == ASSUME AcceptedIsValid, [Next]_vars PROVE AcceptedIsValid'
<1>1. CASE Sweep \/ SweepDone \/ FillFiller
  BY <1>1 DEF Sweep, SweepDone, FillFiller, AcceptedIsValid
<1>2. CASE Validate
  <2>1. w' = w
    BY <1>2 DEF Validate
  <2>2. CASE Validated /\ placement' = placement
    BY <2>1, <2>2 DEF Validated, AcceptedIsValid
  <2>3. CASE phase' # "accepted"
    BY <2>3 DEF AcceptedIsValid
  <2> QED
    BY <1>2, <2>2, <2>3 DEF Validate
<1>3. CASE UNCHANGED vars
  BY <1>3 DEF vars, AcceptedIsValid
<1> QED
  BY <1>1, <1>2, <1>3 DEF Next

\* In every world the player who walks the graph itself, taking one location after
\* another, gets to every slot that holds an item, at any step of the sweep.
THEOREM PlacedIsCollected == Spec => [](DOMAIN placement \subseteq Collected)
<1>1. Kept /\ PlacedStaysReachable => DOMAIN placement \subseteq Collected
  BY PlacedIsTaken
<1>2. Init => Kept /\ PlacedStaysReachable
  BY InitKept, NothingPlacedReaches DEF Init
<1>3. Kept /\ PlacedStaysReachable /\ [Next]_vars => (Kept /\ PlacedStaysReachable)'
  BY NextKept, NextReaches
<1> QED
  BY <1>1, <1>2, <1>3, PTL DEF Spec

\* A seed that passes validation can be finished, unless its gad powers are items:
\* the closed rules and spheres of the simulation promise no more than a walk over
\* the graph of regions gives.
THEOREM AcceptedCanBeFinished == Spec => [](~w.gadItems => AcceptedIsBeatable)
<1> DEFINE I == Kept /\ PlacedStaysReachable /\ AcceptedIsValid
<1>1. Init => I
  BY InitKept, NothingPlacedReaches DEF Init, AcceptedIsValid
<1>2. I /\ [Next]_vars => I'
  BY NextKept, NextReaches, NextValid
<1>3. I => (~w.gadItems => AcceptedIsBeatable)
  <2> SUFFICES ASSUME I, ~w.gadItems, phase = "accepted"
               PROVE  DOMAIN placement \subseteq Collected
                      /\ Pistons(w.options, Inventory(Collected))
    BY Zenon DEF AcceptedIsBeatable, Beatable
  <2>1. w \in Worlds /\ FillOk(w, placement)
    BY PlacementIsOk DEF Kept, Settled
  <2> QED
    BY <2>1, PlacedIsTaken, ValidIsBeatable DEF AcceptedIsValid
<1> QED
  BY <1>1, <1>2, <1>3, PTL DEF Spec

-----------------------------------------------------------------------------
(* No region is sealed.                                                     *)

\* The gates that stand before a region.
FrontGates == {"MARROW", "WASTELAND", "ASYLUM", "PATH_3", "CAGEWAYS", "PLAYROOMS",
               "PATH_6", "PATH_7", "LAVADUCTS", "BLOOD", "FOGOMETERS"}

\* Portals that lead everywhere, to the Gateways from a coffin gate, and to no
\* temple from the level that takes all gad powers, when those are in temples.
LeadEverywhere(lead, gads) ==
    /\ lead \in [Portal -> Portal]
    /\ \A q \in Portal : \E p \in Portal : lead[p] = q
    /\ \E p \in DeadsidePortal : lead[p] = "Asy1"
    /\ gads \/ lead["Salvage"] \notin GadSpokes

\* A player who holds everything but gad powers.
AllButGads(o, h) ==
    /\ \A g \in FrontGates : SoulLevel(o, h, o.remap[g])
    /\ \A k \in ItemKind \ {"GAD"} : h.inv[k] >= 1
    /\ h.inv["GAD"] \in 0 .. 3
    /\ h.retractors >= 5 /\ h.keys = Liveside

\* He opens every gate that stands before a region.
LEMMA GatesStandOpen ==
    ASSUME NEW o, NEW h, AllButGads(o, h)
    PROVE  FrontGates \subseteq OpenGates(o, h)
<1> DEFINE open == OpenGates(o, h)
<1>1. FrontGates \subseteq Gate
  BY DEF FrontGates, Gate
<1>2. \A g \in FrontGates : Routes(o, h, open, GateDependencies[g]) => g \in open
  BY <1>1, GatesAre DEF AllButGads
<1> HIDE DEF open
<1>3. \A g \in FrontGates : GateDependencies[g] = {{}} => g \in open
  BY <1>2, Zenon DEF Routes
<1>4. \A g \in FrontGates, a \in Gate : {a} \in GateDependencies[g] /\ a \in open => g \in open
  <2> SUFFICES ASSUME NEW g \in FrontGates, NEW a \in Gate,
                      {a} \in GateDependencies[g], a \in open
               PROVE  Routes(o, h, open, GateDependencies[g])
    BY <1>2
  <2> QED
    BY DEF Routes
<1>5. "MARROW" \in open
  BY <1>3, DependenciesAre DEF FrontGates
<1>6. "WASTELAND" \in open
  BY <1>4, <1>5, DependenciesAre DEF FrontGates, Gate
<1>7. "ASYLUM" \in open
  BY <1>4, <1>6, DependenciesAre DEF FrontGates, Gate
<1>8. "PATH_3" \in open
  BY <1>4, <1>7, DependenciesAre DEF FrontGates, Gate
<1>9. "CAGEWAYS" \in open /\ "PATH_7" \in open
  BY <1>4, <1>8, DependenciesAre DEF FrontGates, Gate
<1>10. "PLAYROOMS" \in open
  BY <1>4, <1>9, DependenciesAre DEF FrontGates, Gate
<1>11. "PATH_6" \in open
  BY <1>4, <1>10, DependenciesAre DEF FrontGates, Gate
<1>12. "LAVADUCTS" \in open /\ "BLOOD" \in open /\ "FOGOMETERS" \in open
  BY <1>4, <1>11, DependenciesAre DEF FrontGates, Gate, LowerDeadside
<1> QED
  BY <1>5, <1>6, <1>7, <1>8, <1>9, <1>10, <1>11, <1>12 DEF FrontGates, open

\* So every coffin gate lets him through.
LEMMA CoffinGatesStandOpen ==
    ASSUME NEW o, NEW h, AllButGads(o, h), NEW p \in DeadsidePortal
    PROVE  Routes(o, h, OpenGates(o, h), PortalRoutes[p])
<1> DEFINE open == OpenGates(o, h)
<1>1. FrontGates \subseteq open /\ FrontGates \subseteq Gate
  BY GatesStandOpen DEF FrontGates, Gate
<1> HIDE DEF open
<1>2. \E g \in FrontGates : {g} \in PortalRoutes[p]
  BY DEF FrontGates, PortalRoutes, DeadsidePortal
<1>3. PICK g \in FrontGates : {g} \in PortalRoutes[p]
  BY <1>2
<1> QED
  BY <1>1, <1>3 DEF Routes, open

\* He finishes every liveside level but Salvage, and Salvage once he has all gad
\* powers.
LEMMA LevelsCompletable ==
    ASSUME NEW o, NEW h, AllButGads(o, h), NEW l \in Liveside,
           l # "Salvage" \/ h.inv["GAD"] = 3
    PROVE  Completable(o, h, l)
<1>1. /\ Night(h) /\ Has(h, "PRISON_KEY_CARD") /\ Has(h, "POIGNE")
  BY DEF AllButGads, Night, Has, ItemKind, Eclipser
<1>2. \A t \in {"NIGHT", "PRISON_KEY_CARD", "POIGNE"} : ItemRule(o, h, t)
  BY <1>1 DEF ItemRule
<1>3. h.inv["GAD"] = 3 => ItemRule(o, h, "GAD3_SWIM")
  BY DEF ItemRule
<1>4. /\ \A t \in CompletionItems[l] : t \in {"NIGHT", "PRISON_KEY_CARD", "POIGNE", "GAD3_SWIM"}
      /\ l # "Salvage" => "GAD3_SWIM" \notin CompletionItems[l]
  BY DEF CompletionItems, Liveside
<1> QED
  BY <1>2, <1>3, <1>4 DEF Completable

\* What his walk reaches: all regions, or all but the one behind Salvage while
\* he lacks gad powers.
LEMMA WalksEverywhere ==
    ASSUME NEW o, NEW h, AllButGads(o, h), NEW lead, NEW gads,
           LeadEverywhere(lead, gads)
    PROVE  /\ Walk(o, lead, h) \subseteq Region
           /\ h.inv["GAD"] = 3 => Walk(o, lead, h) = Region
           /\ \A q \in Portal : q # lead["Salvage"] => SpokeRegion[q] \in Walk(o, lead, h)
<1> DEFINE open == OpenGates(o, h)
           Onward(a, b) == \A from \in Region, to \in Region :
                              from \in a /\ Connected(o, lead, h, open, from, to) => to \in b
<1>0. PICK after : Walked(after, o, lead, h)
  BY WalkIs, Zenon
<1>1. /\ after[0] = {"Menu"}
      /\ \A n \in 1 .. 8 : after[n] = Further(o, lead, h, open, after[n - 1])
      /\ Walk(o, lead, h) = after[8]
  BY <1>0, Zenon DEF Walked
<1>2. \A p \in DeadsidePortal : Routes(o, h, open, PortalRoutes[p])
  BY CoffinGatesStandOpen
<1> HIDE DEF open
<1>4. \A n \in 1 .. 8 : after[n - 1] \subseteq after[n]
  BY <1>1 DEF Further
<1>101. /\ Onward(after[0], after[1]) /\ Onward(after[1], after[2]) /\ Onward(after[2], after[3])
        /\ Onward(after[3], after[4]) /\ Onward(after[4], after[5]) /\ Onward(after[5], after[6])
        /\ Onward(after[6], after[7])
  <2>1. \A m, n \in 0 .. 8 : n = m + 1 => Onward(after[m], after[n])
    <3> SUFFICES ASSUME NEW m \in 0 .. 8, NEW n \in 0 .. 8, n = m + 1
                 PROVE  Onward(after[m], after[n])
      OBVIOUS
    <3>1. n \in 1 .. 8 /\ n - 1 = m
      OBVIOUS
    <3>2. after[n] = Further(o, lead, h, open, after[m])
      BY <1>1, <3>1
    <3> QED
      BY <3>2 DEF Further
  <2> HIDE DEF Onward
  <2> QED
    BY <2>1
<1>102. /\ after[0] \subseteq after[1] /\ after[1] \subseteq after[2] /\ after[2] \subseteq after[3]
        /\ after[3] \subseteq after[4] /\ after[4] \subseteq after[5] /\ after[5] \subseteq after[6]
        /\ after[6] \subseteq after[7] /\ after[7] \subseteq after[8]
  BY <1>4
<1>5. after[8] \subseteq Region
  <2>1. after[0] \subseteq Region
    BY <1>1, RegionsAre
  <2>2. \A n \in 1 .. 8 : after[n - 1] \subseteq Region => after[n] \subseteq Region
    BY <1>1 DEF Further
  <2> QED
    BY <2>1, <2>2
<1>6. /\ after[1] \subseteq after[8] /\ after[2] \subseteq after[8] /\ after[4] \subseteq after[8]
      /\ after[5] \subseteq after[8] /\ after[6] \subseteq after[8] /\ after[7] \subseteq after[8]
  BY <1>102
<1>7. Portal = DeadsidePortal \cup Liveside /\ \A p \in Portal : SpokeRegion[p] \in Region
  BY PortalLeads, RegionsAre, SpokeRegionsAre, EngineSectionsAre
<1>8. /\ \A p \in DeadsidePortal : lead[p] \in Portal
      /\ \A l \in Liveside : lead[l] \in Portal
  BY <1>7 DEF LeadEverywhere
<1>9. {"Menu", "Swampland", "Marrow Gates", "Gateways", "Cathedral", "Experimentation",
       "Cageways", "Engine Block"} \subseteq Region /\ Liveside \subseteq Region
  BY RegionsAre DEF Liveside
<1>10. "Swampland" \in after[1]
  <2>1. Connected(o, lead, h, open, "Menu", "Swampland")
    BY DEF Connected
  <2> QED
    BY <1>1, <1>101, <1>9, <2>1
<1>11. "Marrow Gates" \in after[2]
  <2>1. Connected(o, lead, h, open, "Swampland", "Marrow Gates")
    BY DEF Connected
  <2> QED
    BY <1>101, <1>9, <1>10, <2>1
<1>12. \A p \in DeadsidePortal : SpokeRegion[lead[p]] \in after[3]
  <2>1. \A p \in DeadsidePortal : Connected(o, lead, h, open, "Marrow Gates", SpokeRegion[lead[p]])
    BY <1>2 DEF Connected
  <2> QED
    BY <1>101, <1>7, <1>8, <1>9, <1>11, <2>1
<1>13. "Gateways" \in after[3]
  BY <1>12, SpokeValues DEF LeadEverywhere
<1>14. Has(h, "ENG_KEY")
  BY DEF AllButGads, Has, ItemKind, Eclipser
<1>15. "Cathedral" \in after[4] /\ "Experimentation" \in after[4]
  <2>1. GatewaysDoor(o, h)
    BY <1>14 DEF GatewaysDoor, ItemRule
  <2>2. \A to \in {"Cathedral", "Experimentation"} : Connected(o, lead, h, open, "Gateways", to)
    BY <2>1 DEF Connected
  <2> QED
    BY <1>101, <1>9, <1>13, <2>2
<1>16. Liveside \subseteq after[5]
  <2>1. \A l \in Liveside : RetractorsOk(o, h, l)
    BY DEF RetractorsOk, AllButGads
  <2>2. \A l \in Liveside : Connected(o, lead, h, open, "Cathedral", l)
    BY <2>1 DEF Connected
  <2> QED
    BY <1>101, <1>9, <1>15, <2>2
<1>17. \A l \in Liveside : l # "Salvage" \/ h.inv["GAD"] = 3 => SpokeRegion[lead[l]] \in after[6]
  <2> SUFFICES ASSUME NEW l \in Liveside, l # "Salvage" \/ h.inv["GAD"] = 3
               PROVE  SpokeRegion[lead[l]] \in after[6]
    OBVIOUS
  <2>1. Completable(o, h, l)
    BY LevelsCompletable
  <2>2. Connected(o, lead, h, open, l, SpokeRegion[lead[l]])
    BY <2>1 DEF Connected
  <2>3. SpokeRegion[lead[l]] \in Region /\ l \in Region /\ l \in after[5]
    BY <1>7, <1>8, <1>9, <1>16
  <2> QED
    BY <1>101, <2>2, <2>3
<1>18. \A q \in Portal : q # lead["Salvage"] \/ h.inv["GAD"] = 3 => SpokeRegion[q] \in after[6]
  <2> SUFFICES ASSUME NEW q \in Portal, q # lead["Salvage"] \/ h.inv["GAD"] = 3
               PROVE  SpokeRegion[q] \in after[6]
    OBVIOUS
  <2>1. PICK p \in Portal : lead[p] = q
    BY DEF LeadEverywhere
  <2>2. after[3] \subseteq after[6]
    BY <1>102
  <2>3. CASE p \in DeadsidePortal
    BY <1>12, <2>1, <2>2, <2>3
  <2>4. CASE p \in Liveside
    BY <1>17, <2>1, <2>4
  <2> QED
    BY <1>7, <2>3, <2>4
<1>19. h.inv["GAD"] = 3 => Region \subseteq after[8]
  <2> SUFFICES ASSUME h.inv["GAD"] = 3
               PROVE  Region \subseteq after[8]
    OBVIOUS
  <2>1. \A q \in Portal : SpokeRegion[q] \in after[6]
    BY <1>18
  <2>2. "Cageways" \in after[6]
    BY <2>1, SpokeValues DEF Portal, DeadsidePortal
  <2>3. "Engine Block" \in after[7]
    <3>1. Connected(o, lead, h, open, "Cageways", "Engine Block")
      BY <1>14 DEF Connected
    <3> QED
      BY <1>101, <1>9, <2>2, <3>1
  <2>4. "Menu" \in after[1]
    BY <1>1, <1>102
  <2>5. \A r \in SpokeRegions \cup EngineSections : r \in after[6]
    <3>1. \A r \in SpokeRegions : r \in after[6]
      BY <2>1 DEF SpokeRegions, Portal
    <3>2. \A r \in EngineSections : r \in after[6]
      BY <2>1, SpokeValues DEF EngineSections, Portal
    <3> QED
      BY <3>1, <3>2
  <2>6. \A r \in Region : \/ r \in SpokeRegions \cup EngineSections \cup Liveside
                          \/ r \in {"Menu", "Swampland", "Marrow Gates", "Cathedral",
                                    "Experimentation", "Engine Block"}
    BY RegionsAre, SpokeRegionsAre, EngineSectionsAre DEF Liveside
  <2> QED
    BY <1>6, <1>10, <1>11, <1>15, <1>16, <2>3, <2>4, <2>5, <2>6
<1> QED
  BY <1>1, <1>5, <1>6, <1>18, <1>19

\* With the souls for the gates that stand before a region, the player finds all
\* gad powers and gets everywhere.
LEMMA EverywhereInTheEnd ==
    ASSUME NEW souls \in Nat, \A g \in FrontGates : VanillaSouls[remap[g]] <= souls,
           LeadEverywhere(Leads, gadItems)
    PROVE  WalkTemples(souls) = Region
<1> DEFINE here(n) == Walk(Options, Leads, Equipped(souls, n))
           Body(f, n) == IF n < 3 /\ Temple[n + 1] \in here(n) THEN f[n + 1] ELSE here(n)
           walk == CHOOSE f : f = [n \in 0 .. 3 |-> Body(f, n)]
<1>1. \A n \in 0 .. 3 : AllButGads(Options, Equipped(souls, n)) /\ Equipped(souls, n).inv["GAD"] = n
  <2> SUFFICES ASSUME NEW n \in 0 .. 3
               PROVE  /\ AllButGads(Options, Equipped(souls, n))
                      /\ Equipped(souls, n).inv["GAD"] = n
    OBVIOUS
  <2>1. /\ Options.remap = remap /\ Options.souls = VanillaSouls
        /\ Equipped(souls, n).souls = souls /\ Equipped(souls, n).retractors = 5
        /\ Equipped(souls, n).keys = Liveside
    BY DEF Options, Equipped
  <2>2. /\ "GAD" \in ItemKind /\ Equipped(souls, n).inv["GAD"] = n
        /\ \A k \in ItemKind \ {"GAD"} : Equipped(souls, n).inv[k] >= 1
    BY DEF Equipped, AtMost, ItemKind
  <2> QED
    BY <2>1, <2>2 DEF AllButGads, SoulLevel
<1>2. \A n \in 0 .. 3 : /\ n = 3 => here(n) = Region
                        /\ \A q \in Portal : q # Leads["Salvage"] => SpokeRegion[q] \in here(n)
  BY <1>1, WalksEverywhere
<1> HIDE DEF here
<1>3. /\ Temple[1] = SpokeRegion["Gad1"] /\ Temple[2] = SpokeRegion["Gad2"]
      /\ Temple[3] = SpokeRegion["Gad3"]
  BY SpokeValues DEF Temple
<1>4. ~gadItems => \A n \in 0 .. 2 : Temple[n + 1] \in here(n)
  <2> SUFFICES ASSUME ~gadItems
               PROVE  \A n \in 0 .. 2 : Temple[n + 1] \in here(n)
    OBVIOUS
  <2>1. Leads["Salvage"] \notin {"Gad1", "Gad2", "Gad3"}
    BY DEF LeadEverywhere, GadSpokes
  <2>2. {"Gad1", "Gad2", "Gad3"} \subseteq Portal
    BY DEF Portal, DeadsidePortal
  <2>3. \A n \in 0 .. 3 : {SpokeRegion["Gad1"], SpokeRegion["Gad2"], SpokeRegion["Gad3"]} \subseteq here(n)
    BY <1>2, <2>1, <2>2
  <2> QED
    BY <1>3, <2>3
<1>5. \E f : f = [n \in 0 .. 3 |-> Body(f, n)]
  <2> DEFINE f2 == IF Temple[3] \in here(2) THEN here(3) ELSE here(2)
             f1 == IF Temple[2] \in here(1) THEN f2 ELSE here(1)
             f0 == IF Temple[1] \in here(0) THEN f1 ELSE here(0)
             f == [n \in 0 .. 3 |-> CASE n = 0 -> f0 [] n = 1 -> f1 [] n = 2 -> f2
                                      [] OTHER -> here(3)]
  <2>1. f[0] = f0 /\ f[1] = f1 /\ f[2] = f2 /\ f[3] = here(3)
    <3> HIDE DEF f0, f1, f2
    <3> QED
      OBVIOUS
  <2> HIDE DEF f
  <2>2. /\ Body(f, 0) = f0 /\ Body(f, 1) = f1 /\ Body(f, 2) = f2 /\ Body(f, 3) = here(3)
    BY <2>1
  <2>3. f = [n \in 0 .. 3 |-> f[n]]
    BY DEF f
  <2> HIDE DEF f0, f1, f2, Body
  <2>4. \A n \in 0 .. 3 : f[n] = Body(f, n)
    <3> SUFFICES ASSUME NEW n \in 0 .. 3
                 PROVE  f[n] = Body(f, n)
      OBVIOUS
    <3>1. n = 0 \/ n = 1 \/ n = 2 \/ n = 3
      OBVIOUS
    <3> QED
      BY <2>1, <2>2, <3>1
  <2>5. f = [n \in 0 .. 3 |-> Body(f, n)]
    BY <2>3, <2>4
  <2> QED
    BY <2>5
<1>6. walk = [n \in 0 .. 3 |-> Body(walk, n)]
  <2> HIDE DEF Body
  <2> QED
    BY <1>5
<1>7. WalkTemples(souls) = walk[IF gadItems THEN 3 ELSE 0]
  BY Zenon DEF WalkTemples, here
<1> HIDE DEF walk
<1>8. \A n \in 0 .. 3 : walk[n] = Body(walk, n)
  <2> HIDE DEF Body
  <2> QED
    BY <1>6
<1>9. walk[3] = Region
  BY <1>2, <1>8
<1>10. ~gadItems => walk[0] = Region
  <2> SUFFICES ASSUME ~gadItems
               PROVE  walk[0] = Region
    OBVIOUS
  <2>1. walk[2] = walk[3]
    BY <1>4, <1>8
  <2>2. walk[1] = walk[2]
    BY <1>4, <1>8
  <2>3. walk[0] = walk[1]
    BY <1>4, <1>8
  <2> QED
    BY <1>9, <2>1, <2>2, <2>3
<1> QED
  BY <1>7, <1>9, <1>10

-----------------------------------------------------------------------------
(* The entrances.                                                           *)

\* A bijection of portals, dealt, leads everywhere.
LEMMA DealLeads ==
    ASSUME NEW T \in SUBSET Portal, NEW f \in Bijection(T, T)
    PROVE  /\ Dealt(f) \in [Portal -> Portal]
           /\ \A p \in Portal : Dealt(f)[p] = IF p \in T THEN f[p] ELSE p
           /\ \A q \in Portal : \E p \in Portal : Dealt(f)[p] = q
<1>1. f \in [T -> T] /\ \A q \in T : \E p \in T : f[p] = q
  BY DEF Bijection, Injection, Surjection
<1>2. \A p \in Portal : Dealt(f)[p] = IF p \in T THEN f[p] ELSE p
  BY <1>1 DEF Dealt
<1>3. Dealt(f) \in [Portal -> Portal]
  BY <1>1 DEF Dealt
<1>4. ASSUME NEW q \in Portal
      PROVE  \E p \in Portal : Dealt(f)[p] = q
  <2>1. CASE q \in T
    <3>1. PICK p \in T : f[p] = q
      BY <1>1, <2>1
    <3> QED
      BY <1>2, <3>1
  <2>2. CASE q \notin T
    BY <1>2, <2>2
  <2> QED
    BY <2>1, <2>2
<1> QED
  BY <1>2, <1>3, <1>4

\* Until the entrances are dealt they are where they were.
Entered ==
    /\ mode \in EntranceModes
    /\ stage = "entrances" => out = Unshuffled
    /\ LeadEverywhere(Leads, gadItems)

\* Unshuffled entrances lead everywhere.
LEMMA UnshuffledLeads == out = Unshuffled => LeadEverywhere(Leads, gadItems)
<1> SUFFICES ASSUME out = Unshuffled
             PROVE  LeadEverywhere(Leads, gadItems)
  OBVIOUS
<1>1. Leads = SamePlace
  BY DEF Leads
<1>2. /\ SamePlace \in [Portal -> Portal] /\ \A p \in Portal : SamePlace[p] = p
      /\ "Asy1" \in DeadsidePortal /\ "Asy1" \in Portal /\ "Salvage" \in Portal
  BY DEF SamePlace, Portal, DeadsidePortal, Liveside
<1> QED
  BY <1>1, <1>2 DEF LeadEverywhere, GadSpokes

\* A deal of the coffin gates does, and so does one of all portals.
LEMMA DealsLead ==
    ASSUME NEW f, f \in DeadsideOnly \/ f \in CrossHub
    PROVE  f # Unshuffled /\ LeadEverywhere(f, gadItems)
<1>0. /\ MovedPortals \subseteq Portal /\ "Asy1" \in MovedPortals /\ "Salvage" \in MovedPortals
      /\ "Asy1" \in DeadsidePortal /\ "Salvage" \notin DeadsidePortal
      /\ "Salvage" \in Portal /\ DeadsidePortal \subseteq Portal
  BY SeedOptionsAssumption DEF Portal, DeadsidePortal, Liveside
<1>1. CASE f \in DeadsideOnly
  <2> DEFINE T == MovedPortals \cap DeadsidePortal
  <2>1. PICK b \in Bijection(T, T) : f = Dealt(b)
    BY <1>1 DEF DeadsideOnly
  <2>2. \E p \in T : b[p] = "Asy1"
    BY <1>0, <2>1 DEF Bijection, Surjection
  <2>3. /\ f \in [Portal -> Portal] /\ \A q \in Portal : \E p \in Portal : f[p] = q
        /\ \A p \in Portal : f[p] = IF p \in T THEN b[p] ELSE p
    BY <1>0, <2>1, DealLeads
  <2>4. f["Salvage"] = "Salvage" /\ \E p \in DeadsidePortal : f[p] = "Asy1"
    BY <1>0, <2>2, <2>3
  <2>5. f # Unshuffled
    BY <1>0, <2>3 DEF Unshuffled
  <2> QED
    BY <2>3, <2>4, <2>5 DEF LeadEverywhere, GadSpokes
<1>2. CASE f \in CrossHub
  <2>1. PICK b \in Bijection(MovedPortals, MovedPortals) :
           /\ f = Dealt(b)
           /\ \E p \in MovedPortals \cap DeadsidePortal : b[p] = "Asy1"
           /\ gadItems \/ b["Salvage"] \notin GadSpokes
    BY <1>2 DEF CrossHub
  <2>3. /\ f \in [Portal -> Portal] /\ \A q \in Portal : \E p \in Portal : f[p] = q
        /\ \A p \in Portal : f[p] = IF p \in MovedPortals THEN b[p] ELSE p
    BY <1>0, <2>1, DealLeads
  <2>4. f["Salvage"] = b["Salvage"] /\ \E p \in DeadsidePortal : f[p] = "Asy1"
    BY <1>0, <2>1, <2>3
  <2>5. f # Unshuffled
    BY <1>0, <2>3 DEF Unshuffled
  <2> QED
    BY <2>1, <2>3, <2>4, <2>5 DEF LeadEverywhere
<1> QED
  BY <1>1, <1>2

\* So do the entrances of every seed.
LEMMA InitEntered == SeedInit => Entered
BY SeedOptionsAssumption, UnshuffledLeads DEF SeedInit, Entered

\* Every step of the draw keeps it.
LEMMA NextEntered == ASSUME Entered, [SeedNext]_seedVars PROVE Entered'
<1>1. CASE ShuffleEntrances
  <2>1. mode' = mode /\ gadItems' = gadItems /\ stage' # "entrances"
    BY <1>1 DEF ShuffleEntrances
  <2>2. out' = Unshuffled \/ out' \in DeadsideOnly \/ out' \in CrossHub
    BY <1>1 DEF ShuffleEntrances, Entered, EntranceModes
  <2>3. out' # Unshuffled => LeadEverywhere(Leads', gadItems')
    BY <2>1, <2>2, DealsLead DEF Leads
  <2>4. out' = Unshuffled => LeadEverywhere(Leads', gadItems')
    <3> SUFFICES ASSUME out' = Unshuffled
                 PROVE  LeadEverywhere(Leads', gadItems')
      OBVIOUS
    <3>1. out = Unshuffled
      BY <1>1 DEF ShuffleEntrances, Entered
    <3> QED
      BY <2>1, <3>1 DEF Entered, Leads
  <2> QED
    BY <2>1, <2>3, <2>4 DEF Entered
<1>2. CASE ShuffleGates
  BY <1>2 DEF ShuffleGates, Entered, Leads
<1>3. ASSUME NEW k \in Gathered(mode), Gather(k)
      PROVE  Entered'
  BY <1>3 DEF Gather, Entered, Leads
<1>4. ASSUME NEW level \in Liveside, GatherKey(level)
      PROVE  Entered'
  BY <1>4 DEF GatherKey, Entered, Leads
<1>5. CASE GatherSouls
  BY <1>5 DEF GatherSouls, Entered, Leads
<1>6. CASE UNCHANGED seedVars
  BY <1>6 DEF seedVars, Entered, Leads
<1> QED
  BY <1>1, <1>2, <1>3, <1>4, <1>5, <1>6 DEF SeedNext

-----------------------------------------------------------------------------
(* The soul levels drawn for the gates.                                     *)

\* Every gate has its place in the order of gates.
LEMMA PlacesAre == \A g \in Gate : At(g) \in 1 .. 20 /\ GateOrder[At(g)] = g
<1>1. DOMAIN GateOrder = 1 .. 20
  BY DEF GateOrder
<1>2. \A g \in Gate : \E n \in 1 .. 20 : GateOrder[n] = g
  <2> DEFINE has(n, g) == n \in 1 .. 20 /\ GateOrder[n] = g
  <2>1. /\ has(1, "MARROW") /\ has(2, "WASTELAND") /\ has(3, "ASYLUM") /\ has(4, "PATH_3")
        /\ has(5, "LALUNE") /\ has(6, "CAGEWAYS") /\ has(7, "PLAYROOMS") /\ has(8, "PATH_6")
        /\ has(9, "PATH_7") /\ has(10, "LAVADUCTS") /\ has(11, "LALAME") /\ has(12, "BLOOD")
        /\ has(13, "FOGOMETERS") /\ has(14, "MYSTERY") /\ has(15, "ENSEIGNE")
        /\ has(16, "FIRE_POIGNE") /\ has(17, "FIRE_FLAMBEAU") /\ has(18, "PROPHECY_INTERIOR")
        /\ has(19, "BLOOD_INTERIOR") /\ has(20, "FOGOMETERS_INTERIOR")
    BY DEF GateOrder
  <2> HIDE DEF has
  <2>2. \A g \in Gate : \E n : has(n, g)
    BY <2>1 DEF Gate
  <2> QED
    BY <2>2 DEF has
<1> QED
  BY <1>1, <1>2 DEF At

\* A set of gates that is not empty has a first one.
LEMMA FirstIsOne ==
    ASSUME NEW S \in SUBSET Gate, S # {}
    PROVE  First(S) \in S
<1> DEFINE T == {At(g) : g \in S}
<1>1. T \in SUBSET Nat /\ T # {}
  BY PlacesAre
<1>2. PICK m \in T : \A n \in T : m <= n
  BY <1>1, Least
<1>3. \E g \in S : \A h \in S : At(g) <= At(h)
  BY <1>2
<1> QED
  BY <1>3 DEF First

\* There are finitely many gates.
LEMMA GatesAreFew == IsFiniteSet(Gate)
<1>1. IsFiniteSet({"MARROW", "WASTELAND", "ASYLUM", "PATH_3", "LALUNE"})
  BY FiveAreFew
<1>2. IsFiniteSet({"CAGEWAYS", "PLAYROOMS", "PATH_6", "PATH_7", "LAVADUCTS"})
  BY FiveAreFew
<1>3. IsFiniteSet({"LALAME", "BLOOD", "FOGOMETERS", "MYSTERY", "ENSEIGNE"})
  BY FiveAreFew
<1>4. IsFiniteSet({"FIRE_POIGNE", "FIRE_FLAMBEAU", "PROPHECY_INTERIOR", "BLOOD_INTERIOR",
                   "FOGOMETERS_INTERIOR"})
  BY FiveAreFew
<1> DEFINE a == {"MARROW", "WASTELAND", "ASYLUM", "PATH_3", "LALUNE"}
           b == {"CAGEWAYS", "PLAYROOMS", "PATH_6", "PATH_7", "LAVADUCTS"}
           c == {"LALAME", "BLOOD", "FOGOMETERS", "MYSTERY", "ENSEIGNE"}
           d == {"FIRE_POIGNE", "FIRE_FLAMBEAU", "PROPHECY_INTERIOR", "BLOOD_INTERIOR",
                 "FOGOMETERS_INTERIOR"}
<1>5. Gate = (a \cup b) \cup (c \cup d)
  BY DEF Gate
<1> HIDE DEF a, b, c, d
<1> QED
  BY <1>1, <1>2, <1>3, <1>4, <1>5, FS_Union DEF a, b, c, d

\* Where a gate stands among some gates; the last of them alone stands last.
LEMMA RanksAre ==
    ASSUME NEW S \in SUBSET Gate, NEW g \in S
    PROVE  /\ Cardinality(S) \in Nat
           /\ Rank(S, g) \in 1 .. Cardinality(S)
           /\ Rank(S, g) = Cardinality(S) => \A h \in S : At(h) <= At(g)
<1> DEFINE T == {h \in S : At(h) <= At(g)}
<1>1. IsFiniteSet(S)
  BY GatesAreFew, FS_Subset
<1>2. IsFiniteSet(T) /\ Cardinality(T) <= Cardinality(S)
      /\ (Cardinality(T) = Cardinality(S) => T = S)
  BY <1>1, FS_Subset
<1>3. Cardinality(S) \in Nat /\ Cardinality(T) \in Nat
  BY <1>1, <1>2, FS_CardinalityType
<1>4. g \in T
  BY PlacesAre
<1>5. Cardinality(T) # 0
  BY <1>2, <1>4, FS_EmptySet
<1>6. T = S => \A h \in S : At(h) <= At(g)
  OBVIOUS
<1>7. Rank(S, g) = Cardinality(T)
  BY DEF Rank
<1> HIDE DEF T
<1> QED
  BY <1>2, <1>3, <1>5, <1>6, <1>7

\* A quotient below a half more than b is rounded to b or less.
LEMMA RoundedAtMost ==
    ASSUME NEW a \in Nat, NEW d \in Nat, d > 0, NEW b \in Nat, 2 * a < (2 * b + 1) * d
    PROVE  RoundedQuotient(a, d) <= b
<1> DEFINE q == a \div d
           r == a % d
<1>1. q \in Nat /\ r \in Nat /\ r < d /\ a = d * q + r
  OBVIOUS
<1> HIDE DEF q, r
<1>2. q <= b
  <2> SUFFICES ASSUME q >= b + 1
               PROVE  FALSE
    BY <1>1
  <2>1. d * q >= d * (b + 1)
    BY <1>1
  <2>2. 2 * (d * q) >= 2 * (d * (b + 1))
    BY <1>1, <2>1
  <2> QED
    BY <1>1, <2>2
<1>3. q = b => 2 * r < d
  BY <1>1
<1>4. RoundedQuotient(a, d) = IF 2 * r < d \/ (2 * r = d /\ q % 2 = 0) THEN q ELSE q + 1
  BY DEF RoundedQuotient, q, r
<1>5. RoundedQuotient(a, d) = q \/ (RoundedQuotient(a, d) = q + 1 /\ ~(2 * r < d))
  BY <1>4
<1> QED
  BY <1>1, <1>2, <1>3, <1>5

\* One of a number that holds d is not rounded to nothing.
LEMMA RoundedAtLeast ==
    ASSUME NEW a \in Nat, NEW d \in Nat, d > 0, a >= d
    PROVE  RoundedQuotient(a, d) \in Nat /\ RoundedQuotient(a, d) >= 1
<1> DEFINE q == a \div d
           r == a % d
<1>1. q \in Nat /\ r \in Nat /\ r < d /\ a = d * q + r
  OBVIOUS
<1>2. RoundedQuotient(a, d) = q \/ RoundedQuotient(a, d) = q + 1
  BY DEF RoundedQuotient
<1> HIDE DEF q, r
<1>3. q # 0
  BY <1>1
<1> QED
  BY <1>1, <1>2, <1>3

\* The soul levels of the pool: none above its maximum, and when ten is the
\* maximum and no more than eighteen gates are drawn for, the last alone is ten.
LEMMA PoolIs ==
    ASSUME NEW n \in Nat, n >= 1, NEW max \in {7, 8, 10}, NEW i \in 1 .. n
    PROVE  /\ LinearPool(n, max)[i] \in 1 .. max
           /\ n \in 2 .. 18 /\ i # n => LinearPool(n, max)[i] <= 9
<1> DEFINE d == IF n > 1 THEN n - 1 ELSE 1
           a == d + (max - 1) * (i - 1)
<1>1. LinearPool(n, max)[i] = RoundedQuotient(a, d)
  BY DEF LinearPool
<1>2. d \in Nat /\ d > 0 /\ i - 1 \in 0 .. d /\ a \in Nat /\ a >= d
  OBVIOUS
<1>3. LinearPool(n, max)[i] \in Nat /\ LinearPool(n, max)[i] >= 1
  <2> HIDE DEF a, d
  <2> QED
    BY <1>1, <1>2, RoundedAtLeast
<1>4. 2 * a < (2 * max + 1) * d
  BY <1>2
<1>5. LinearPool(n, max)[i] <= max
  <2>1. max \in Nat
    OBVIOUS
  <2> HIDE DEF a, d
  <2> QED
    BY <1>1, <1>2, <1>4, <2>1, RoundedAtMost
<1>6. n \in 2 .. 18 /\ i # n => LinearPool(n, max)[i] <= 9
  <2> SUFFICES ASSUME n \in 2 .. 18, i # n
               PROVE  LinearPool(n, max)[i] <= 9
    OBVIOUS
  <2>1. 2 * a < (2 * 9 + 1) * d
    BY <1>2
  <2>2. 9 \in Nat
    OBVIOUS
  <2> HIDE DEF a, d
  <2> QED
    BY <1>1, <1>2, <2>1, <2>2, RoundedAtMost
<1> QED
  BY <1>3, <1>5, <1>6

\* The gates whose soul level is capped.
CappedGates == {"ASYLUM", "BLOOD", "CAGEWAYS", "FOGOMETERS", "LAVADUCTS", "PATH_3",
                "PATH_6", "PATH_7", "PLAYROOMS", "WASTELAND"}

\* Soul levels drawn for the gates of F: no more than one is above nine.
OneAboveNine(m, F) ==
    /\ m \in [F -> 1 .. 10]
    /\ \A g, h \in F : m[g] > 9 /\ m[h] > 9 => g = h

\* The order of the caps names the capped gates.
LEMMA CapOrderIs == DOMAIN CapOrder = 1 .. 10 /\ Len(CapOrder) = 10 /\ Range(CapOrder) = CappedGates
<1>1. DOMAIN CapOrder = 1 .. 10 /\ Len(CapOrder) = 10
  BY DEF CapOrder
<1>2. Range(CapOrder) = {CapOrder[1], CapOrder[2], CapOrder[3], CapOrder[4], CapOrder[5],
                         CapOrder[6], CapOrder[7], CapOrder[8], CapOrder[9], CapOrder[10]}
  BY <1>1 DEF Range
<1>3. /\ CapOrder[1] = "ASYLUM" /\ CapOrder[2] = "BLOOD" /\ CapOrder[3] = "CAGEWAYS"
      /\ CapOrder[4] = "FOGOMETERS" /\ CapOrder[5] = "LAVADUCTS" /\ CapOrder[6] = "PATH_3"
      /\ CapOrder[7] = "PATH_6" /\ CapOrder[8] = "PATH_7" /\ CapOrder[9] = "PLAYROOMS"
      /\ CapOrder[10] = "WASTELAND"
  BY DEF CapOrder
<1> QED
  BY <1>1, <1>2, <1>3 DEF CappedGates

\* A cap brings its gate to nine or less and lifts no other capped gate above.
LEMMA CapKeeps ==
    ASSUME NEW F \in SUBSET Gate, {"LALUNE", "LALAME"} \subseteq F,
           NEW m, OneAboveNine(m, F), NEW g
    PROVE  /\ OneAboveNine(Cap(m, g), F)
           /\ g \in F => Cap(m, g)[g] <= 9
           /\ \A h \in CappedGates \cap F : m[h] <= 9 => Cap(m, g)[h] <= 9
<1> DEFINE partners == {h \in DOMAIN m \ Range(CapOrder) : m[h] <= 9}
           h == First(partners)
<1>0. DOMAIN m = F
  BY DEF OneAboveNine
<1>1. partners = {x \in F \ CappedGates : m[x] <= 9}
  BY <1>0, CapOrderIs
<1>2. partners # {}
  <2>1. "LALUNE" \notin CappedGates /\ "LALAME" \notin CappedGates /\ "LALUNE" # "LALAME"
    BY DEF CappedGates
  <2>2. m["LALUNE"] \in 1 .. 10 /\ m["LALAME"] \in 1 .. 10
    BY DEF OneAboveNine
  <2>3. m["LALUNE"] <= 9 \/ m["LALAME"] <= 9
    BY <2>1, <2>2 DEF OneAboveNine
  <2> QED
    BY <1>1, <2>1, <2>3
<1>3. Cap(m, g) = IF g \notin F \/ m[g] <= 9 \/ partners = {} THEN m ELSE Swapped(m, g, h)
  BY <1>0, Zenon DEF Cap
<1> HIDE DEF partners
<1>4. h \in partners
  BY <1>1, <1>2, FirstIsOne
<1> HIDE DEF h
<1>5. CASE g \notin F \/ m[g] <= 9
  BY <1>3, <1>5
<1>6. CASE g \in F /\ ~(m[g] <= 9)
  <2>1. h \in F /\ h \notin CappedGates /\ m[h] <= 9 /\ h # g
    BY <1>1, <1>4, <1>6
  <2>2. Cap(m, g) = [m EXCEPT ![g] = m[h], ![h] = m[g]]
    BY <1>2, <1>3, <1>6 DEF Swapped
  <2> DEFINE c == Cap(m, g)
  <2>3. /\ c \in [F -> 1 .. 10] /\ c[g] = m[h] /\ c[h] = m[g]
        /\ \A x \in F : x # g /\ x # h => c[x] = m[x]
    BY <1>6, <2>1, <2>2 DEF OneAboveNine
  <2> HIDE DEF c
  <2>4. \A x \in F : m[x] \in 1 .. 10
    BY DEF OneAboveNine
  <2>5. \A x \in F : c[x] > 9 => x = h
    <3> SUFFICES ASSUME NEW x \in F, c[x] > 9, x # h
                 PROVE  FALSE
      OBVIOUS
    <3>1. x # g
      BY <1>6, <2>1, <2>3, <2>4
    <3>2. m[x] > 9 /\ m[g] > 9
      BY <1>6, <2>3, <2>4, <3>1
    <3> QED
      BY <1>6, <3>1, <3>2 DEF OneAboveNine
  <2>6. OneAboveNine(c, F)
    BY <2>3, <2>5 DEF OneAboveNine
  <2>7. \A x \in F : x # h => c[x] <= 9
    <3>1. \A x \in F : c[x] \in 1 .. 10
      BY <2>3
    <3> QED
      BY <2>5, <3>1
  <2> QED
    BY <1>6, <2>1, <2>6, <2>7 DEF c
<1> QED
  BY <1>5, <1>6

\* The caps, one after the other.
Capping(done, m) ==
    /\ done[0] = m
    /\ \A i \in 1 .. 10 : done[i] = Cap(done[i - 1], CapOrder[i])
    /\ CapAll(m) = done[10]

\* They are all applied.
LEMMA CapsApply == ASSUME NEW m PROVE \E done : Capping(done, m)
<1> DEFINE Body(f, i) == IF i = 0 THEN m ELSE Cap(f[i - 1], CapOrder[i])
           done == CHOOSE f : f = [i \in 0 .. 10 |-> Body(f, i)]
           c1 == Cap(m, CapOrder[1])
           c2 == Cap(c1, CapOrder[2])
           c3 == Cap(c2, CapOrder[3])
           c4 == Cap(c3, CapOrder[4])
           c5 == Cap(c4, CapOrder[5])
           c6 == Cap(c5, CapOrder[6])
           c7 == Cap(c6, CapOrder[7])
           c8 == Cap(c7, CapOrder[8])
           c9 == Cap(c8, CapOrder[9])
           c10 == Cap(c9, CapOrder[10])
           f == [i \in 0 .. 10 |->
                    CASE i = 0 -> m [] i = 1 -> c1 [] i = 2 -> c2 [] i = 3 -> c3 [] i = 4 -> c4
                      [] i = 5 -> c5 [] i = 6 -> c6 [] i = 7 -> c7 [] i = 8 -> c8
                      [] i = 9 -> c9 [] i = 10 -> c10]
<1>1. /\ f[0] = m /\ f[1] = c1 /\ f[2] = c2 /\ f[3] = c3 /\ f[4] = c4 /\ f[5] = c5
      /\ f[6] = c6 /\ f[7] = c7 /\ f[8] = c8 /\ f[9] = c9 /\ f[10] = c10
  <2> HIDE DEF c1, c2, c3, c4, c5, c6, c7, c8, c9, c10
  <2> QED
    OBVIOUS
<1>2. f = [i \in 0 .. 10 |-> f[i]]
  <2> HIDE DEF c1, c2, c3, c4, c5, c6, c7, c8, c9, c10
  <2> QED
    OBVIOUS
<1> HIDE DEF f
<1>3. /\ Body(f, 0) = m /\ Body(f, 1) = c1 /\ Body(f, 2) = c2 /\ Body(f, 3) = c3
      /\ Body(f, 4) = c4 /\ Body(f, 5) = c5 /\ Body(f, 6) = c6 /\ Body(f, 7) = c7
      /\ Body(f, 8) = c8 /\ Body(f, 9) = c9 /\ Body(f, 10) = c10
  BY <1>1
<1> HIDE DEF Body, c1, c2, c3, c4, c5, c6, c7, c8, c9, c10
<1>4. \A i \in 0 .. 10 : f[i] = Body(f, i)
  BY <1>1, <1>3
<1>5. f = [i \in 0 .. 10 |-> Body(f, i)]
  BY <1>2, <1>4
<1>6. done = [i \in 0 .. 10 |-> Body(done, i)]
  BY <1>5
<1>7. CapAll(m) = done[10]
  <2>1. Len(CapOrder) = 10
    BY CapOrderIs
  <2> QED
    BY <2>1, Zenon DEF CapAll, Body
<1> HIDE DEF done
<1>8. \A i \in 0 .. 10 : done[i] = Body(done, i)
  BY <1>6
<1>9. done[0] = m /\ \A i \in 1 .. 10 : done[i] = Cap(done[i - 1], CapOrder[i])
  BY <1>8 DEF Body
<1> QED
  BY <1>7, <1>9, Zenon DEF Capping

\* So the capped gates end at nine or less.
LEMMA CapsHold ==
    ASSUME NEW F \in SUBSET Gate, {"LALUNE", "LALAME"} \subseteq F,
           NEW m, OneAboveNine(m, F)
    PROVE  /\ CapAll(m) \in [F -> 1 .. 10]
           /\ \A g \in CappedGates \cap F : CapAll(m)[g] <= 9
<1>1. PICK done : Capping(done, m)
  BY CapsApply, Zenon
<1> DEFINE Low(i) == {g \in F : \E j \in 1 .. i : g = CapOrder[j]}
           Good(i) == OneAboveNine(done[i], F) /\ \A g \in Low(i) : done[i][g] <= 9
<1>2. \A j \in 1 .. 10 : CapOrder[j] \in CappedGates
  BY CapOrderIs DEF Range
<1>3. Good(0)
  BY <1>1 DEF Capping
<1>4. ASSUME NEW i \in 1 .. 10, Good(i - 1)
      PROVE  Good(i)
  <2>1. done[i] = Cap(done[i - 1], CapOrder[i])
    BY <1>1 DEF Capping
  <2>2. /\ OneAboveNine(done[i], F)
        /\ CapOrder[i] \in F => done[i][CapOrder[i]] <= 9
        /\ \A h \in CappedGates \cap F : done[i - 1][h] <= 9 => done[i][h] <= 9
    BY <1>4, <2>1, CapKeeps
  <2>3. \A g \in Low(i) : g = CapOrder[i] \/ g \in Low(i - 1)
    BY <1>4
  <2>4. \A g \in Low(i - 1) : g \in CappedGates \cap F
    BY <1>2, <1>4
  <2> QED
    BY <1>4, <2>2, <2>3, <2>4
<1> HIDE DEF Good
<1>5. Good(10)
  <2>1. \A i \in 1 .. 10 : Good(i - 1) => Good(i)
    BY <1>4
  <2>2. \A i, j \in 0 .. 10 : j = i + 1 /\ Good(i) => Good(j)
    <3> SUFFICES ASSUME NEW i \in 0 .. 10, NEW j \in 0 .. 10, j = i + 1, Good(i)
                 PROVE  Good(j)
      OBVIOUS
    <3>1. j \in 1 .. 10 /\ j - 1 = i
      OBVIOUS
    <3> QED
      BY <2>1, <3>1
  <2>3. Good(1) /\ Good(2) /\ Good(3)
    BY <1>3, <2>2
  <2>4. Good(4) /\ Good(5) /\ Good(6)
    BY <2>2, <2>3
  <2>5. Good(7) /\ Good(8) /\ Good(9)
    BY <2>2, <2>4
  <2> QED
    BY <2>2, <2>5
<1>6. \A g \in CappedGates : \E j \in 1 .. 10 : g = CapOrder[j]
  BY CapOrderIs DEF Range
<1> QED
  BY <1>1, <1>5, <1>6 DEF Good, Capping, OneAboveNine

\* A preset under which no region may be sealed, and the highest soul level it
\* leaves before one.
Highest(p) == IF p.safe THEN 9 ELSE 10

PresetOk(p) ==
    /\ p.lock \subseteq Gate
    /\ p.max \in {7, 8, 10}
    /\ p.safe \in BOOLEAN
    /\ p.lock \cap {"LALUNE", "LALAME"} = {}
    /\ p.safe /\ p.shuffle => HardLocked \subseteq p.lock

\* The presets are such.
LEMMA PresetsAre == \A k \in DOMAIN Preset : PresetOk(Preset[k])
<1>1. DOMAIN Preset = {"off", "open", "easy", "medium", "hard", "chaos"}
  BY DEF Preset
<1>2. HardLocked \subseteq Gate /\ {"CAGEWAYS", "PLAYROOMS", "PATH_6"} \subseteq Gate
      /\ HardLocked \cap {"LALUNE", "LALAME"} = {}
  BY DEF HardLocked, Gate
<1>3. /\ Preset["off"].lock = {} /\ Preset["off"].max = 10 /\ Preset["off"].safe = TRUE
      /\ Preset["off"].shuffle = FALSE
  BY DEF Preset
<1>4. /\ Preset["open"].lock = {} /\ Preset["open"].max = 10 /\ Preset["open"].safe = TRUE
      /\ Preset["open"].shuffle = FALSE
  BY DEF Preset
<1>5. /\ Preset["easy"].lock = HardLocked \cup {"CAGEWAYS", "PLAYROOMS", "PATH_6"}
      /\ Preset["easy"].max = 7 /\ Preset["easy"].safe = TRUE
  BY DEF Preset
<1>6. /\ Preset["medium"].lock = HardLocked /\ Preset["medium"].max = 8
      /\ Preset["medium"].safe = TRUE
  BY DEF Preset
<1>7. /\ Preset["hard"].lock = HardLocked /\ Preset["hard"].max = 10
      /\ Preset["hard"].safe = TRUE
  BY DEF Preset
<1>8. /\ Preset["chaos"].lock = {} /\ Preset["chaos"].max = 10 /\ Preset["chaos"].safe = FALSE
  BY DEF Preset
<1> QED
  BY <1>1, <1>2, <1>3, <1>4, <1>5, <1>6, <1>7, <1>8 DEF PresetOk

\* The overrides put low soul levels on gates that stand alone before a spoke.
LEMMA OverridesAre ==
    ASSUME NEW p, NEW g \in DOMAIN Overrides(p)
    PROVE  /\ g \in Gate \ p.lock
           /\ g \in {"WASTELAND", "ASYLUM", "PATH_3", "LAVADUCTS", "FOGOMETERS", "BLOOD"}
           /\ Overrides(p)[g] \in 1 .. 3
<1> DEFINE roles(x) == {r \in DOMAIN Role : {{x}} \in FrontGate(out, r)}
           H == {x \in Gate \ p.lock : roles(x) # {}}
<1>1. mode = "deadside_only"
  <2> SUFFICES ASSUME mode # "deadside_only"
               PROVE  FALSE
    OBVIOUS
  <2>1. Overrides(p) = << >>
    BY DEF Overrides
  <2> QED
    BY <2>1
<1>2. Overrides(p) = [x \in H |-> VanillaSL[Role[CHOOSE r \in roles(x) : TRUE]]]
  BY <1>1, Zenon DEF Overrides
<1>3. g \in H /\ Overrides(p)[g] = VanillaSL[Role[CHOOSE r \in roles(g) : TRUE]]
  BY <1>2
<1>4. PICK r \in DOMAIN Role : r = (CHOOSE s \in roles(g) : TRUE) /\ {{g}} \in FrontGate(out, r)
  BY <1>3
<1>5. PICK q \in DeadsidePortal : {{g}} = PortalRoutes[q]
  BY <1>4 DEF FrontGate
<1>6. g \in {"WASTELAND", "ASYLUM", "PATH_3", "LAVADUCTS", "FOGOMETERS", "BLOOD"}
  <2>1. \/ PortalRoutes[q] = {{"WASTELAND"}} \/ PortalRoutes[q] = {{"ASYLUM"}}
        \/ PortalRoutes[q] = {{"PATH_3"}} \/ PortalRoutes[q] = {{"LAVADUCTS"}}
        \/ PortalRoutes[q] = {{"FOGOMETERS"}} \/ PortalRoutes[q] = {{"BLOOD"}}
        \/ Shortcut \in PortalRoutes[q]
    BY DEF PortalRoutes, DeadsidePortal
  <2>2. Shortcut # {g}
    BY DEF Shortcut
  <2> QED
    BY <1>5, <2>1, <2>2
<1>7. VanillaSL[Role[r]] \in 1 .. 3
  <2>1. DOMAIN Role = {"Wasteland", "Gateways", "Temple of Fire"}
    BY DEF Role
  <2>2. Role["Wasteland"] = "WASTELAND" /\ Role["Gateways"] = "ASYLUM" /\ Role["Temple of Fire"] = "PATH_3"
    BY DEF Role
  <2>3. VanillaSL["WASTELAND"] = 1 /\ VanillaSL["ASYLUM"] = 2 /\ VanillaSL["PATH_3"] = 3
    BY DEF VanillaSL
  <2>4. r = "Wasteland" \/ r = "Gateways" \/ r = "Temple of Fire"
    BY <2>1
  <2>5. VanillaSL[Role[r]] = 1 \/ VanillaSL[Role[r]] = 2 \/ VanillaSL[Role[r]] = 3
    BY <2>2, <2>3, <2>4, Zenon
  <2> QED
    BY <2>5
<1> QED
  BY <1>3, <1>4, <1>6, <1>7

\* A draw for some gates gives each a level of the pool, and under a safe preset
\* no two of them more than nine.
LEMMA DrawnLevels ==
    ASSUME NEW p, PresetOk(p), NEW F \in SUBSET Gate, {"LALUNE", "LALAME"} \subseteq F,
           p.safe => Cardinality(F) \in 2 .. 18,
           NEW M \in SUBSET F, NEW f \in Bijection(M, M), NEW m,
           m = [g \in F |-> LinearPool(Cardinality(F), p.max)
                               [Rank(F, IF g \in M THEN f[g] ELSE g)]]
    PROVE  /\ m \in [F -> 1 .. 10]
           /\ p.safe => OneAboveNine(m, F)
<1> DEFINE n == Cardinality(F)
           at(g) == IF g \in M THEN f[g] ELSE g
<1>1. f \in [M -> M] /\ \A a, b \in M : f[a] = f[b] => a = b
  BY DEF Bijection, Injection, IsInjective
<1>2. \A g \in F : at(g) \in F
  BY <1>1
<1>3. \A g, h \in F : at(g) = at(h) => g = h
  BY <1>1
<1> HIDE DEF at
<1>4. n \in Nat /\ n >= 1 /\ \A g \in F : Rank(F, at(g)) \in 1 .. n
  <2>1. \A g \in F : n \in Nat /\ Rank(F, at(g)) \in 1 .. n
    BY <1>2, RanksAre
  <2> HIDE DEF n
  <2> QED
    BY <2>1
<1>5. \A g \in F : m[g] = LinearPool(n, p.max)[Rank(F, at(g))]
  BY DEF at
<1>6. \A g, h \in F : Rank(F, at(g)) = n /\ Rank(F, at(h)) = n => g = h
  <2> SUFFICES ASSUME NEW g \in F, NEW h \in F, Rank(F, at(g)) = n, Rank(F, at(h)) = n
               PROVE  g = h
    OBVIOUS
  <2>1. at(g) \in F /\ at(h) \in F
    BY <1>2
  <2>2. At(at(g)) <= At(at(h)) /\ At(at(h)) <= At(at(g))
    BY <2>1, RanksAre
  <2>3. At(at(g)) \in 1 .. 20 /\ At(at(h)) \in 1 .. 20
    BY <2>1, PlacesAre
  <2>4. At(at(g)) = At(at(h))
    BY <2>2, <2>3
  <2>5. at(g) = at(h)
    BY <2>1, <2>4, PlacesAre
  <2> QED
    BY <1>3, <2>5
<1> HIDE DEF n
<1>7. p.max \in {7, 8, 10} /\ p.safe \in BOOLEAN
  BY DEF PresetOk
<1>8. ASSUME NEW g \in F
      PROVE  /\ m[g] \in 1 .. 10
             /\ p.safe /\ m[g] > 9 => Rank(F, at(g)) = n
  <2>1. /\ LinearPool(n, p.max)[Rank(F, at(g))] \in 1 .. p.max
        /\ n \in 2 .. 18 /\ Rank(F, at(g)) # n => LinearPool(n, p.max)[Rank(F, at(g))] <= 9
    BY <1>4, <1>7, PoolIs
  <2>2. m[g] \in 1 .. p.max /\ (n \in 2 .. 18 /\ Rank(F, at(g)) # n => m[g] <= 9)
    BY <1>5, <2>1
  <2>3. p.safe => n \in 2 .. 18
    BY DEF n
  <2> QED
    BY <1>7, <2>2, <2>3
<1>9. m \in [F -> 1 .. 10]
  <2>1. m = [g \in F |-> m[g]]
    OBVIOUS
  <2> QED
    BY <1>8, <2>1
<1>10. p.safe => OneAboveNine(m, F)
  BY <1>6, <1>8, <1>9 DEF OneAboveNine
<1> QED
  BY <1>9, <1>10

\* The soul level of every gate before a region stays within the highest.
LEMMA ShuffleSpares ==
    ASSUME NEW p, PresetOk(p), p.shuffle, NEW m \in ShuffledGates(p), NEW g \in FrontGates
    PROVE  m[g] \in 0 .. Highest(p)
<1> DEFINE over == Overrides(p)
           F == Gate \ (p.lock \cup DOMAIN over)
           pool == LinearPool(Cardinality(F), p.max)
           M == MovedGates \cap F
           drawn(f) == [x \in F |-> pool[Rank(F, IF x \in M THEN f[x] ELSE x)]]
           capped(d) == IF p.safe THEN CapAll(d) ELSE d
           all(d) == [x \in Gate |-> IF x \in DOMAIN over THEN over[x]
                                     ELSE IF x \in F THEN d[x] ELSE VanillaSL[x]]
<1>1. PICK f \in Bijection(M, M) : m = all(capped(drawn(f)))
  BY Zenon DEF ShuffledGates
<1>2. FrontGates \subseteq Gate /\ g \in Gate
  BY DEF FrontGates, Gate
<1>3. \A x \in DOMAIN over : /\ over[x] \in 1 .. 3
                             /\ x \in {"WASTELAND", "ASYLUM", "PATH_3", "LAVADUCTS",
                                       "FOGOMETERS", "BLOOD"}
  BY OverridesAre
<1> HIDE DEF over
<1>4. F \in SUBSET Gate /\ {"LALUNE", "LALAME"} \subseteq F
  BY <1>3 DEF PresetOk, Gate
<1>5. p.safe => Cardinality(F) \in 2 .. 18
  <2> SUFFICES ASSUME p.safe
               PROVE  Cardinality(F) \in 2 .. 18
    OBVIOUS
  <2>1. IsFiniteSet(F) /\ Cardinality(F) \in Nat
    BY <1>4, GatesAreFew, FS_Subset, FS_CardinalityType
  <2>2. Cardinality(F) >= 2
    <3>1. IsFiniteSet({"LALUNE"}) /\ Cardinality({"LALUNE"}) = 1
      BY FS_Singleton
    <3>2. /\ IsFiniteSet({"LALUNE"} \cup {"LALAME"})
          /\ Cardinality({"LALUNE"} \cup {"LALAME"}) = 2
      BY <3>1, FS_AddElement
    <3>3. {"LALUNE"} \cup {"LALAME"} \subseteq F
      BY <1>4
    <3> HIDE DEF F
    <3>4. Cardinality({"LALUNE"} \cup {"LALAME"}) <= Cardinality(F)
      BY <2>1, <3>3, FS_Subset
    <3> QED
      BY <3>2, <3>4
  <2>3. Cardinality(F) <= 18
    <3> DEFINE place == [x \in F |-> At(x)]
    <3>1. "MARROW" \notin F /\ "WASTELAND" \notin F
      BY DEF PresetOk, HardLocked
    <3>2. GateOrder[1] = "MARROW" /\ GateOrder[2] = "WASTELAND"
      BY DEF GateOrder
    <3> HIDE DEF F
    <3>3. \A x \in F : At(x) \in 3 .. 20 /\ GateOrder[At(x)] = x
      <4>1. \A x \in F : At(x) \in 1 .. 20 /\ GateOrder[At(x)] = x
        BY <1>4, PlacesAre
      <4>2. \A x \in F : At(x) # 1 /\ At(x) # 2
        BY <3>1, <3>2, <4>1
      <4> QED
        BY <4>1, <4>2
    <3>4. place \in Injection(F, 3 .. 20)
      BY <3>3 DEF Injection, IsInjective
    <3>5. 3 \in Int /\ 20 \in Int
      OBVIOUS
    <3>6. IsFiniteSet(3 .. 20) /\ Cardinality(3 .. 20) = IF 3 > 20 THEN 0 ELSE 20 - 3 + 1
      BY <3>5, FS_Interval, Zenon
    <3> HIDE DEF place
    <3>7. Cardinality(F) <= Cardinality(3 .. 20)
      BY <3>4, <3>6, FS_Injection
    <3> QED
      BY <3>6, <3>7
  <2> QED
    BY <2>1, <2>2, <2>3
<1> DEFINE d == drawn(f)
<1>6. d \in [F -> 1 .. 10] /\ (p.safe => OneAboveNine(d, F))
  <2>1. M \in SUBSET F
    OBVIOUS
  <2>2. d = [x \in F |-> LinearPool(Cardinality(F), p.max)
                            [Rank(F, IF x \in M THEN f[x] ELSE x)]]
    OBVIOUS
  <2> HIDE DEF F, M, d
  <2> QED
    BY <1>4, <1>5, <2>1, <2>2, DrawnLevels
<1> HIDE DEF d
<1>7. capped(d) \in [F -> 1 .. 10]
      /\ (p.safe => \A x \in CappedGates \cap F : capped(d)[x] <= 9)
  <2> HIDE DEF F
  <2>1. CASE p.safe
    BY <1>4, <1>6, <2>1, CapsHold
  <2>2. CASE ~p.safe
    BY <1>6, <2>2
  <2> QED
    BY <2>1, <2>2
<1>8. m = all(capped(d))
  BY <1>1 DEF d
<1> HIDE DEF capped
<1>9. m[g] = IF g \in DOMAIN over THEN over[g] ELSE IF g \in F THEN capped(d)[g] ELSE VanillaSL[g]
  BY <1>2, <1>8
<1>10. p.safe => g \in CappedGates \/ g = "MARROW"
  BY DEF FrontGates, CappedGates
<1>11. p.safe => "MARROW" \notin F
  BY DEF PresetOk, HardLocked
<1>12. VanillaSL[g] \in 0 .. 9
  BY DEF FrontGates, VanillaSL
<1>13. CASE g \in DOMAIN over
  BY <1>3, <1>9, <1>13 DEF Highest
<1>14. CASE g \notin DOMAIN over /\ g \in F
  <2> HIDE DEF F
  <2>1. m[g] \in 1 .. 10 /\ (p.safe => m[g] <= 9)
    BY <1>7, <1>9, <1>10, <1>11, <1>14
  <2> QED
    BY <2>1 DEF Highest
<1>15. CASE g \notin DOMAIN over /\ g \notin F
  BY <1>9, <1>12, <1>15 DEF Highest
<1> QED
  BY <1>13, <1>14, <1>15

\* In a drawn seed no gate before a region asks for more than the highest.
LowGates ==
    /\ preset \in DOMAIN Preset
    /\ stage = "play" => \A g \in FrontGates : remap[g] \in 0 .. Highest(Preset[preset])

\* Every seed starts so.
LEMMA InitLow == SeedInit => LowGates
BY SeedPresets DEF SeedInit, LowGates

\* The shuffle of the gates leaves it so.
LEMMA ShuffleLow == ASSUME LowGates, ShuffleGates PROVE LowGates'
<1> DEFINE p == Preset[preset]
<1>1. PresetOk(p) /\ preset' = preset
  BY PresetsAre DEF LowGates, ShuffleGates
<1>2. PICK m : /\ m \in IF p.shuffle THEN ShuffledGates(p) ELSE {VanillaSL}
               /\ remap' = Opened(p, m)
  BY DEF ShuffleGates
<1> HIDE DEF p
<1>3. \A g \in FrontGates : m[g] \in 0 .. Highest(p)
  <2>1. CASE p.shuffle
    BY <1>1, <1>2, <2>1, ShuffleSpares
  <2>2. CASE ~p.shuffle
    <3>1. m = VanillaSL
      BY <1>2, <2>2
    <3>2. \A g \in FrontGates : VanillaSL[g] \in 0 .. 9
      BY DEF FrontGates, VanillaSL
    <3> QED
      BY <3>1, <3>2 DEF Highest
  <2> QED
    BY <2>1, <2>2
<1>4. \A g \in FrontGates : remap'[g] = 0 \/ remap'[g] = m[g]
  <2>1. FrontGates \subseteq Gate
    BY DEF FrontGates, Gate
  <2> QED
    BY <1>2, <2>1 DEF Opened
<1>5. \A g \in FrontGates : remap'[g] \in 0 .. Highest(p)
  BY <1>3, <1>4 DEF Highest
<1> QED
  BY <1>1, <1>5 DEF LowGates, p

\* Every step of the draw keeps it.
LEMMA NextLow == ASSUME LowGates, [SeedNext]_seedVars PROVE LowGates'
<1>1. CASE ShuffleEntrances
  BY <1>1 DEF ShuffleEntrances, LowGates
<1>2. CASE ShuffleGates
  BY <1>2, ShuffleLow
<1>3. ASSUME NEW k \in Gathered(mode), Gather(k)
      PROVE  LowGates'
  BY <1>3 DEF Gather, LowGates
<1>4. ASSUME NEW level \in Liveside, GatherKey(level)
      PROVE  LowGates'
  BY <1>4 DEF GatherKey, LowGates
<1>5. CASE GatherSouls
  BY <1>5 DEF GatherSouls, LowGates
<1>6. CASE UNCHANGED seedVars
  BY <1>6 DEF seedVars, LowGates
<1> QED
  BY <1>1, <1>2, <1>3, <1>4, <1>5, <1>6 DEF SeedNext

\* Low gates and entrances that lead everywhere seal nothing.
LEMMA LowAndEntered == LowGates /\ Entered => NoRegionSealed
<1> SUFFICES ASSUME LowGates, Entered, stage = "play"
             PROVE  WalkTemples(IF Preset[preset].safe THEN 95 ELSE 120) = Region
  BY DEF NoRegionSealed
<1> DEFINE souls == IF Preset[preset].safe THEN 95 ELSE 120
<1>1. /\ \A n \in 0 .. 9 : VanillaSouls[n] <= 95
      /\ \A n \in 0 .. 10 : VanillaSouls[n] <= 120
  BY DEF VanillaSouls
<1>2. \A g \in FrontGates : VanillaSouls[remap[g]] <= souls
  BY <1>1 DEF LowGates, Highest
<1>3. souls \in Nat
  OBVIOUS
<1> HIDE DEF souls
<1>4. WalkTemples(souls) = Region
  BY <1>2, <1>3, EverywhereInTheEnd DEF Entered
<1> QED
  BY <1>4 DEF souls

\* Whatever the shuffles draw for a seed, a player who holds every item gets
\* everywhere, and finds the gad powers when they are not items.
THEOREM NothingIsSealed == SeedSpec => []NoRegionSealed
<1>1. SeedInit => LowGates /\ Entered
  BY InitLow, InitEntered
<1>2. LowGates /\ Entered /\ [SeedNext]_seedVars => (LowGates /\ Entered)'
  BY NextLow, NextEntered
<1>3. LowGates /\ Entered => NoRegionSealed
  BY LowAndEntered
<1> QED
  BY <1>1, <1>2, <1>3, PTL DEF SeedSpec
=============================================================================
