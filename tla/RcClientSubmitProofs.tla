------------------------ MODULE RcClientSubmitProofs ------------------------
(***************************************************************************)
(* For every set of submissions, every delay and every bound on the        *)
(* doubling of the delays: an earned submission is in one place and the    *)
(* queue is in order (AccountedFor), and with callbacks on the thread of   *)
(* the host the player is told of the retries that wait (IndicatorMatches).*)
(***************************************************************************)
EXTENDS RcClientSubmit, FiniteSetTheorems, SequenceTheorems, WellFoundedInduction, TLAPS

\* A nonempty set of numbers has a smallest element: the place of a new entry
\* among those that are due later.
LEMMA Smallest ==
  ASSUME NEW T \in SUBSET Nat, T # {}
  PROVE \E x \in T : \A y \in T : x <= y
<1>1. PICK x \in T : \A y \in T : ~(<<y, x>> \in OpToRel(<, Nat))
  BY NatLessThanWellFounded, WFMin
<1>2. ASSUME NEW y \in T PROVE x <= y
  <2>1. <<y, x>> \in Nat \X Nat /\ <<y, x>>[1] = y /\ <<y, x>>[2] = x
    OBVIOUS
  <2>2. ~(<<y, x>>[1] < <<y, x>>[2])
    BY <1>1, <2>1 DEF OpToRel
  <2> QED BY <2>1, <2>2
<1> QED BY <1>2

IsInserted(r, S, s, i, e) ==
  /\ r \in Seq(S)
  /\ Len(r) = Len(s) + 1
  /\ \A k \in 1 .. Len(s) + 1 : r[k] = IF k < i THEN s[k] ELSE IF k = i THEN e ELSE s[k - 1]

\* InsertAt puts one element between those before the place and the others.
LEMMA InsertAtFacts ==
  ASSUME NEW S, NEW s \in Seq(S), NEW i \in 1 .. Len(s) + 1, NEW e \in S
  PROVE  IsInserted(InsertAt(s, i, e), S, s, i, e)
<1> DEFINE l == SubSeq(s, 1, i - 1)
           r == SubSeq(s, i, Len(s))
           m == l \o <<e>>
<1>1. l \in Seq(S) /\ Len(l) = i - 1 /\ \A k \in 1 .. i - 1 : l[k] = s[k]
  OBVIOUS
<1>2. r \in Seq(S) /\ Len(r) = Len(s) - i + 1 /\ \A k \in 1 .. Len(s) - i + 1 : r[k] = s[i + k - 1]
  OBVIOUS
<1> HIDE DEF l, r
<1>3. m \in Seq(S) /\ Len(m) = i /\ \A k \in 1 .. i : m[k] = IF k < i THEN s[k] ELSE e
  BY <1>1
<1> HIDE DEF m
<1>4. InsertAt(s, i, e) = m \o r
  BY DEF InsertAt, m, l, r
<1>5. /\ m \o r \in Seq(S) /\ Len(m \o r) = Len(m) + Len(r)
      /\ \A k \in 1 .. Len(m) + Len(r) : (m \o r)[k] = IF k <= Len(m) THEN m[k] ELSE r[k - Len(m)]
  BY <1>2, <1>3, ConcatProperties
<1>6. Len(m) + Len(r) = Len(s) + 1
  BY <1>2, <1>3
<1>7. ASSUME NEW k \in 1 .. Len(s) + 1
      PROVE (m \o r)[k] = IF k < i THEN s[k] ELSE IF k = i THEN e ELSE s[k - 1]
  <2>1. CASE k <= i BY <2>1, <1>3, <1>5, <1>6
  <2>2. CASE k > i
    <3>0. k \in 1 .. Len(m) + Len(r) /\ ~(k <= Len(m)) /\ Len(m) = i
      BY <2>2, <1>3, <1>6
    <3>1. (m \o r)[k] = r[k - i] BY <3>0, <1>5
    <3>2. k - i \in 1 .. Len(s) - i + 1 /\ i + (k - i) - 1 = k - 1 BY <2>2
    <3> QED BY <2>2, <3>1, <3>2, <1>2
  <2>3. k <= i \/ k > i
    OBVIOUS
  <2> QED BY <2>1, <2>2, <2>3
<1> QED
  BY <1>4, <1>5, <1>6, <1>7 DEF IsInserted

\* RemoveAt leaves the elements before the place and moves the others up.
LEMMA RemoveAtFacts ==
  ASSUME NEW S, NEW s \in Seq(S), NEW i \in 1 .. Len(s)
  PROVE  /\ RemoveAt(s, i) \in Seq(S)
         /\ Len(RemoveAt(s, i)) = Len(s) - 1
         /\ \A k \in 1 .. Len(s) - 1 :
              RemoveAt(s, i)[k] = IF k < i THEN s[k] ELSE s[k + 1]
<1> DEFINE l == SubSeq(s, 1, i - 1)
           r == SubSeq(s, i + 1, Len(s))
<1>1. l \in Seq(S) /\ Len(l) = i - 1 /\ \A k \in 1 .. i - 1 : l[k] = s[k]
  OBVIOUS
<1>2. r \in Seq(S) /\ Len(r) = Len(s) - i /\ \A k \in 1 .. Len(s) - i : r[k] = s[i + k]
  OBVIOUS
<1>3. RemoveAt(s, i) = l \o r
  BY DEF RemoveAt
<1> HIDE DEF l, r
<1>4. /\ l \o r \in Seq(S) /\ Len(l \o r) = Len(l) + Len(r)
      /\ \A k \in 1 .. Len(l) + Len(r) : (l \o r)[k] = IF k <= Len(l) THEN l[k] ELSE r[k - Len(l)]
  BY <1>1, <1>2, ConcatProperties
<1>5. ASSUME NEW k \in 1 .. Len(s) - 1
      PROVE (l \o r)[k] = IF k < i THEN s[k] ELSE s[k + 1]
  <2>0. k \in 1 .. Len(l) + Len(r) /\ Len(l) = i - 1
    BY <1>1, <1>2
  <2>1. CASE k < i BY <2>0, <2>1, <1>1, <1>4
  <2>2. CASE k >= i
    <3>1. (l \o r)[k] = r[k - (i - 1)]
      BY <2>0, <2>2, <1>4
    <3>2. k - (i - 1) \in 1 .. Len(s) - i /\ i + (k - (i - 1)) = k + 1
      BY <2>2
    <3>3. r[k - (i - 1)] = s[i + (k - (i - 1))]
      BY <3>2, <1>2
    <3> QED BY <2>2, <3>1, <3>2, <3>3
  <2>3. k < i \/ k >= i
    OBVIOUS
  <2> QED BY <2>1, <2>2, <2>3
<1> QED
  BY <1>1, <1>2, <1>3, <1>4, <1>5

\* A retry is never due at once: the delay is at least a second.
LEMMA DelayPositive ==
  ASSUME NEW count \in Nat \ {0, 1}
  PROVE  Delay(count) \in Nat \ {0}
<1> DEFINE n == count - 2
           S == 1 .. n
<1>1. n \in Nat /\ IsFiniteSet(S) /\ Cardinality(S) = n
  BY FS_Interval
<1> HIDE DEF n
<1>2. IsFiniteSet(SUBSET S) /\ Cardinality(SUBSET S) = 2 ^ n
  BY <1>1, FS_SUBSET
<1>3. SUBSET S # {}
  OBVIOUS
<1> HIDE DEF S
<1>4. Cardinality(SUBSET S) \in Nat /\ Cardinality(SUBSET S) # 0
  BY <1>2, <1>3, FS_EmptySet, FS_CardinalityType
<1>5. 2 ^ n \in Nat \ {0}
  BY <1>2, <1>4
<1> QED BY <1>5, SubmitAssumption DEF Delay, n

-----------------------------------------------------------------------------
(* The queue.                                                               *)

Entry == [item : Submissions \cup {Ping}, when : Nat]

ItemsOf(q) == {q[i].item : i \in DOMAIN q}

\* What every operation keeps of the queue.
Ordered(q) ==
  /\ q \in Seq(Entry)
  /\ \A i, j \in DOMAIN q : q[i].item = q[j].item => i = j
  /\ \A i, j \in DOMAIN q : i < j => q[i].when <= q[j].when

AllLater(q) == \A i \in DOMAIN q : q[i].when > 0

\* rc_client_schedule_callback keeps the order, and adds the new entry only.
LEMMA ScheduledFacts ==
  ASSUME Ordered(queue), NEW item \in Submissions \cup {Ping}, NEW when \in Nat,
         item \notin Items
  PROVE  /\ Ordered(Scheduled(item, when))
         /\ ItemsOf(Scheduled(item, when)) = Items \cup {item}
         /\ AllLater(queue) /\ when > 0 => AllLater(Scheduled(item, when))
<1> DEFINE later == {i \in DOMAIN queue : when < queue[i].when}
           at == IF later = {} THEN Len(queue) + 1
                 ELSE CHOOSE i \in later : \A j \in later : i <= j
           e == [item |-> item, when |-> when]
           n == Len(queue)
           q == Scheduled(item, when)
<1>0. /\ queue \in Seq(Entry) /\ n \in Nat /\ DOMAIN queue = 1 .. n /\ e \in Entry
      /\ e.item = item /\ e.when = when
      /\ \A i \in 1 .. n : queue[i].when \in Nat /\ queue[i] \in Entry
  <2>1. queue \in Seq(Entry) /\ n \in Nat /\ DOMAIN queue = 1 .. n
    BY DEF Ordered
  <2>2. ASSUME NEW i \in 1 .. n PROVE queue[i].when \in Nat /\ queue[i] \in Entry
    <3>1. queue[i] \in Entry
      BY <2>1
    <3> QED BY <3>1 DEF Entry
  <2>3. e \in Entry /\ e.item = item /\ e.when = when
    BY DEF Entry
  <2> QED BY <2>1, <2>2, <2>3
<1>1. /\ at \in 1 .. n + 1
      /\ \A j \in 1 .. n : j < at => queue[j].when <= when
      /\ \A j \in 1 .. n : j >= at => when <= queue[j].when
  <2>1. CASE later = {}
    <3>1. at = n + 1
      BY <2>1
    <3>2. \A j \in 1 .. n : ~(when < queue[j].when)
      BY <2>1, <1>0
    <3> HIDE DEF at, later
    <3> QED BY <3>1, <3>2, <1>0
  <2>2. CASE later # {}
    <3>1. \E x \in later : \A j \in later : x <= j
      <4>1. later \in SUBSET Nat
        BY <1>0
      <4> HIDE DEF later
      <4> QED BY <4>1, <2>2, Smallest
    <3>2. at \in later /\ \A j \in later : at <= j
      BY <2>2, <3>1
    <3> HIDE DEF at
    <3>3. at \in 1 .. n /\ when < queue[at].when
      BY <3>2, <1>0
    <3>4. ASSUME NEW j \in 1 .. n, j < at PROVE queue[j].when <= when
      BY <3>2, <3>3, <3>4, <1>0
    <3>5. ASSUME NEW j \in 1 .. n, j >= at PROVE when <= queue[j].when
      <4>1. queue[at].when <= queue[j].when
        BY <3>3, <3>5, <1>0 DEF Ordered
      <4> QED BY <4>1, <3>3, <1>0
    <3> HIDE DEF later
    <3> QED BY <3>3, <3>4, <3>5, <1>0
  <2> QED BY <2>1, <2>2
<1> HIDE DEF at, later
<1>2. q = InsertAt(queue, at, e)
  BY DEF Scheduled, at, later, e
<1> HIDE DEF q, e
<1>3. /\ q \in Seq(Entry) /\ Len(q) = n + 1 /\ DOMAIN q = 1 .. n + 1
      /\ \A k \in 1 .. n + 1 :
           q[k] = IF k < at THEN queue[k] ELSE IF k = at THEN e ELSE queue[k - 1]
  <2>1. queue \in Seq(Entry) /\ at \in 1 .. Len(queue) + 1 /\ e \in Entry
    BY <1>0, <1>1
  <2>2. IsInserted(InsertAt(queue, at, e), Entry, queue, at, e)
    BY <2>1, InsertAtFacts
  <2>3. IsInserted(q, Entry, queue, at, e)
    BY <1>2, <2>2
  <2>4. DOMAIN q = 1 .. n + 1
    BY <2>3 DEF IsInserted
  <2> QED BY <2>3, <2>4 DEF IsInserted
<1> DEFINE old(k) == IF k < at THEN k ELSE k - 1
<1>4. /\ q[at] = e
      /\ \A k \in 1 .. n + 1 : k # at => old(k) \in 1 .. n /\ q[k] = queue[old(k)]
      /\ \A k, l \in 1 .. n + 1 : k # at /\ l # at /\ k < l => old(k) < old(l)
      /\ \A k \in 1 .. n + 1 : k < at => old(k) < at
      /\ \A k \in 1 .. n + 1 : k > at => old(k) >= at
      /\ \A k \in 1 .. n : \E l \in 1 .. n + 1 : l # at /\ old(l) = k
  <2>1. n \in Nat /\ at \in 1 .. n + 1
    BY <1>0, <1>1
  <2> HIDE DEF n
  <2>2. ASSUME NEW k \in 1 .. n PROVE \E l \in 1 .. n + 1 : l # at /\ old(l) = k
    <3>1. CASE k < at
      BY <3>1, <2>1
    <3>2. CASE k >= at
      <4>1. k + 1 \in 1 .. n + 1 /\ k + 1 # at /\ old(k + 1) = k
        BY <3>2, <2>1
      <4> QED BY <4>1
    <3> QED BY <3>1, <3>2, <2>1
  <2>3. ASSUME NEW k \in 1 .. n + 1, k # at PROVE old(k) \in 1 .. n /\ q[k] = queue[old(k)]
    <3>1. CASE k < at
      BY <3>1, <2>1, <1>3
    <3>2. CASE k > at
      BY <3>2, <2>1, <1>3
    <3> QED BY <3>1, <3>2, <2>1, <2>3
  <2>4. q[at] = e
    BY <2>1, <1>3
  <2> QED BY <2>1, <2>2, <2>3, <2>4
<1> HIDE DEF old
<1>5. \A i \in 1 .. n : queue[i].item # item
  BY <1>0 DEF Items
<1>6. ASSUME NEW i \in 1 .. n + 1, NEW j \in 1 .. n + 1, q[i].item = q[j].item
      PROVE  i = j
  <2>1. \A k, l \in 1 .. n : queue[k].item = queue[l].item => k = l
    BY <1>0 DEF Ordered
  <2>2. CASE i = at \/ j = at
    BY <2>2, <1>0, <1>4, <1>5, <1>6
  <2>3. CASE i # at /\ j # at
    <3>1. old(i) = old(j)
      BY <2>1, <2>3, <1>4, <1>6
    <3>2. ~(i < j) /\ ~(j < i)
      BY <3>1, <2>3, <1>4
    <3> QED BY <3>2
  <2> QED BY <2>2, <2>3
<1>7. ASSUME NEW i \in 1 .. n + 1, NEW j \in 1 .. n + 1, i < j
      PROVE  q[i].when <= q[j].when
  <2>1. \A k, l \in 1 .. n : k < l => queue[k].when <= queue[l].when
    BY <1>0 DEF Ordered
  <2>2. CASE i # at /\ j # at
    BY <2>1, <2>2, <1>4, <1>7
  <2>3. CASE j = at
    BY <2>3, <1>0, <1>1, <1>4, <1>7
  <2>4. CASE i = at
    BY <2>4, <1>0, <1>1, <1>4, <1>7
  <2> QED BY <2>2, <2>3, <2>4
<1>8. Ordered(q)
  BY <1>3, <1>6, <1>7 DEF Ordered
<1>9. ItemsOf(q) = Items \cup {item}
  <2>1. ASSUME NEW x \in ItemsOf(q) PROVE x \in Items \cup {item}
    <3>1. PICK k \in 1 .. n + 1 : x = q[k].item
      BY <1>3 DEF ItemsOf
    <3> QED BY <3>1, <1>0, <1>4 DEF Items
  <2>2. ASSUME NEW x \in Items PROVE x \in ItemsOf(q)
    <3>1. PICK k \in 1 .. n : x = queue[k].item
      BY <1>0 DEF Items
    <3>2. PICK l \in 1 .. n + 1 : l # at /\ old(l) = k
      BY <1>4
    <3> QED BY <3>1, <3>2, <1>3, <1>4 DEF ItemsOf
  <2>3. item \in ItemsOf(q)
    BY <1>0, <1>1, <1>3, <1>4 DEF ItemsOf
  <2> QED BY <2>1, <2>2, <2>3
<1>10. AllLater(queue) /\ when > 0 => AllLater(q)
  BY <1>0, <1>3, <1>4 DEF AllLater
<1> QED BY <1>8, <1>9, <1>10 DEF q

\* A queue made of entries of another one, in their order, is in order.
LEMMA Picked ==
  ASSUME Ordered(queue), NEW q \in Seq(Entry),
         NEW old \in [1 .. Len(q) -> 1 .. Len(queue)],
         \A k \in 1 .. Len(q) : q[k] = queue[old[k]],
         \A k, l \in 1 .. Len(q) : k < l => old[k] < old[l]
  PROVE  Ordered(q) /\ ItemsOf(q) = {queue[old[k]].item : k \in 1 .. Len(q)}
<1> DEFINE n == Len(queue)
           m == Len(q)
<1>0. /\ n \in Nat /\ m \in Nat /\ DOMAIN queue = 1 .. n /\ DOMAIN q = 1 .. m
      /\ \A i, j \in 1 .. n : queue[i].item = queue[j].item => i = j
      /\ \A i, j \in 1 .. n : i < j => queue[i].when <= queue[j].when
  BY DEF Ordered
<1> HIDE DEF n, m
<1>1. \A k \in 1 .. m : old[k] \in 1 .. n /\ q[k] = queue[old[k]]
  BY DEF n, m
<1>2. \A k, l \in 1 .. m : k < l => old[k] < old[l]
  BY DEF m
<1>3. ASSUME NEW i \in 1 .. m, NEW j \in 1 .. m, q[i].item = q[j].item PROVE i = j
  <2>1. old[i] = old[j]
    BY <1>0, <1>1, <1>3
  <2>2. ~(i < j) /\ ~(j < i)
    BY <2>1, <1>1, <1>2
  <2> QED BY <2>2, <1>0
<1>4. ASSUME NEW i \in 1 .. m, NEW j \in 1 .. m, i < j PROVE q[i].when <= q[j].when
  BY <1>0, <1>1, <1>2, <1>4
<1>5. Ordered(q)
  BY <1>0, <1>3, <1>4 DEF Ordered
<1>6. ItemsOf(q) = {queue[old[k]].item : k \in 1 .. m}
  BY <1>0, <1>1 DEF ItemsOf
<1> QED BY <1>5, <1>6 DEF m

\* Idle takes the first entry and leaves the order.
LEMMA TailFacts ==
  ASSUME Ordered(queue), queue # <<>>
  PROVE  /\ Ordered(Tail(queue))
         /\ ItemsOf(Tail(queue)) = Items \ {Head(queue).item}
         /\ Head(queue).item \in Items
<1> DEFINE n == Len(queue)
           q == Tail(queue)
           old == [k \in 1 .. n - 1 |-> k + 1]
<1>0. /\ queue \in Seq(Entry) /\ n \in Nat \ {0} /\ DOMAIN queue = 1 .. n
      /\ \A i, j \in 1 .. n : queue[i].item = queue[j].item => i = j
  BY DEF Ordered
<1>1. /\ q \in Seq(Entry) /\ Len(q) = n - 1
      /\ \A k \in 1 .. n - 1 : q[k] = queue[k + 1]
      /\ Head(queue) = queue[1]
  BY <1>0, HeadTailProperties
<1> HIDE DEF q, n
<1>2. /\ old \in [1 .. Len(q) -> 1 .. n]
      /\ \A k \in 1 .. Len(q) : old[k] = k + 1 /\ q[k] = queue[old[k]]
      /\ \A k, l \in 1 .. Len(q) : k < l => old[k] < old[l]
  BY <1>0, <1>1
<1> HIDE DEF old
<1>3. Ordered(q) /\ ItemsOf(q) = {queue[old[k]].item : k \in 1 .. Len(q)}
  BY <1>1, <1>2, Picked DEF n
<1>4. ItemsOf(q) = Items \ {queue[1].item}
  <2>1. ASSUME NEW x \in ItemsOf(q) PROVE x \in Items \ {queue[1].item}
    <3>1. PICK k \in 1 .. Len(q) : x = queue[k + 1].item
      BY <1>2, <1>3
    <3>2. k + 1 \in 1 .. n /\ 1 \in 1 .. n /\ k + 1 # 1
      BY <1>0, <1>1
    <3> QED BY <3>1, <3>2, <1>0 DEF Items
  <2>2. ASSUME NEW x \in Items, x # queue[1].item PROVE x \in ItemsOf(q)
    <3>1. PICK k \in 1 .. n : x = queue[k].item
      BY <1>0 DEF Items
    <3>2. k - 1 \in 1 .. Len(q) /\ old[k - 1] = k
      BY <3>1, <2>2, <1>0, <1>1, <1>2
    <3> QED BY <3>1, <3>2, <1>3
  <2> QED BY <2>1, <2>2
<1> QED BY <1>0, <1>1, <1>3, <1>4 DEF Items, q

\* Unloading takes the ping out and nothing else.
LEMMA WithoutPingFacts ==
  ASSUME Ordered(queue)
  PROVE  Ordered(WithoutPing) /\ ItemsOf(WithoutPing) = Items \ {Ping}
<1>1. CASE Ping \notin Items
  BY <1>1 DEF WithoutPing, Items, ItemsOf
<1>2. CASE Ping \in Items
  <2> DEFINE n == Len(queue)
             at == CHOOSE i \in DOMAIN queue : queue[i].item = Ping
             q == RemoveAt(queue, at)
             old == [k \in 1 .. n - 1 |-> IF k < at THEN k ELSE k + 1]
  <2>0. /\ queue \in Seq(Entry) /\ n \in Nat /\ DOMAIN queue = 1 .. n
        /\ \A i, j \in 1 .. n : queue[i].item = queue[j].item => i = j
    BY DEF Ordered
  <2>1. at \in 1 .. n /\ queue[at].item = Ping
    BY <1>2, <2>0 DEF Items
  <2>2. WithoutPing = q
    BY <1>2 DEF WithoutPing
  <2> HIDE DEF at
  <2>3. /\ q \in Seq(Entry) /\ Len(q) = n - 1
        /\ \A k \in 1 .. n - 1 : q[k] = IF k < at THEN queue[k] ELSE queue[k + 1]
    <3>1. queue \in Seq(Entry) /\ at \in 1 .. Len(queue)
      BY <2>0, <2>1
    <3> QED BY <3>1, RemoveAtFacts
  <2> HIDE DEF q, n
  <2>4. /\ old \in [1 .. Len(q) -> 1 .. n]
        /\ \A k \in 1 .. Len(q) : old[k] # at /\ q[k] = queue[old[k]]
        /\ \A k, l \in 1 .. Len(q) : k < l => old[k] < old[l]
        /\ \A k \in 1 .. n : k < at => k \in 1 .. Len(q) /\ old[k] = k
        /\ \A k \in 1 .. n : k > at => k - 1 \in 1 .. Len(q) /\ old[k - 1] = k
    BY <2>0, <2>1, <2>3
  <2> HIDE DEF old
  <2>5. Ordered(q) /\ ItemsOf(q) = {queue[old[k]].item : k \in 1 .. Len(q)}
    BY <2>3, <2>4, Picked DEF n
  <2>6. ItemsOf(q) = Items \ {Ping}
    <3>1. ASSUME NEW x \in ItemsOf(q) PROVE x \in Items \ {Ping}
      <4>1. PICK k \in 1 .. Len(q) : x = queue[old[k]].item
        BY <2>5
      <4>2. old[k] \in 1 .. n /\ old[k] # at
        BY <2>4
      <4> QED BY <4>1, <4>2, <2>0, <2>1 DEF Items
    <3>2. ASSUME NEW x \in Items, x # Ping PROVE x \in ItemsOf(q)
      <4>1. PICK k \in 1 .. n : x = queue[k].item
        BY <2>0 DEF Items
      <4>2. k < at \/ k > at
        BY <4>1, <3>2, <2>0, <2>1
      <4>3. \E l \in 1 .. Len(q) : old[l] = k
        BY <4>2, <2>4
      <4> QED BY <4>1, <4>3, <2>5
    <3> QED BY <3>1, <3>2
  <2> QED BY <2>2, <2>5, <2>6
<1> QED BY <1>1, <1>2

\* Time passes for all entries alike.
LEMMA TickFacts ==
  ASSUME Ordered(queue),
         queue' = [i \in DOMAIN queue |->
                    [queue[i] EXCEPT !.when = IF @ > 0 THEN @ - 1 ELSE 0]]
  PROVE  Ordered(queue') /\ Items' = Items
<1> DEFINE n == Len(queue)
           q == queue'
<1>0. /\ queue \in Seq(Entry) /\ n \in Nat /\ DOMAIN queue = 1 .. n
      /\ DOMAIN q = 1 .. n
      /\ \A i, j \in 1 .. n : queue[i].item = queue[j].item => i = j
      /\ \A i, j \in 1 .. n : i < j => queue[i].when <= queue[j].when
  BY DEF Ordered
<1>1. ASSUME NEW i \in 1 .. n
      PROVE  /\ q[i] \in Entry /\ q[i].item = queue[i].item
             /\ q[i].when = IF queue[i].when > 0 THEN queue[i].when - 1 ELSE 0
             /\ queue[i].when \in Nat
  <2>1. queue[i] \in Entry
    BY <1>0
  <2>2. queue[i].when \in Nat /\ queue[i].item \in Submissions \cup {Ping}
    BY <2>1 DEF Entry
  <2> DEFINE w == IF queue[i].when > 0 THEN queue[i].when - 1 ELSE 0
  <2>3. q[i] = [queue[i] EXCEPT !.when = w]
    BY <1>0
  <2>4. w \in Nat
    BY <2>2
  <2> HIDE DEF w
  <2>5. /\ [queue[i] EXCEPT !.when = w] \in Entry
        /\ [queue[i] EXCEPT !.when = w].item = queue[i].item
        /\ [queue[i] EXCEPT !.when = w].when = w
    BY <2>1, <2>4 DEF Entry
  <2> QED BY <2>2, <2>3, <2>5 DEF w
<1>2. q \in Seq(Entry)
  <2>1. q = [i \in 1 .. n |-> q[i]]
    BY <1>0
  <2> HIDE DEF q
  <2>2. q \in [1 .. n -> Entry]
    BY <1>1, <2>1
  <2> QED BY <2>2, <1>0
<1> HIDE DEF q
<1>3. ASSUME NEW i \in 1 .. n, NEW j \in 1 .. n
      PROVE  /\ q[i].item = q[j].item => i = j
             /\ i < j => q[i].when <= q[j].when
  BY <1>0, <1>1
<1>4. Ordered(q)
  BY <1>0, <1>2, <1>3 DEF Ordered
<1> QED BY <1>0, <1>1, <1>4 DEF Items, q

-----------------------------------------------------------------------------
(* Where the submissions are.                                               *)

\* A submission is in flight, answered, dropped, queued or running.
OnePlace ==
  /\ inflight \cap (settled \cup dropped \cup Items \cup running) = {}
  /\ settled \cap (dropped \cup Items \cup running) = {}
  /\ dropped \cap (Items \cup running) = {}
  /\ Items \cap running = {}
  /\ inflight \cup settled \cup dropped \cup ((Items \cup running) \ {Ping}) = earned

\* The ping of the game is queued, or runs.
PingOfGame == Ping \in Items \cup running <=> game

\* Idle has taken an entry from the queue only while it runs it.
RunsOne ==
  /\ host = "run" => \E x : running = {x}
  /\ host # "run" => running = {}

TestedLater == host = "test" => AllLater(queue)

IInv == TypeOK /\ Ordered(queue) /\ OnePlace /\ PingOfGame /\ RunsOne /\ TestedLater

\* The items of the queue, with the parts of TypeOK the steps use most.
LEMMA QueueFacts ==
  ASSUME TypeOK
  PROVE  /\ Items = ItemsOf(queue) /\ Items' = ItemsOf(queue')
         /\ queue' = queue => Items' = Items
         /\ Items \subseteq Submissions \cup {Ping}
         /\ inflight \subseteq Submissions /\ settled \subseteq Submissions
         /\ dropped \subseteq Submissions /\ earned \subseteq Submissions
         /\ running \subseteq Submissions \cup {Ping}
         /\ Ping \notin Submissions
<1>1. queue \in Seq(Entry)
  BY DEF TypeOK, Entry
<1>2. ASSUME NEW i \in DOMAIN queue PROVE queue[i].item \in Submissions \cup {Ping}
  <2>1. queue[i] \in Entry
    BY <1>1
  <2> QED BY <2>1 DEF Entry
<1>3. Items \subseteq Submissions \cup {Ping}
  BY <1>2 DEF Items
<1>4. Items = ItemsOf(queue) /\ Items' = ItemsOf(queue') /\ (queue' = queue => Items' = Items)
  BY DEF Items, ItemsOf
<1> QED BY <1>3, <1>4, PingAssumption DEF TypeOK

\* What has failed before is queued with a count of two at least.
LEMMA RetriedAtLeastTwice ==
  ASSUME TypeOK, NEW s \in Submissions, FailedAgain(s)
  PROVE  /\ retry_count' \in [Submissions -> 0 .. RetryBound]
         /\ retry_count'[s] \in Nat \ {0, 1}
         /\ \A t \in Submissions : retry_count[t] > 0 => retry_count'[t] > 0
<1> DEFINE c == IF retry_count[s] < RetryBound THEN retry_count[s] + 1 ELSE retry_count[s]
<1>1. /\ retry_count \in [Submissions -> 0 .. RetryBound]
      /\ RetryBound \in Nat /\ RetryBound > 1
  BY SubmitAssumption DEF TypeOK, RetryBound
<1>2. retry_count[s] \in 0 .. RetryBound /\ retry_count[s] > 0
  BY <1>1 DEF FailedAgain
<1>3. c \in 0 .. RetryBound /\ c \in Nat \ {0, 1}
  BY <1>1, <1>2
<1>4. retry_count' = [retry_count EXCEPT ![s] = c]
  BY DEF FailedAgain
<1> HIDE DEF c
<1>5. retry_count' \in [Submissions -> 0 .. RetryBound] /\ retry_count'[s] = c
  BY <1>1, <1>3, <1>4
<1>6. ASSUME NEW t \in Submissions, retry_count[t] > 0 PROVE retry_count'[t] > 0
  BY <1>1, <1>3, <1>4, <1>6
<1> QED BY <1>3, <1>5, <1>6

\* Nothing is earned and nothing is queued in the beginning.
LEMMA InitIInv == Init => IInv
<1> SUFFICES ASSUME Init PROVE IInv
  OBVIOUS
<1>1. queue = <<>> /\ DOMAIN queue = {} /\ Items = {}
  BY DEF Init, Items
<1>2. queue \in Seq([item : Submissions \cup {Ping}, when : Nat])
  BY <1>1
<1>3. TypeOK
  <2>1. 0 \in 0 .. RetryBound
    BY SubmitAssumption DEF RetryBound
  <2>2. retry_count \in [Submissions -> 0 .. RetryBound]
    BY <2>1 DEF Init
  <2> QED BY <1>2, <2>2, SubmitAssumption DEF Init, TypeOK, None
<1>4. Ordered(queue)
  BY <1>1, <1>2 DEF Ordered, Entry
<1>5. OnePlace /\ PingOfGame /\ RunsOne /\ TestedLater
  BY <1>1 DEF Init, OnePlace, PingOfGame, RunsOne, TestedLater, None
<1> QED BY <1>3, <1>4, <1>5 DEF IInv

\* Every step of the host, of idle and of the callbacks keeps the places apart
\* and the queue in order.
LEMMA NextIInv == IInv /\ [Next]_vars => IInv'
<1> SUFFICES ASSUME IInv, [Next]_vars PROVE IInv'
  OBVIOUS
<1>0. TypeOK /\ Ordered(queue) /\ OnePlace /\ PingOfGame /\ RunsOne /\ TestedLater
  BY DEF IInv
<1>1. /\ Items = ItemsOf(queue) /\ Items' = ItemsOf(queue')
      /\ queue' = queue => Items' = Items
      /\ Items \subseteq Submissions \cup {Ping}
      /\ inflight \subseteq Submissions /\ settled \subseteq Submissions
      /\ dropped \subseteq Submissions /\ earned \subseteq Submissions
      /\ running \subseteq Submissions \cup {Ping}
      /\ Ping \notin Submissions
  BY <1>0, QueueFacts
<1>2. queue' = queue => Ordered(queue') /\ (AllLater(queue) => AllLater(queue'))
  BY <1>0
<1>3. Ordered(queue') => queue' \in Seq([item : Submissions \cup {Ping}, when : Nat])
  BY DEF Ordered, Entry
<1> USE DEF submissions
<1>4. CASE LoadGame
  <2>1. Ping \notin Items
    BY <1>0, <1>4 DEF LoadGame, PingOfGame
  <2>2. Ordered(queue') /\ Items' = Items \cup {Ping}
    BY <2>1, <1>0, <1>1, <1>4, ScheduledFacts, SubmitAssumption DEF LoadGame
  <2>3. TypeOK'
    BY <2>2, <1>0, <1>3, <1>4 DEF LoadGame, TypeOK
  <2>4. OnePlace' /\ PingOfGame' /\ RunsOne' /\ TestedLater'
    BY <2>1, <2>2, <1>0, <1>1, <1>4
    DEF LoadGame, HostIdle, OnePlace, PingOfGame, RunsOne, TestedLater
  <2> QED BY <2>2, <2>3, <2>4 DEF IInv
<1>5. CASE UnloadGame \/ LogOut
  <2>1. Ordered(queue') /\ Items' = Items \ {Ping}
    BY <1>0, <1>1, <1>5, WithoutPingFacts DEF UnloadGame, LogOut
  <2>2. host = "out" /\ running = {}
    BY <1>0, <1>5 DEF UnloadGame, LogOut, HostIdle, RunsOne
  <2>3. TypeOK'
    BY <2>1, <1>0, <1>3, <1>5 DEF UnloadGame, LogOut, TypeOK
  <2>4. OnePlace' /\ PingOfGame' /\ RunsOne' /\ TestedLater'
    BY <2>1, <2>2, <1>0, <1>1, <1>5
    DEF UnloadGame, LogOut, OnePlace, PingOfGame, RunsOne, TestedLater
  <2> QED BY <2>1, <2>3, <2>4 DEF IInv
<1>6. CASE LogIn
  <2>1. TypeOK'
    BY <1>0, <1>6 DEF LogIn, TypeOK
  <2>2. OnePlace' /\ PingOfGame' /\ RunsOne' /\ TestedLater'
    BY <1>0, <1>1, <1>6 DEF LogIn, HostIdle, OnePlace, PingOfGame, RunsOne, TestedLater
  <2> QED BY <2>1, <2>2, <1>2, <1>6 DEF IInv, LogIn
<1>7. CASE \E s \in Submissions : Earn(s)
  <2> PICK s \in Submissions : Earn(s)
    BY <1>7
  <2>1. logged_in /\ inflight' = inflight \cup {s} /\ dropped' = dropped
        /\ earned' = earned \cup {s} /\ s \notin earned /\ settled' = settled
        /\ queue' = queue /\ running' = running /\ host = "out" /\ host' = host /\ game' = game
    BY <1>0 DEF Earn, ServerCall, TypeOK, HostIdle
  <2>2. TypeOK'
    BY <2>1, <1>0 DEF Earn, TypeOK
  <2>3. OnePlace'
    BY <2>1, <1>0, <1>1 DEF OnePlace
  <2>4. PingOfGame' /\ RunsOne' /\ TestedLater'
    BY <2>1, <1>0, <1>1 DEF PingOfGame, RunsOne, TestedLater
  <2> QED BY <2>1, <2>2, <2>3, <2>4, <1>2 DEF IInv
<1>8. CASE Tick
  <2>1. Ordered(queue') /\ Items' = Items
    BY <1>0, <1>8, TickFacts DEF Tick
  <2>2. TypeOK'
    BY <2>1, <1>0, <1>3, <1>8 DEF Tick, TypeOK
  <2>3. OnePlace' /\ PingOfGame' /\ RunsOne' /\ TestedLater'
    BY <2>1, <1>0, <1>1, <1>8 DEF Tick, OnePlace, PingOfGame, RunsOne, TestedLater
  <2> QED BY <2>1, <2>2, <2>3 DEF IInv
<1>9. CASE IdleBegin
  <2>1. TypeOK'
    BY <1>0, <1>9 DEF IdleBegin, TypeOK
  <2>2. TestedLater'
    <3>1. queue = <<>> => AllLater(queue)
      BY DEF AllLater
    <3> QED BY <3>1, <1>9 DEF IdleBegin, TestedLater
  <2>3. OnePlace' /\ PingOfGame' /\ RunsOne'
    BY <1>0, <1>1, <1>9 DEF IdleBegin, HostIdle, OnePlace, PingOfGame, RunsOne
  <2> QED BY <2>1, <2>2, <2>3, <1>2, <1>9 DEF IInv, IdleBegin
<1>10. CASE IdlePop
  <2> DEFINE x == Head(queue).item
  <2>1. Ordered(queue') /\ Items' = Items \ {x} /\ x \in Items /\ running' = {x}
    BY <1>0, <1>1, <1>10, TailFacts DEF IdlePop, Due
  <2> HIDE DEF x
  <2>2. host = "loop" /\ host' = "run" /\ running = {}
    BY <1>0, <1>10 DEF IdlePop, RunsOne
  <2>3. TypeOK'
    BY <2>1, <2>2, <1>0, <1>1, <1>3, <1>10 DEF IdlePop, TypeOK
  <2>4. OnePlace'
    BY <2>1, <2>2, <1>0, <1>1, <1>10 DEF IdlePop, OnePlace
  <2>5. PingOfGame' /\ RunsOne' /\ TestedLater'
    BY <2>1, <2>2, <1>0, <1>1, <1>10 DEF IdlePop, PingOfGame, RunsOne, TestedLater
  <2> QED BY <2>1, <2>3, <2>4, <2>5 DEF IInv
<1>11. CASE IdlePing
  <2>1. host = "run" /\ running = {Ping} /\ Ping \notin Items /\ game
    BY <1>0, <1>11 DEF IdlePing, RunsOne, OnePlace, PingOfGame
  <2>2. Ordered(queue') /\ Items' = Items \cup {Ping}
    BY <2>1, <1>0, <1>1, <1>11, ScheduledFacts, SubmitAssumption DEF IdlePing
  <2>3. TypeOK'
    BY <2>2, <1>0, <1>3, <1>11 DEF IdlePing, TypeOK, None
  <2>4. OnePlace' /\ PingOfGame' /\ RunsOne' /\ TestedLater'
    BY <2>1, <2>2, <1>0, <1>1, <1>11
    DEF IdlePing, None, OnePlace, PingOfGame, RunsOne, TestedLater
  <2> QED BY <2>2, <2>3, <2>4 DEF IInv
<1>12. CASE IdleLeavesLoop
  <2>1. TypeOK'
    BY <1>0, <1>12 DEF IdleLeavesLoop, TypeOK
  <2>2. AllLater(queue)
    <3>1. CASE queue = <<>>
      BY <3>1 DEF AllLater
    <3>2. CASE queue # <<>>
      <4>1. queue \in Seq(Entry) /\ Len(queue) \in Nat \ {0} /\ DOMAIN queue = 1 .. Len(queue)
        BY <3>2, <1>0 DEF Ordered
      <4>2. Head(queue) = queue[1] /\ queue[1].when # 0
        BY <4>1, <3>2, <1>12, HeadTailProperties DEF IdleLeavesLoop, Due
      <4>3. ASSUME NEW i \in 1 .. Len(queue) PROVE queue[i].when > 0
        <5>1. queue[1] \in Entry /\ queue[i] \in Entry
          BY <4>1
        <5>2. queue[1].when \in Nat /\ queue[i].when \in Nat
          BY <5>1 DEF Entry
        <5>3. 1 < i => queue[1].when <= queue[i].when
          BY <4>1, <1>0 DEF Ordered
        <5>4. i = 1 \/ 1 < i
          BY <4>1
        <5> QED BY <5>2, <5>3, <5>4, <4>2
      <4> QED BY <4>1, <4>3 DEF AllLater
    <3> QED BY <3>1, <3>2
  <2>3. OnePlace' /\ PingOfGame' /\ RunsOne' /\ TestedLater'
    BY <2>2, <1>0, <1>1, <1>2, <1>12
    DEF IdleLeavesLoop, OnePlace, PingOfGame, RunsOne, TestedLater
  <2> QED BY <2>1, <2>3, <1>2, <1>12 DEF IInv, IdleLeavesLoop
<1>13. CASE IdleTest
  <2>1. TypeOK'
    BY <1>0, <1>13 DEF IdleTest, TypeOK
  <2>2. OnePlace' /\ PingOfGame' /\ RunsOne' /\ TestedLater'
    BY <1>0, <1>1, <1>13 DEF IdleTest, OnePlace, PingOfGame, RunsOne, TestedLater
  <2> QED BY <2>1, <2>2, <1>2, <1>13 DEF IInv, IdleTest
<1>14. CASE IdleRaise
  <2>1. TypeOK'
    BY <1>0, <1>14 DEF IdleRaise, TypeOK
  <2>2. OnePlace' /\ PingOfGame' /\ RunsOne' /\ TestedLater'
    BY <1>0, <1>1, <1>14 DEF IdleRaise, OnePlace, PingOfGame, RunsOne, TestedLater
  <2> QED BY <2>1, <2>2, <1>2, <1>14 DEF IInv, IdleRaise
<1>15. CASE \E s \in Submissions : IdleRetry(s)
  <2> PICK s \in Submissions : IdleRetry(s)
    BY <1>15
  <2>1. /\ host = "run" /\ host' = "loop" /\ running = {s} /\ running' = {}
        /\ settled' = settled /\ earned' = earned /\ queue' = queue /\ game' = game
        /\ \/ inflight' = inflight \cup {s} /\ dropped' = dropped
           \/ inflight' = inflight \ {s} /\ dropped' = dropped \cup {s}
    BY <1>0 DEF IdleRetry, ServerCall, RunsOne, None
  <2>2. s \in earned /\ s \notin inflight \cup settled \cup dropped \cup Items
    BY <2>1, <1>0, <1>1 DEF OnePlace
  <2>3. TypeOK'
    BY <2>1, <2>2, <1>0 DEF IdleRetry, TypeOK
  <2>4. OnePlace'
    BY <2>1, <2>2, <1>0, <1>1 DEF OnePlace
  <2>5. PingOfGame' /\ RunsOne' /\ TestedLater'
    BY <2>1, <1>0, <1>1 DEF PingOfGame, RunsOne, TestedLater
  <2> QED BY <2>1, <2>3, <2>4, <2>5, <1>2 DEF IInv
<1>16. CASE \E s \in Submissions : AnsweredForGood(s)
  <2> PICK s \in Submissions : AnsweredForGood(s)
    BY <1>16
  <2>1. /\ s \in inflight /\ inflight' = inflight \ {s} /\ settled' = settled \cup {s}
        /\ dropped' = dropped /\ earned' = earned /\ queue' = queue /\ running' = running
        /\ game' = game /\ host' = host
    BY DEF AnsweredForGood, Answerable
  <2>2. s \in earned
    BY <2>1, <1>0 DEF OnePlace
  <2>3. TypeOK'
    BY <2>1, <2>2, <1>0 DEF AnsweredForGood, TypeOK
  <2>4. OnePlace'
    BY <2>1, <1>0, <1>1 DEF OnePlace
  <2>5. PingOfGame' /\ RunsOne' /\ TestedLater'
    BY <2>1, <1>0, <1>1, <1>2 DEF PingOfGame, RunsOne, TestedLater
  <2> QED BY <2>1, <2>3, <2>4, <2>5, <1>2 DEF IInv
<1>17. CASE \E s \in Submissions : FailedFirst(s)
  <2> PICK s \in Submissions : FailedFirst(s)
    BY <1>17
  <2>1. /\ s \in inflight /\ settled' = settled /\ earned' = earned /\ queue' = queue
        /\ running' = running /\ game' = game /\ host' = host
        /\ \/ inflight' = inflight \cup {s} /\ dropped' = dropped
           \/ inflight' = inflight \ {s} /\ dropped' = dropped \cup {s}
    BY DEF FailedFirst, Answerable, ServerCall
  <2>2. s \in earned
    BY <2>1, <1>0 DEF OnePlace
  <2>3. TypeOK'
    <3>1. 1 \in 0 .. RetryBound
      BY SubmitAssumption DEF RetryBound
    <3>2. retry_count' \in [Submissions -> 0 .. RetryBound]
      BY <3>1, <1>0 DEF FailedFirst, TypeOK
    <3> QED BY <3>2, <2>1, <2>2, <1>0 DEF FailedFirst, TypeOK
  <2>4. OnePlace'
    BY <2>1, <1>0, <1>1 DEF OnePlace
  <2>5. PingOfGame' /\ RunsOne' /\ TestedLater'
    BY <2>1, <1>0, <1>1, <1>2 DEF PingOfGame, RunsOne, TestedLater
  <2> QED BY <2>1, <2>3, <2>4, <2>5, <1>2 DEF IInv
<1>18. CASE \E s \in Submissions : FailedAgain(s)
  <2> PICK s \in Submissions : FailedAgain(s)
    BY <1>18
  <2>1. /\ s \in inflight /\ inflight' = inflight \ {s} /\ settled' = settled
        /\ dropped' = dropped /\ earned' = earned /\ running' = running
        /\ game' = game /\ host' = host
    BY DEF FailedAgain, Answerable
  <2>2. s \in earned /\ s \notin Items
    BY <2>1, <1>0 DEF OnePlace
  <2>3. retry_count' \in [Submissions -> 0 .. RetryBound] /\ retry_count'[s] \in Nat \ {0, 1}
    BY <1>0, RetriedAtLeastTwice
  <2> DEFINE when == Delay(retry_count'[s])
  <2>4. when \in Nat /\ when > 0
    <3>1. when \in Nat \ {0}
      BY <2>3, DelayPositive
    <3> QED BY <3>1
  <2>5. queue' = Scheduled(s, when)
    BY DEF FailedAgain
  <2> HIDE DEF when
  <2>6. Ordered(queue') /\ Items' = Items \cup {s} /\ (AllLater(queue) => AllLater(queue'))
    BY <2>2, <2>4, <2>5, <1>0, <1>1, ScheduledFacts
  <2>7. TypeOK'
    BY <2>1, <2>2, <2>3, <2>6, <1>0, <1>3 DEF FailedAgain, TypeOK
  <2>8. OnePlace'
    BY <2>1, <2>2, <2>6, <1>0, <1>1 DEF OnePlace
  <2>9. PingOfGame' /\ RunsOne' /\ TestedLater'
    BY <2>1, <2>6, <1>0, <1>1 DEF PingOfGame, RunsOne, TestedLater
  <2> QED BY <2>6, <2>7, <2>8, <2>9 DEF IInv
<1>19. CASE \E s \in Submissions : Update(s)
  <2> PICK s \in Submissions : Update(s)
    BY <1>19
  <2>1. TypeOK'
    <3>1. disconnect' \in {{}, {"VISIBLE"}, {"SHOW_PENDING"}, {"VISIBLE", "HIDE_PENDING"}}
      BY DEF Update, UpdateDisconnect
    <3> QED BY <3>1, <1>0 DEF Update, TypeOK
  <2>2. OnePlace' /\ PingOfGame' /\ RunsOne' /\ TestedLater'
    BY <1>0, <1>1, <1>2 DEF Update, OnePlace, PingOfGame, RunsOne, TestedLater
  <2> QED BY <2>1, <2>2, <1>2 DEF IInv, Update
<1>20. CASE UNCHANGED vars
  <2>1. TypeOK'
    BY <1>0, <1>20 DEF vars, TypeOK
  <2>2. OnePlace' /\ PingOfGame' /\ RunsOne' /\ TestedLater'
    BY <1>0, <1>1, <1>2, <1>20 DEF vars, OnePlace, PingOfGame, RunsOne, TestedLater
  <2> QED BY <2>1, <2>2, <1>2, <1>20 DEF IInv, vars
<1> QED
  BY <1>4, <1>5, <1>6, <1>7, <1>8, <1>9, <1>10, <1>11, <1>12, <1>13, <1>14, <1>15, <1>16,
     <1>17, <1>18, <1>19, <1>20
  DEF Next, Host, Idle, Handler

\* The inductive invariant holds for every set of submissions.
THEOREM SubmitInvariant == Spec => []IInv
<1> QED BY InitIInv, NextIInv, PTL DEF Spec

\* AccountedFor counts the places: exactly one for what is earned.
LEMMA IInvAccountedFor == IInv => AccountedFor
<1> SUFFICES ASSUME IInv PROVE AccountedFor
  OBVIOUS
<1>0. TypeOK /\ Ordered(queue) /\ OnePlace /\ PingOfGame /\ RunsOne /\ TestedLater
  BY DEF IInv
<1>1. ASSUME NEW s \in Submissions
      PROVE Cardinality({p \in DOMAIN Places : s \in Places[p]}) = IF s \in earned THEN 1 ELSE 0
  <2> DEFINE P == {p \in DOMAIN Places : s \in Places[p]}
  <2>1. /\ DOMAIN Places = {1, 2, 3, 4, 5}
        /\ Places[1] = inflight /\ Places[2] = Items /\ Places[3] = running
        /\ Places[4] = settled /\ Places[5] = dropped
    BY DEF Places
  <2>2. s # Ping
    BY PingAssumption
  <2>3. CASE s \in earned
    <3>1. \/ P = {1} \/ P = {2} \/ P = {3} \/ P = {4} \/ P = {5}
      BY <2>1, <2>2, <2>3, <1>0 DEF OnePlace
    <3> HIDE DEF P
    <3>2. Cardinality(P) = 1
      BY <3>1, FS_Singleton
    <3> QED BY <3>2, <2>3 DEF P
  <2>4. CASE s \notin earned
    <3>1. P = {}
      BY <2>1, <2>2, <2>4, <1>0 DEF OnePlace
    <3> HIDE DEF P
    <3>2. Cardinality(P) = 0
      BY <3>1, FS_EmptySet
    <3> QED BY <3>2, <2>4 DEF P
  <2> QED BY <2>3, <2>4
<1>2. /\ \A i, j \in DOMAIN queue : queue[i].item = queue[j].item => i = j
      /\ \A i, j \in DOMAIN queue : i < j => queue[i].when <= queue[j].when
  BY <1>0 DEF Ordered
<1>3. host = "test" => \A i \in DOMAIN queue : queue[i].when > 0
  BY <1>0 DEF TestedLater, AllLater
<1> QED BY <1>0, <1>1, <1>2, <1>3 DEF AccountedFor, PingOfGame

\* No unlock is forgotten or sent twice at a time, and idle finds what is due at
\* the head of the queue: with any number of submissions, on any threads.
THEOREM AccountedForAlways == Spec => []AccountedFor
<1> QED BY SubmitInvariant, IInvAccountedFor, PTL

-----------------------------------------------------------------------------
(* What the player is told.                                                 *)

\* Only what has failed before is queued or run, so that the callback that ends
\* it updates the flags.
RetriedBefore == \A s \in Submissions : s \in Items \cup running => retry_count[s] > 0

\* On one thread, no callback is under way when idle goes beyond its loop, and
\* nothing changes the flags between their test and the events.
OneThread ==
  ~threaded =>
    /\ host \in {"run", "test", "raise"} => updating = {}
    /\ host = "raise" => disconnect \ {"VISIBLE"} # {}

ToldInv ==
  /\ shown <=> "VISIBLE" \in disconnect
  /\ RetriedBefore
  /\ OneThread
  /\ IndicatorMatches

\* Nothing waits in the beginning.
LEMMA InitToldInv == Init => ToldInv
<1>1. ASSUME Init PROVE Items = {}
  BY <1>1 DEF Init, Items
<1> QED
  BY <1>1
  DEF Init, ToldInv, RetriedBefore, OneThread, IndicatorMatches, Announced, None

\* Every step keeps what the player is told in agreement with the queue.
LEMMA NextToldInv == IInv /\ ToldInv /\ [Next]_vars => ToldInv'
<1> SUFFICES ASSUME IInv, ToldInv, [Next]_vars PROVE ToldInv'
  OBVIOUS
<1>0. /\ TypeOK /\ Ordered(queue) /\ OnePlace /\ PingOfGame /\ RunsOne
      /\ (shown <=> "VISIBLE" \in disconnect) /\ RetriedBefore /\ OneThread
      /\ IndicatorMatches
  BY DEF IInv, ToldInv
<1>1. /\ Items = ItemsOf(queue) /\ Items' = ItemsOf(queue')
      /\ queue' = queue => Items' = Items
      /\ Items \subseteq Submissions \cup {Ping}
      /\ inflight \subseteq Submissions /\ settled \subseteq Submissions
      /\ earned \subseteq Submissions
      /\ running \subseteq Submissions \cup {Ping}
      /\ Ping \notin Submissions
  BY <1>0, QueueFacts
<1> USE DEF submissions
\* The steps that leave the flags, the callbacks and the waiting retries alone.
<1>2. ASSUME Items' \cap Submissions \subseteq Items, running' \cap Submissions \subseteq Items \cup running,
             retry_count' = retry_count, settled' = settled, earned \subseteq earned',
             dropped \subseteq dropped', updating' = updating, disconnect' = disconnect,
             shown' = shown, threaded' = threaded,
             \/ host' = host
             \/ host' \in {"run", "test"} /\ HostRuns
             \/ host' \in {"out", "loop"}
             \/ host' = "raise" /\ HostRuns /\ disconnect \ {"VISIBLE"} # {}
      PROVE  ToldInv'
  <2>1. RetriedBefore'
    BY <1>0, <1>2 DEF RetriedBefore
  <2>2. OneThread'
    BY <1>0, <1>2 DEF OneThread, HostRuns
  <2>3. IndicatorMatches'
    BY <1>0, <1>2 DEF IndicatorMatches, Announced
  <2> QED BY <2>1, <2>2, <2>3, <1>0, <1>2 DEF ToldInv
<1>3. CASE LoadGame
  <2>1. Ping \notin Items
    BY <1>0, <1>3 DEF LoadGame, PingOfGame
  <2>2. Items' = Items \cup {Ping}
    BY <2>1, <1>0, <1>1, <1>3, ScheduledFacts, SubmitAssumption DEF LoadGame
  <2> QED BY <2>2, <1>1, <1>2, <1>3 DEF LoadGame
<1>4. CASE UnloadGame \/ LogOut
  <2>1. Items' = Items \ {Ping}
    BY <1>0, <1>1, <1>4, WithoutPingFacts DEF UnloadGame, LogOut
  <2> QED BY <2>1, <1>1, <1>2, <1>4 DEF UnloadGame, LogOut
<1>5. CASE LogIn
  BY <1>1, <1>2, <1>5 DEF LogIn
<1>6. CASE \E s \in Submissions : Earn(s)
  BY <1>1, <1>2, <1>6 DEF Earn, ServerCall
<1>7. CASE Tick
  <2>1. Items' = Items
    BY <1>0, <1>7, TickFacts DEF Tick
  <2> QED BY <2>1, <1>2, <1>7 DEF Tick
<1>8. CASE IdleBegin
  BY <1>1, <1>2, <1>8 DEF IdleBegin, HostIdle
<1>9. CASE IdlePop
  <2>1. Items' = Items \ {Head(queue).item} /\ Head(queue).item \in Items
    BY <1>0, <1>1, <1>9, TailFacts DEF IdlePop, Due
  <2> QED BY <2>1, <1>2, <1>9 DEF IdlePop
<1>10. CASE IdlePing
  <2>1. Ping \notin Items
    BY <1>0, <1>10 DEF IdlePing, OnePlace
  <2>2. Items' = Items \cup {Ping}
    BY <2>1, <1>0, <1>1, <1>10, ScheduledFacts, SubmitAssumption DEF IdlePing
  <2> QED BY <2>2, <1>1, <1>2, <1>10 DEF IdlePing, None
<1>11. CASE \E s \in Submissions : IdleRetry(s)
  BY <1>1, <1>2, <1>11 DEF IdleRetry, ServerCall, None
<1>12. CASE IdleLeavesLoop
  BY <1>1, <1>2, <1>12 DEF IdleLeavesLoop
<1>13. CASE IdleTest
  BY <1>1, <1>2, <1>13 DEF IdleTest
<1>14. CASE IdleRaise
  <2>1. ~threaded => updating = {} /\ disconnect \ {"VISIBLE"} # {}
    BY <1>0, <1>14 DEF IdleRaise, OneThread
  <2>2. /\ shown' <=> "VISIBLE" \in disconnect'
        /\ shown' <=> "SHOW_PENDING" \in disconnect
        /\ disconnect' = IF shown' THEN {"VISIBLE"} ELSE {}
    BY <1>14 DEF IdleRaise
  <2>3. RetriedBefore' /\ OneThread'
    BY <1>0, <1>1, <1>14 DEF IdleRaise, RetriedBefore, OneThread
  <2>4. /\ Items' = Items /\ retry_count' = retry_count /\ earned' = earned
        /\ settled' = settled /\ dropped' = dropped /\ updating' = updating
        /\ threaded' = threaded
    BY <1>1, <1>14 DEF IdleRaise
  <2>5. IndicatorMatches'
    <3>1. ~threaded => (Announced' <=> "SHOW_PENDING" \in disconnect)
      BY <2>2 DEF Announced
    <3> QED BY <3>1, <2>1, <2>2, <2>4, <1>0 DEF IndicatorMatches, Announced
  <2> QED BY <2>2, <2>3, <2>5 DEF ToldInv
<1>15. CASE \E s \in Submissions : AnsweredForGood(s)
  <2> PICK s \in Submissions : AnsweredForGood(s)
    BY <1>15
  <2>1. /\ s \in inflight /\ HandlerRuns /\ settled' = settled \cup {s}
        /\ updating' = IF retry_count[s] > 0 THEN updating \cup {s} ELSE updating
        /\ Items' = Items /\ running' = running /\ retry_count' = retry_count
        /\ earned' = earned /\ dropped' = dropped /\ disconnect' = disconnect
        /\ shown' = shown /\ host' = host /\ threaded' = threaded
    BY <1>1 DEF AnsweredForGood, Answerable
  <2>2. RetriedBefore'
    BY <2>1, <1>0 DEF RetriedBefore
  <2>3. OneThread'
    BY <2>1, <1>0 DEF OneThread, HandlerRuns
  <2>4. IndicatorMatches'
    BY <2>1, <1>0 DEF IndicatorMatches, Announced
  <2> QED BY <2>1, <2>2, <2>3, <2>4, <1>0 DEF ToldInv
<1>16. CASE \E s \in Submissions : FailedFirst(s)
  <2> PICK s \in Submissions : FailedFirst(s)
    BY <1>16
  <2>1. /\ retry_count' = [retry_count EXCEPT ![s] = 1] /\ retry_count[s] = 0
        /\ settled' = settled /\ updating' = updating
        /\ Items' = Items /\ running' = running /\ earned' = earned
        /\ dropped \subseteq dropped' /\ disconnect' = disconnect
        /\ shown' = shown /\ host' = host /\ threaded' = threaded
    BY <1>1 DEF FailedFirst, Answerable, ServerCall
  <2>2. \A t \in Submissions : retry_count[t] > 0 => retry_count'[t] > 0
    BY <2>1, <1>0 DEF TypeOK
  <2>3. RetriedBefore'
    BY <2>1, <2>2, <1>0 DEF RetriedBefore
  <2>4. OneThread'
    BY <2>1, <1>0 DEF OneThread
  <2>5. IndicatorMatches'
    BY <2>1, <2>2, <1>0, <1>1 DEF IndicatorMatches, Announced
  <2> QED BY <2>1, <2>3, <2>4, <2>5, <1>0 DEF ToldInv
<1>17. CASE \E s \in Submissions : FailedAgain(s)
  <2> PICK s \in Submissions : FailedAgain(s)
    BY <1>17
  <2>1. /\ s \in inflight /\ HandlerRuns /\ retry_count[s] > 0
        /\ updating' = updating \cup {s} /\ running' = running
        /\ disconnect' = disconnect /\ shown' = shown /\ host' = host
        /\ threaded' = threaded
    BY DEF FailedAgain, Answerable
  <2>2. Items' \cap Submissions = (Items \cap Submissions) \cup {s}
    <3> DEFINE when == Delay(retry_count'[s])
    <3>1. s \notin Items
      BY <2>1, <1>0 DEF OnePlace
    <3>2. retry_count'[s] \in Nat \ {0, 1}
      BY RetriedAtLeastTwice, <1>0
    <3>3. when \in Nat
      BY <3>2, DelayPositive
    <3>4. queue' = Scheduled(s, when)
      BY DEF FailedAgain
    <3> HIDE DEF when
    <3>5. Items' = Items \cup {s}
      BY <3>1, <3>3, <3>4, <1>0, <1>1, ScheduledFacts
    <3> QED BY <3>5
  <2>3. \A t \in Submissions : retry_count[t] > 0 => retry_count'[t] > 0
    BY RetriedAtLeastTwice, <1>0
  <2>4. RetriedBefore'
    BY <2>1, <2>2, <2>3, <1>0 DEF RetriedBefore
  <2>5. OneThread'
    BY <2>1, <1>0 DEF OneThread, HandlerRuns
  <2>6. IndicatorMatches'
    BY <2>1 DEF IndicatorMatches
  <2> QED BY <2>1, <2>4, <2>5, <2>6, <1>0 DEF ToldInv
<1>18. CASE \E s \in Submissions : Update(s)
  <2> PICK s \in Submissions : Update(s)
    BY <1>18
  <2>1. /\ s \in updating /\ UpdateDisconnect /\ updating' = updating \ {s}
        /\ Items' = Items /\ running' = running /\ retry_count' = retry_count
        /\ earned' = earned /\ settled' = settled /\ dropped' = dropped
        /\ shown' = shown /\ host' = host /\ threaded' = threaded
    BY <1>1 DEF Update
  <2>2. /\ "VISIBLE" \in disconnect' <=> "VISIBLE" \in disconnect
        /\ Announced' <=> Items \cap Submissions # {}
    BY <2>1 DEF UpdateDisconnect, Announced
  <2>3. RetriedBefore'
    BY <2>1, <1>0 DEF RetriedBefore
  <2>4. OneThread'
    BY <2>1, <1>0 DEF OneThread
  <2>5. IndicatorMatches'
    <3>1. ASSUME Items \cap Submissions # {}
          PROVE  \E t \in earned \ settled : retry_count[t] > 0
      BY <3>1, <1>0, <1>1 DEF RetriedBefore, OnePlace
    <3> QED BY <3>1, <2>1, <2>2, <1>0 DEF IndicatorMatches
  <2> QED BY <2>1, <2>2, <2>3, <2>4, <2>5, <1>0 DEF ToldInv
<1>19. CASE UNCHANGED vars
  BY <1>1, <1>2, <1>19 DEF vars
<1> QED
  BY <1>3, <1>4, <1>5, <1>6, <1>7, <1>8, <1>9, <1>10, <1>11, <1>12, <1>13, <1>14, <1>15,
     <1>16, <1>17, <1>18, <1>19
  DEF Next, Host, Idle, Handler

\* With callbacks on the thread of the host, the player is told of retries that
\* wait, and of nothing else.
THEOREM IndicatorMatchesAlways == Spec => []IndicatorMatches
<1>1. IInv /\ ToldInv => IndicatorMatches
  BY DEF ToldInv
<1>2. Init => IInv /\ ToldInv
  BY InitIInv, InitToldInv
<1>3. IInv /\ ToldInv /\ [Next]_vars => IInv' /\ ToldInv'
  BY NextIInv, NextToldInv
<1> QED BY <1>1, <1>2, <1>3, PTL DEF Spec
=============================================================================
