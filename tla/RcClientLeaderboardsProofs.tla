--------------------- MODULE RcClientLeaderboardsProofs ---------------------
(***************************************************************************)
(* Proofs about the leaderboards and their trackers.                       *)
(*                                                                         *)
(* A call takes the leaderboards in turn and raises its events at the end. *)
(* What holds between two calls (IInv) does not hold between two turns, so *)
(* each kind of call has a predicate of its own: FrameAt, ResetAt, StopAt  *)
(* and RestoreAt say what holds when the first k leaderboards have had     *)
(* their turn.  A turn is proved to lead from k - 1 to k, ForEach to lead  *)
(* from 0 to Count, and raising the events to restore IInv.                *)
(*                                                                         *)
(* The heart of it is Core: a tracker counts the leaderboards that refer   *)
(* to it, and one that was given back in this call and cannot be claimed   *)
(* yet is accounted for by a leaderboard that has had its turn and took no *)
(* other.  So there is room whenever one has to be made (Room).            *)
(*                                                                         *)
(* For the events of trackers it is Drawable: what is pending for a        *)
(* tracker tells whether it has come or gone since the call began.  Every  *)
(* turn keeps that (Keeps), and the events raised at the end draw the      *)
(* trackers in use (TrackersDrawn).                                        *)
(***************************************************************************)
EXTENDS RcClientLeaderboards, FiniteSetTheorems, SequenceTheorems, TLAPS

-----------------------------------------------------------------------------
(* Turns in order.                                                           *)

\* A set of numbers that has 0, and with each number the next, has them all.
LEMMA Induction ==
  ASSUME NEW S, 0 \in S, \A n \in Nat : n \in S => n + 1 \in S
  PROVE  Nat \subseteq S
<1> DEFINE W == {1 .. n : n \in Nat \ S}
           R == StrictSubsetOrdering(Nat)
<1> SUFFICES ASSUME NEW k \in Nat \ S PROVE FALSE
  OBVIOUS
<1>1. W \subseteq FiniteSubsetsOf(Nat)
  <2> SUFFICES ASSUME NEW n \in Nat PROVE 1 .. n \in FiniteSubsetsOf(Nat)
    OBVIOUS
  <2>1. IsFiniteSet(1 .. n)
    BY FS_Interval
  <2> QED BY <2>1 DEF FiniteSubsetsOf
<1>2. IsWellFoundedOn(R, FiniteSubsetsOf(Nat))
  BY FS_StrictSubsetOrderingWellFounded
<1>3. W # {}
  OBVIOUS
<1>4. PICK x \in W : \A y \in W : ~(<<y, x>> \in R)
  <2> HIDE DEF W, R
  <2> QED BY <1>1, <1>2, <1>3, WFMin
<1>5. PICK n \in Nat \ S : x = 1 .. n
  OBVIOUS
<1>6. n - 1 \in Nat \ S
  <2>1. n # 0 /\ n - 1 \in Nat
    BY <1>5
  <2>2. n - 1 \in S => n - 1 + 1 \in S
    BY <2>1
  <2> QED BY <2>1, <2>2, <1>5
<1>7. <<1 .. (n - 1), 1 .. n>> \in R
  <2>1. n \in 1 .. n /\ n \notin 1 .. (n - 1) /\ 1 .. (n - 1) \subseteq 1 .. n
    BY <1>6
  <2>2. 1 .. n \in SUBSET Nat /\ 1 .. (n - 1) \in SUBSET Nat
    OBVIOUS
  <2>3. 1 .. n # 1 .. (n - 1)
    BY <2>1
  <2> QED BY <2>1, <2>2, <2>3 DEF StrictSubsetOrdering
<1>8. 1 .. (n - 1) \in W
  BY <1>6
<1> QED BY <1>4, <1>5, <1>7, <1>8

\* What each turn hands on holds after every turn.
LEMMA Steps ==
  ASSUME NEW f, NEW J, f[0] \in J[0],
         \A l \in Leaderboards : f[l - 1] \in J[l - 1] => f[l] \in J[l]
  PROVE  \A l \in 0 .. Count : f[l] \in J[l]
<1> DEFINE S == {n \in Nat : n <= Count => f[n] \in J[n]}
<1>c. Count \in Nat
  BY LeaderboardAssumption
<1>1. 0 \in S
  OBVIOUS
<1>2. ASSUME NEW n \in Nat, n \in S PROVE n + 1 \in S
  <2> SUFFICES ASSUME n + 1 <= Count PROVE f[n + 1] \in J[n + 1]
    OBVIOUS
  <2>1. n <= Count /\ n + 1 \in Leaderboards /\ (n + 1) - 1 = n
    BY <1>c DEF Leaderboards
  <2>2. f[n] \in J[n]
    BY <2>1, <1>2
  <2> HIDE DEF S
  <2> QED BY <2>1, <2>2
<1>3. Nat \subseteq S
  <2> HIDE DEF S
  <2> QED BY <1>1, <1>2, Induction
<1> QED BY <1>3, <1>c

\* There is a function that takes the turns one after the other.
LEMMA FoldExists ==
  ASSUME NEW c, NEW F, NEW J, c \in J[0],
         \A l \in Leaderboards : \A s \in J[l - 1] : F[l][s] \in J[l]
  PROVE  \E f : /\ f = [l \in 0 .. Count |-> IF l = 0 THEN c ELSE F[l][f[l - 1]]]
                /\ \A l \in 0 .. Count : f[l] \in J[l]
<1> DEFINE Fold(f, n) == f = [l \in 0 .. n |-> IF l = 0 THEN c ELSE F[l][f[l - 1]]]
           Folds(n) == \E f : Fold(f, n) /\ \A l \in 0 .. n : f[l] \in J[l]
           S == {n \in Nat : n <= Count => Folds(n)}
<1>c. Count \in Nat
  BY LeaderboardAssumption
<1>1. 0 \in S
  <2> DEFINE f == [l \in 0 .. 0 |-> c]
  <2>1. f = [l \in 0 .. 0 |-> IF l = 0 THEN c ELSE F[l][f[l - 1]]]
    OBVIOUS
  <2>2. \A l \in 0 .. 0 : f[l] \in J[l]
    OBVIOUS
  <2>3. Fold(f, 0)
    BY <2>1
  <2>4. Folds(0)
    <3> HIDE DEF Fold, f
    <3> QED BY <2>2, <2>3
  <2> QED BY <2>4
<1>2. ASSUME NEW n \in Nat, n \in S PROVE n + 1 \in S
  <2> SUFFICES ASSUME n + 1 <= Count PROVE Folds(n + 1)
    OBVIOUS
  <2>1. n <= Count /\ n + 1 \in Leaderboards /\ (n + 1) - 1 = n
    BY <1>c DEF Leaderboards
  <2>2. PICK f : Fold(f, n) /\ \A l \in 0 .. n : f[l] \in J[l]
    BY <2>1, <1>2
  <2> DEFINE g == [l \in 0 .. n + 1 |-> IF l = n + 1 THEN F[n + 1][f[n]] ELSE f[l]]
  <2>3. \A l \in 0 .. n : g[l] = f[l]
    OBVIOUS
  <2>4. g[n + 1] = F[n + 1][f[n]]
    OBVIOUS
  <2>5. g[n + 1] \in J[n + 1]
    BY <2>1, <2>2, <2>4
  <2>6. ASSUME NEW l \in 0 .. n + 1
        PROVE  g[l] = IF l = 0 THEN c ELSE F[l][g[l - 1]]
    <3>1. CASE l = n + 1
      <4>1. l # 0 /\ l - 1 = n /\ n \in 0 .. n
        BY <3>1
      <4> HIDE DEF g
      <4> QED BY <4>1, <3>1, <2>3, <2>4
    <3>2. CASE l # n + 1
      <4>1. l \in 0 .. n /\ (l # 0 => l - 1 \in 0 .. n)
        BY <3>2
      <4>2. f[l] = IF l = 0 THEN c ELSE F[l][f[l - 1]]
        BY <4>1, <2>2
      <4> HIDE DEF g
      <4> QED BY <4>1, <4>2, <2>3
    <3> QED BY <3>1, <3>2
  <2>7. Fold(g, n + 1)
    <3>1. DOMAIN g = 0 .. n + 1 /\ g = [l \in 0 .. n + 1 |-> g[l]]
      OBVIOUS
    <3> HIDE DEF g
    <3> QED BY <3>1, <2>6
  <2>8. \A l \in 0 .. n + 1 : g[l] \in J[l]
    <3> SUFFICES ASSUME NEW l \in 0 .. n + 1 PROVE g[l] \in J[l]
      OBVIOUS
    <3>1. l = n + 1 \/ l \in 0 .. n
      OBVIOUS
    <3> HIDE DEF g
    <3> QED BY <3>1, <2>2, <2>3, <2>5
  <2> HIDE DEF Fold, g
  <2> QED BY <2>7, <2>8
<1>3. Nat \subseteq S
  <2> HIDE DEF S
  <2> QED BY <1>1, <1>2, Induction
<1>4. Folds(Count)
  BY <1>3, <1>c
<1> QED BY <1>4
-----------------------------------------------------------------------------
(* What holds in the middle of a call: s is the state, done the leaderboards *)
(* that have had their turn.                                                 *)

Live == {"WAITING", "ACTIVE", "STARTED", "CANCELED", "TRIGGERED"}

BoardRecord ==
  [state : LboardStates, public : {"INACTIVE", "ACTIVE", "TRACKING", "DISABLED"},
   value : 0 .. host.values, tracker : 0 .. Count,
   pending : SUBSET {"STARTED", "FAILED", "SUBMITTED"}]

Typed(s) == s \in [board : [Leaderboards -> BoardRecord], trackers : Seq(Tracker)]

Users(s, i) == {l \in Leaderboards : s.board[l].tracker = i}

\* A tracker that has been released in this call, and cannot be claimed before its
\* event is raised, was given back by a leaderboard that has had its turn, and has
\* taken no other.
Returners(s, done) ==
  \E rel \in [Leaderboards -> Nat] : \A i \in DOMAIN s.trackers :
     s.trackers[i].refs = 0 /\ s.trackers[i].pending # {} =>
       \E l \in done : l \in Leaderboards /\ s.board[l].tracker = 0 /\ rel[l] = i

Core(s, done) ==
  /\ Typed(s)
  /\ Len(s.trackers) <= Count
  /\ \A l \in Leaderboards : s.board[l].tracker <= Len(s.trackers)
  /\ \A i \in DOMAIN s.trackers : s.trackers[i].refs = Cardinality(Users(s, i))
  /\ Returners(s, done)

\* What is assumed of the hosts, for the one that was chosen.
LEMMA HostTyped ==
  ASSUME host \in Hosts
  PROVE  /\ host.values \in Nat
         /\ \A l \in Leaderboards : host.formula[l] \in Range(host.formula)
<1>1. host \in [formula : [Leaderboards -> STRING], values : Nat,
                     noStart : SUBSET Leaderboards, softcore : BOOLEAN, saves : BOOLEAN,
                     fails : BOOLEAN]
  BY LeaderboardAssumption
<1>2. DOMAIN host.formula = Leaderboards
  BY <1>1
<1> QED BY <1>1, <1>2 DEF Range

\* A tracker has at most as many users as there are leaderboards.
LEMMA UsersFinite ==
  ASSUME NEW s, NEW i
  PROVE  /\ IsFiniteSet(Users(s, i))
         /\ Cardinality(Users(s, i)) \in 0 .. Count
<1>1. Count \in Nat
  BY LeaderboardAssumption
<1>2. IsFiniteSet(Leaderboards) /\ Cardinality(Leaderboards) = Count
  BY <1>1, FS_Interval DEF Leaderboards
<1>3. Users(s, i) \subseteq Leaderboards
  BY DEF Users
<1>4. IsFiniteSet(Users(s, i)) /\ Cardinality(Users(s, i)) <= Count
  BY <1>2, <1>3, FS_Subset
<1>5. Cardinality(Users(s, i)) \in Nat
  BY <1>4, FS_CardinalityType
<1> QED BY <1>1, <1>4, <1>5

\* All but leaderboard l keep their trackers.
SameBut(s, r, l) ==
  \A m \in Leaderboards \ {l} : r.board[m].tracker = s.board[m].tracker

\* One leaderboard turns to another tracker.
LEMMA UsersChanged ==
  ASSUME NEW s, NEW r, NEW l \in Leaderboards, NEW i,
         SameBut(s, r, l)
  PROVE  /\ r.board[l].tracker = i /\ s.board[l].tracker # i
              => Cardinality(Users(r, i)) = Cardinality(Users(s, i)) + 1
         /\ r.board[l].tracker # i /\ s.board[l].tracker = i
              => Cardinality(Users(r, i)) = Cardinality(Users(s, i)) - 1
         /\ (r.board[l].tracker = i <=> s.board[l].tracker = i)
              => Users(r, i) = Users(s, i)
<1>1. IsFiniteSet(Users(s, i))
  BY UsersFinite
<1>2. ASSUME r.board[l].tracker = i, s.board[l].tracker # i
      PROVE  Cardinality(Users(r, i)) = Cardinality(Users(s, i)) + 1
  <2>1. Users(r, i) = Users(s, i) \cup {l} /\ l \notin Users(s, i)
    BY <1>2 DEF Users, SameBut
  <2> QED BY <2>1, <1>1, FS_AddElement
<1>3. ASSUME r.board[l].tracker # i, s.board[l].tracker = i
      PROVE  Cardinality(Users(r, i)) = Cardinality(Users(s, i)) - 1
  <2>1. Users(r, i) = Users(s, i) \ {l} /\ l \in Users(s, i)
    BY <1>3 DEF Users, SameBut
  <2> QED BY <2>1, <1>1, FS_RemoveElement
<1>4. ASSUME r.board[l].tracker = i <=> s.board[l].tracker = i
      PROVE  Users(r, i) = Users(s, i)
  BY <1>4 DEF Users, SameBut
<1> QED BY <1>2, <1>3, <1>4

\* A tracker is claimed in turn l, when none can be used again: there is room.
LEMMA Room ==
  ASSUME NEW s, NEW done, Core(s, done), NEW l \in Leaderboards, l \notin done,
         s.board[l].tracker = 0, Available(s) = {}
  PROVE  Len(s.trackers) + 1 <= Count
<1> DEFINE n == Len(s.trackers)
           Others == Leaderboards \ {l}
<1>1. Count \in Nat /\ n \in Nat /\ DOMAIN s.trackers = 1 .. n
  BY LeaderboardAssumption, LenProperties DEF Core, Typed
<1>2. PICK rel \in [Leaderboards -> Nat] : \A i \in DOMAIN s.trackers :
        s.trackers[i].refs = 0 /\ s.trackers[i].pending # {} =>
          \E k \in done : k \in Leaderboards /\ s.board[k].tracker = 0 /\ rel[k] = i
  BY DEF Core, Returners
<1> DEFINE Owns(k, i) == \/ s.board[k].tracker = i
                         \/ s.board[k].tracker = 0 /\ rel[k] = i
           w == [i \in 1 .. n |-> CHOOSE k \in Others : Owns(k, i)]
<1>3. ASSUME NEW i \in 1 .. n PROVE \E k \in Others : Owns(k, i)
  <2>1. i \in DOMAIN s.trackers /\ i # 0
    BY <1>1
  <2>2. CASE s.trackers[i].refs = 0
    <3>1. s.trackers[i].pending # {}
      BY <2>1, <2>2 DEF Available
    <3>2. PICK k \in done : k \in Leaderboards /\ s.board[k].tracker = 0 /\ rel[k] = i
      BY <3>1, <2>1, <2>2, <1>2
    <3> QED BY <3>2
  <2>3. CASE s.trackers[i].refs # 0
    <3>1. Cardinality(Users(s, i)) # 0
      BY <2>1, <2>3 DEF Core
    <3>2. Users(s, i) # {}
      BY <3>1, FS_EmptySet
    <3>3. PICK k \in Leaderboards : s.board[k].tracker = i
      BY <3>2 DEF Users
    <3>4. k \in Others
      BY <3>3, <2>1
    <3> QED BY <3>3, <3>4
  <2> QED BY <2>2, <2>3
<1>4. \A i \in 1 .. n : w[i] \in Others /\ Owns(w[i], i)
  <2> HIDE DEF Others, Owns
  <2> QED BY <1>3
<1>5. ASSUME NEW i \in 1 .. n, NEW j \in 1 .. n, w[i] = w[j] PROVE i = j
  <2>1. Owns(w[i], i) /\ Owns(w[i], j) /\ i # 0 /\ j # 0
    <3> HIDE DEF w, Owns
    <3> QED BY <1>4, <1>5, <1>1
  <2> HIDE DEF w
  <2> QED BY <2>1
<1>6. w \in Injection(1 .. n, Others)
  <2>1. w \in [1 .. n -> Others]
    <3>1. w = [i \in 1 .. n |-> w[i]]
      <4> HIDE DEF Others, Owns
      <4> QED OBVIOUS
    <3> HIDE DEF w, Others
    <3> QED BY <3>1, <1>4
  <2> HIDE DEF w, Others
  <2> QED BY <2>1, <1>5 DEF Injection, IsInjective
<1>7. IsFiniteSet(Others) /\ Cardinality(Others) = Count - 1
  <2>1. IsFiniteSet(Leaderboards) /\ Cardinality(Leaderboards) = Count
    BY <1>1, FS_Interval DEF Leaderboards
  <2> QED BY <2>1, FS_RemoveElement
<1>8. Cardinality(1 .. n) <= Cardinality(Others)
  <2> HIDE DEF w, Others
  <2> QED BY <1>6, <1>7, FS_Injection
<1>9. Cardinality(1 .. n) = n
  BY <1>1, FS_Interval
<1> QED BY <1>1, <1>7, <1>8, <1>9

TrackerRecord == [refs : Int, formula : Range(host.formula), raw : 0 .. host.values,
                  pending : SUBSET {"SHOW", "HIDE", "UPDATE"}]

Shaped(r) == r \in [board : {r.board}, trackers : {r.trackers}]

Replaced(s, r, i, e) == r.trackers = [s.trackers EXCEPT ![i] = e]

\* Leaderboard l takes, gives back or keeps tracker i, which becomes e.
LEMMA Touched ==
  ASSUME NEW s, NEW done, Core(s, done), NEW next, done \subseteq next,
         NEW l \in Leaderboards, NEW i \in DOMAIN s.trackers, NEW e \in TrackerRecord, NEW r,
         Replaced(s, r, i, e), r.board \in [Leaderboards -> BoardRecord],
         Shaped(r),
         SameBut(s, r, l),
         \/ /\ s.board[l].tracker = 0 /\ r.board[l].tracker = i
            /\ e.refs = s.trackers[i].refs + 1
            /\ l \notin done
         \/ /\ s.board[l].tracker = i /\ r.board[l].tracker = 0
            /\ e.refs = s.trackers[i].refs - 1
            /\ l \in next
         \/ /\ s.board[l].tracker = i /\ r.board[l].tracker = i
            /\ e.refs = s.trackers[i].refs
  PROVE  Core(r, next)
<1>1. Count \in Nat /\ s.trackers \in Seq(Tracker) /\ DOMAIN s.trackers = 1 .. Len(s.trackers)
      /\ Len(s.trackers) \in Nat
  BY LeaderboardAssumption, LenProperties DEF Core, Typed
<1>3. e.refs = Cardinality(Users(r, i))
  <2>1. s.trackers[i].refs = Cardinality(Users(s, i)) /\ i # 0
    BY <1>1 DEF Core
  <2> QED BY <2>1, UsersChanged
<1>4. e \in Tracker
  <2>1. e.refs \in 0 .. Count
    BY <1>3, UsersFinite
  <2> QED BY <2>1 DEF Tracker, TrackerRecord
<1>5. /\ r.trackers \in Seq(Tracker) /\ Len(r.trackers) = Len(s.trackers)
      /\ DOMAIN r.trackers = DOMAIN s.trackers
      /\ \A j \in DOMAIN s.trackers : r.trackers[j] = IF j = i THEN e ELSE s.trackers[j]
  BY <1>1, <1>4, ExceptSeq, LenProperties DEF Replaced
<1>6. Typed(r)
  BY <1>5 DEF Typed, Shaped
<1>7. \A m \in Leaderboards : r.board[m].tracker <= Len(r.trackers)
  <2>1. \A m \in Leaderboards : s.board[m].tracker <= Len(s.trackers)
    BY DEF Core
  <2>2. \A m \in Leaderboards : s.board[m].tracker \in Nat
    BY <1>1 DEF Core, Typed, BoardRecord
  <2>3. r.board[l].tracker <= Len(s.trackers)
    BY <1>1
  <2> QED BY <2>1, <2>2, <2>3, <1>5 DEF SameBut
<1>8. ASSUME NEW j \in DOMAIN r.trackers
      PROVE  r.trackers[j].refs = Cardinality(Users(r, j))
  <2>1. CASE j = i
    BY <2>1, <1>3, <1>5
  <2>2. CASE j # i
    <3>1. j # 0 /\ j \in DOMAIN s.trackers
      BY <1>1, <1>5
    <3>2. Users(r, j) = Users(s, j)
      BY <3>1, <2>2, UsersChanged
    <3>3. s.trackers[j].refs = Cardinality(Users(s, j))
      BY <3>1 DEF Core
    <3> QED BY <3>1, <3>2, <3>3, <2>2, <1>5
  <2> QED BY <2>1, <2>2
<1>9. Returners(r, next)
  <2>1. PICK rel \in [Leaderboards -> Nat] : \A j \in DOMAIN s.trackers :
          s.trackers[j].refs = 0 /\ s.trackers[j].pending # {} =>
            \E k \in done : k \in Leaderboards /\ s.board[k].tracker = 0 /\ rel[k] = j
    BY DEF Core, Returners
  <2>2. i \in Nat /\ i # 0 /\ s.trackers[i].refs \in Nat
    <3>1. s.trackers[i].refs = Cardinality(Users(s, i))
      BY DEF Core
    <3> QED BY <1>1, <3>1, UsersFinite
  <2> DEFINE back == r.board[l].tracker = 0
             rel2 == [k \in Leaderboards |-> IF k = l /\ back THEN i ELSE rel[k]]
  <2>3. rel2 \in [Leaderboards -> Nat]
    BY <2>2
  <2>4. ASSUME NEW j \in DOMAIN r.trackers, r.trackers[j].refs = 0, r.trackers[j].pending # {}
        PROVE  \E k \in next : k \in Leaderboards /\ r.board[k].tracker = 0 /\ rel2[k] = j
    <3>1. CASE j # i
      <4>1. s.trackers[j].refs = 0 /\ s.trackers[j].pending # {} /\ j \in DOMAIN s.trackers
        BY <3>1, <2>4, <1>5
      <4>2. PICK k \in done : k \in Leaderboards /\ s.board[k].tracker = 0 /\ rel[k] = j
        BY <4>1, <2>1
      <4>3. k # l
        BY <4>2, <3>1, <2>2
      <4>4. k \in next /\ r.board[k].tracker = 0 /\ rel2[k] = j
        BY <4>2, <4>3 DEF SameBut
      <4> QED BY <4>2, <4>4
    <3>2. CASE j = i
      <4>1. e.refs = 0
        BY <3>2, <2>4, <1>5
      <4>2. l \notin Users(r, i)
        <5>1. Users(r, i) = {}
          BY <4>1, <1>3, FS_EmptySet, UsersFinite
        <5> QED BY <5>1
      <4>3. r.board[l].tracker # i
        BY <4>2 DEF Users
      <4>4. r.board[l].tracker = 0 /\ l \in next
        BY <4>3
      <4>5. rel2[l] = j
        BY <4>4, <3>2
      <4> QED BY <4>4, <4>5
    <3> QED BY <3>1, <3>2
  <2> HIDE DEF rel2
  <2> QED BY <2>3, <2>4 DEF Returners
<1>10. Len(r.trackers) <= Count
  BY <1>5 DEF Core
<1> QED BY <1>6, <1>7, <1>8, <1>9, <1>10 DEF Core

Turned(s, l, x) == [s.board EXCEPT ![l].tracker = x]

\* All that is not about the tracker.
SameBoard(b, n) ==
  /\ n.state = b.state /\ n.public = b.public /\ n.value = b.value /\ n.pending = b.pending

\* What turning leaderboard l to tracker x does to the leaderboards.
LEMMA Pointed ==
  ASSUME NEW s, Typed(s), NEW l \in Leaderboards, NEW x \in 0 .. Count, NEW r,
         r.board = Turned(s, l, x)
  PROVE  /\ r.board \in [Leaderboards -> BoardRecord]
         /\ SameBoard(s.board[l], r.board[l])
         /\ r.board[l].tracker = x
         /\ \A m \in Leaderboards \ {l} : r.board[m] = s.board[m]
         /\ SameBut(s, r, l)
<1>1. s.board \in [Leaderboards -> BoardRecord] /\ s.board[l] \in BoardRecord
  BY DEF Typed
<1>2. /\ r.board[l] = [s.board[l] EXCEPT !.tracker = x]
      /\ \A m \in Leaderboards \ {l} : r.board[m] = s.board[m]
  BY <1>1 DEF Turned
<1>3. /\ [s.board[l] EXCEPT !.tracker = x] \in BoardRecord
      /\ [s.board[l] EXCEPT !.tracker = x].tracker = x
  BY <1>1 DEF BoardRecord
<1>4. r.board \in [Leaderboards -> BoardRecord]
  BY <1>1, <1>3 DEF Turned
<1>5. SameBoard(s.board[l], r.board[l])
  BY <1>1, <1>2 DEF SameBoard, BoardRecord
<1> QED BY <1>2, <1>3, <1>4, <1>5 DEF SameBut

\* Leaderboard l takes a tracker that has just been made.
LEMMA Grown ==
  ASSUME NEW s, NEW done, Core(s, done), NEW l \in Leaderboards, l \notin done,
         s.board[l].tracker = 0, Available(s) = {}, NEW e \in TrackerRecord, e.refs = 1, NEW r,
         r.trackers = Append(s.trackers, e),
         Shaped(r),
         NEW x, x = Len(s.trackers) + 1,
         r.board = Turned(s, l, x)
  PROVE  /\ Core(r, done)
         /\ DOMAIN r.trackers = 1 .. Len(s.trackers) + 1
         /\ r.trackers[Len(s.trackers) + 1] = e
         /\ \A j \in DOMAIN s.trackers : r.trackers[j] = s.trackers[j]
<1> DEFINE n == Len(s.trackers)
<1>1. Count \in Nat /\ s.trackers \in Seq(Tracker) /\ DOMAIN s.trackers = 1 .. n /\ n \in Nat
  BY LeaderboardAssumption, LenProperties DEF Core, Typed
<1>2. n + 1 <= Count
  BY Room
<1>3. e \in Tracker
  <2>1. e.refs \in 0 .. Count
    BY <1>1, <1>2
  <2> QED BY <2>1 DEF Tracker, TrackerRecord
<1>4. /\ r.trackers \in Seq(Tracker) /\ Len(r.trackers) = n + 1
      /\ DOMAIN r.trackers = 1 .. n + 1
      /\ r.trackers[n + 1] = e
      /\ \A j \in DOMAIN s.trackers : r.trackers[j] = s.trackers[j]
  BY <1>1, <1>3, AppendProperties, LenProperties
<1>5. /\ r.board \in [Leaderboards -> BoardRecord]
      /\ r.board[l].tracker = n + 1
      /\ SameBut(s, r, l)
  <2>1. x \in 0 .. Count /\ Typed(s)
    BY <1>1, <1>2 DEF Core
  <2>2. x = n + 1
    OBVIOUS
  <2> HIDE DEF n
  <2>3. /\ r.board \in [Leaderboards -> BoardRecord]
        /\ r.board[l].tracker = x
        /\ SameBut(s, r, l)
    BY <2>1, Pointed
  <2> QED BY <2>2, <2>3
<1>6. Typed(r)
  BY <1>4, <1>5 DEF Typed, Shaped
<1>o. \A m \in Leaderboards : s.board[m].tracker <= n
  BY DEF Core
<1>7. \A m \in Leaderboards : r.board[m].tracker <= Len(r.trackers)
  <2>1. s.board \in [Leaderboards -> BoardRecord]
    BY DEF Core, Typed
  <2>2. \A m \in Leaderboards : s.board[m].tracker \in Nat
    BY <2>1, <1>1 DEF BoardRecord
  <2> QED BY <1>o, <2>2, <1>1, <1>4, <1>5 DEF SameBut
<1>8. ASSUME NEW j \in DOMAIN r.trackers
      PROVE  r.trackers[j].refs = Cardinality(Users(r, j))
  <2>1. CASE j = n + 1
    <3>1. Users(r, j) = {l}
      BY <2>1, <1>o, <1>1, <1>5 DEF Users, SameBut
    <3>2. Cardinality(Users(r, j)) = 1
      BY <3>1, FS_Singleton
    <3> QED BY <3>2, <2>1, <1>4
  <2>2. CASE j # n + 1
    <3>1. j # 0 /\ j \in DOMAIN s.trackers
      BY <1>1, <1>4, <2>2
    <3>a. r.board[l].tracker # j /\ s.board[l].tracker # j
      BY <3>1, <2>2, <1>5
    <3>2. Users(r, j) = Users(s, j)
      BY <3>a, <1>5 DEF SameBut, Users
    <3>3. s.trackers[j].refs = Cardinality(Users(s, j))
      BY <3>1 DEF Core
    <3> QED BY <3>1, <3>2, <3>3, <1>4
  <2> QED BY <2>1, <2>2
<1>9. Returners(r, done)
  <2>1. PICK rel \in [Leaderboards -> Nat] : \A j \in DOMAIN s.trackers :
          s.trackers[j].refs = 0 /\ s.trackers[j].pending # {} =>
            \E k \in done : k \in Leaderboards /\ s.board[k].tracker = 0 /\ rel[k] = j
    BY DEF Core, Returners
  <2>2. ASSUME NEW j \in DOMAIN r.trackers, r.trackers[j].refs = 0, r.trackers[j].pending # {}
        PROVE  \E k \in done : k \in Leaderboards /\ r.board[k].tracker = 0 /\ rel[k] = j
    <3>1. j \in DOMAIN s.trackers
      BY <2>2, <1>1, <1>4
    <3>2. PICK k \in done : k \in Leaderboards /\ s.board[k].tracker = 0 /\ rel[k] = j
      BY <3>1, <2>1, <2>2, <1>4
    <3>3. r.board[k].tracker = 0
      BY <3>2, <1>5 DEF SameBut
    <3> QED BY <3>2, <3>3
  <2> QED BY <2>1, <2>2 DEF Returners
<1>10. Len(r.trackers) <= Count
  BY <1>2, <1>4
<1> QED BY <1>4, <1>6, <1>7, <1>8, <1>9, <1>10 DEF Core

\* A set of numbers has a first one.
LEMMA FirstIn ==
  ASSUME NEW S, S \subseteq Nat, S # {}
  PROVE  First(S) \in S
<1> DEFINE T == {n \in Nat : \A m \in 0 .. n : m \notin S}
<1>1. \E i \in S : \A j \in S : i <= j
  <2> SUFFICES ASSUME ~ \E i \in S : \A j \in S : i <= j PROVE FALSE
    OBVIOUS
  <2>1. 0 \in T
    <3>1. 0 \notin S
      <4>1. \A j \in S : 0 <= j
        OBVIOUS
      <4> QED BY <4>1
    <3> QED BY <3>1
  <2>2. ASSUME NEW n \in Nat, n \in T PROVE n + 1 \in T
    <3>1. \A m \in 0 .. n : m \notin S
      BY <2>2
    <3>2. n + 1 \notin S
      <4>1. \A j \in S : n + 1 <= j
        <5> SUFFICES ASSUME NEW j \in S, ~(n + 1 <= j) PROVE FALSE
          OBVIOUS
        <5>1. j \in 0 .. n
          OBVIOUS
        <5> QED BY <5>1, <3>1
      <4> QED BY <4>1
    <3>3. \A m \in 0 .. n + 1 : m = n + 1 \/ m \in 0 .. n
      OBVIOUS
    <3> QED BY <3>1, <3>2, <3>3
  <2>3. Nat \subseteq T
    <3> HIDE DEF T
    <3> QED BY <2>1, <2>2, Induction
  <2>4. PICK x \in S : TRUE
    OBVIOUS
  <2>5. x \in Nat /\ x \in 0 .. x
    OBVIOUS
  <2> QED BY <2>3, <2>4, <2>5
<1> QED BY <1>1, Zenon DEF First

-----------------------------------------------------------------------------
(* What the events that are pending tell of the trackers.                    *)

\* The trackers on screen when the call begins.
Shown == {i \in DOMAIN trackers : trackers[i].refs > 0}

\* What is pending for tracker i, which is now t, tells whether it has come or gone.
Fits(i, t) ==
  /\ t.refs > 0 => "HIDE" \notin t.pending /\ ("SHOW" \in t.pending <=> i \notin Shown)
  /\ ~(t.refs > 0) /\ i \in Shown => "HIDE" \in t.pending /\ "SHOW" \notin t.pending
  /\ ~(t.refs > 0) /\ i \notin Shown =>
       t.pending = {} \/ {"SHOW", "HIDE"} \subseteq t.pending

\* So a host that draws the events shows the trackers in use.
Drawable(s) ==
  /\ Shown \subseteq DOMAIN s.trackers
  /\ \A i \in DOMAIN s.trackers : Fits(i, s.trackers[i])

Keeps(s, r) == Drawable(s) => Drawable(r)

\* The trackers stay as they are.
LEMMA KeepsTrackers ==
  ASSUME NEW s, NEW r, r.trackers = s.trackers
  PROVE  Keeps(s, r)
BY DEF Keeps, Drawable

\* Tracker i becomes e, which still fits.
Refitted(s, r, i, e) ==
  /\ i \in DOMAIN s.trackers
  /\ DOMAIN r.trackers = DOMAIN s.trackers
  /\ \A j \in DOMAIN s.trackers : r.trackers[j] = IF j = i THEN e ELSE s.trackers[j]
  /\ Fits(i, s.trackers[i]) => Fits(i, e)

LEMMA KeepsReplaced ==
  ASSUME NEW s, NEW r, NEW i, NEW e, Refitted(s, r, i, e)
  PROVE  Keeps(s, r)
BY DEF Keeps, Drawable, Refitted

-----------------------------------------------------------------------------
(* What a turn of leaderboard l does to the others: r follows s.             *)

\* Other leaderboards are left alone, trackers in use keep their formula, and what
\* they show, but for the value of l; what is pending for them can be drawn.
Moves(s, r, l) ==
  /\ Keeps(s, r)
  /\ \A m \in Leaderboards \ {l} : r.board[m] = s.board[m]
  /\ SameBoard(s.board[l], r.board[l])
  /\ \A i \in DOMAIN s.trackers :
       /\ i \in DOMAIN r.trackers
       /\ s.trackers[i].refs > 0 =>
            /\ r.trackers[i].formula = s.trackers[i].formula
            /\ \/ r.trackers[i].raw = s.trackers[i].raw
               \/ r.board[l].tracker = i /\ r.trackers[i].raw = s.board[l].value

\* Leaderboard l shows its value on its tracker.
Shows(r, l) ==
  /\ r.board[l].tracker \in DOMAIN r.trackers
  /\ r.trackers[r.board[l].tracker].raw = r.board[l].value

\* The tracker of a leaderboard is one of the trackers, and is in use.
LEMMA Pointing ==
  ASSUME NEW s, NEW done, Core(s, done), NEW l \in Leaderboards
  PROVE  /\ s \in [board : [Leaderboards -> BoardRecord], trackers : Seq(Tracker)]
         /\ s.board[l] \in BoardRecord
         /\ s.trackers \in Seq(Tracker)
         /\ DOMAIN s.trackers = 1 .. Len(s.trackers)
         /\ Len(s.trackers) \in Nat
         /\ \A i \in DOMAIN s.trackers : s.trackers[i] \in Tracker
         /\ s.board[l].tracker # 0 =>
              /\ s.board[l].tracker \in DOMAIN s.trackers
              /\ s.trackers[s.board[l].tracker].refs > 0
<1>1. /\ s \in [board : [Leaderboards -> BoardRecord], trackers : Seq(Tracker)]
      /\ s.board[l] \in BoardRecord
      /\ s.trackers \in Seq(Tracker)
  BY DEF Core, Typed
<1>2. /\ DOMAIN s.trackers = 1 .. Len(s.trackers)
      /\ Len(s.trackers) \in Nat
      /\ \A i \in DOMAIN s.trackers : s.trackers[i] \in Tracker
  BY <1>1, LenProperties, ElementOfSeq
<1>3. ASSUME s.board[l].tracker # 0
      PROVE  /\ s.board[l].tracker \in DOMAIN s.trackers
             /\ s.trackers[s.board[l].tracker].refs > 0
  <2> DEFINE i == s.board[l].tracker
  <2>1. Count \in Nat
    BY LeaderboardAssumption
  <2>2. i \in 0 .. Count /\ i <= Len(s.trackers)
    BY <1>1 DEF Core, BoardRecord
  <2>3. i \in DOMAIN s.trackers
    BY <1>2, <1>3, <2>1, <2>2
  <2>4. s.trackers[i].refs = Cardinality(Users(s, i)) /\ l \in Users(s, i)
    BY <2>3 DEF Core, Users
  <2>5. Cardinality(Users(s, i)) \in Nat /\ Cardinality(Users(s, i)) # 0
    BY <2>4, <2>1, UsersFinite, FS_EmptySet
  <2> QED BY <2>3, <2>4, <2>5
<1> QED BY <1>1, <1>2, <1>3

\* A tracker that shows another value, and one that is given back.
WithValue(t, v) == [t EXCEPT !.raw = v, !.pending = @ \cup {"UPDATE"}]

GivenBack(t) ==
  [t EXCEPT !.refs = @ - 1, !.pending = IF t.refs = 1 THEN @ \cup {"HIDE"} ELSE @]

\* A tracker with another value.
LEMMA TrackerShown ==
  ASSUME NEW t \in Tracker, NEW v \in 0 .. host.values, NEW e, e = WithValue(t, v)
  PROVE  /\ e \in TrackerRecord
         /\ e.refs = t.refs
         /\ e.formula = t.formula
         /\ e.raw = v
         /\ \A i : t.refs > 0 /\ Fits(i, t) => Fits(i, e)
<1>1. /\ t.refs \in Int /\ t.formula \in Range(host.formula)
      /\ t.raw \in 0 .. host.values /\ t.pending \in SUBSET {"SHOW", "HIDE", "UPDATE"}
  BY LeaderboardAssumption DEF Tracker
<1>2. e = [refs |-> t.refs, formula |-> t.formula, raw |-> v,
           pending |-> t.pending \cup {"UPDATE"}]
  BY DEF Tracker, WithValue
<1>3. t.pending \cup {"UPDATE"} \in SUBSET {"SHOW", "HIDE", "UPDATE"}
  BY <1>1
<1>4. ASSUME NEW i, t.refs > 0, Fits(i, t) PROVE Fits(i, e)
  BY <1>2, <1>4 DEF Fits
<1> QED BY <1>1, <1>2, <1>3, <1>4 DEF TrackerRecord

\* A tracker with a user less.
LEMMA TrackerReleased ==
  ASSUME NEW t \in Tracker, NEW e, e = GivenBack(t)
  PROVE  /\ e \in TrackerRecord
         /\ e.refs = t.refs - 1
         /\ e.formula = t.formula
         /\ e.raw = t.raw
         /\ \A i : t.refs > 0 /\ Fits(i, t) => Fits(i, e)
<1> DEFINE p == IF t.refs = 1 THEN t.pending \cup {"HIDE"} ELSE t.pending
<1>1. /\ t.refs \in Int /\ t.refs - 1 \in Int /\ t.formula \in Range(host.formula)
      /\ t.raw \in 0 .. host.values /\ t.pending \in SUBSET {"SHOW", "HIDE", "UPDATE"}
  BY LeaderboardAssumption DEF Tracker
<1>2. e = [refs |-> t.refs - 1, formula |-> t.formula, raw |-> t.raw, pending |-> p]
  BY DEF Tracker, GivenBack
<1>3. p \in SUBSET {"SHOW", "HIDE", "UPDATE"}
  BY <1>1
<1>4. ASSUME NEW i, t.refs > 0, Fits(i, t) PROVE Fits(i, e)
  <2>1. CASE t.refs = 1
    <3>1. e.refs = 0 /\ e.pending = t.pending \cup {"HIDE"}
      BY <1>2, <2>1
    <3> QED BY <1>4, <3>1 DEF Fits
  <2>2. CASE t.refs # 1
    <3>1. e.refs > 0 /\ e.pending = t.pending
      BY <1>1, <1>2, <1>4, <2>2
    <3> QED BY <1>4, <3>1 DEF Fits
  <2> QED BY <2>1, <2>2
<1> HIDE DEF p
<1> QED BY <1>1, <1>2, <1>3, <1>4 DEF TrackerRecord

\* rc_client_update_leaderboard_tracker keeps the count, and shows the value.
LEMMA UpdateMoves ==
  ASSUME host \in Hosts, NEW s, NEW done, Core(s, done), NEW l \in Leaderboards,
         s.board[l].tracker # 0
  PROVE  /\ Core(UpdateTracker(s, l), done)
         /\ Moves(s, UpdateTracker(s, l), l)
         /\ Shows(UpdateTracker(s, l), l)
         /\ UpdateTracker(s, l).board = s.board
         /\ \A i \in DOMAIN s.trackers :
              UpdateTracker(s, l).trackers[i].formula = s.trackers[i].formula
<1> DEFINE i == s.board[l].tracker
           e == WithValue(s.trackers[i], s.board[l].value)
           r == UpdateTracker(s, l)
<1>1. /\ s \in [board : [Leaderboards -> BoardRecord], trackers : Seq(Tracker)]
      /\ s.board[l] \in BoardRecord
      /\ s.trackers \in Seq(Tracker)
      /\ DOMAIN s.trackers = 1 .. Len(s.trackers)
      /\ i \in DOMAIN s.trackers /\ i # 0
      /\ s.trackers[i] \in Tracker /\ s.trackers[i].refs > 0
  BY Pointing
<1>2. CASE s.trackers[i].raw = s.board[l].value
  <2>1. r = s
    BY <1>2 DEF UpdateTracker
  <2>2. Moves(s, s, l)
    BY KeepsTrackers DEF Moves, SameBoard
  <2>3. Shows(s, l)
    BY <1>1, <1>2 DEF Shows
  <2> HIDE DEF r
  <2> QED BY <2>1, <2>2, <2>3 DEF r
<1>3. CASE s.trackers[i].raw # s.board[l].value
  <2>1. /\ r.board = s.board
        /\ r.trackers = [s.trackers EXCEPT ![i] = e]
        /\ Shaped(r)
    BY <1>1, <1>3 DEF UpdateTracker, Shaped, WithValue
  <2>2. /\ e \in TrackerRecord
        /\ e.refs = s.trackers[i].refs
        /\ e.formula = s.trackers[i].formula
        /\ e.raw = s.board[l].value
        /\ Fits(i, s.trackers[i]) => Fits(i, e)
    <3>1. s.board[l].value \in 0 .. host.values
      BY <1>1 DEF BoardRecord
    <3>3. s.trackers[i] \in Tracker
      BY <1>1
    <3> HIDE DEF i
    <3> QED BY <1>1, <3>1, <3>3, TrackerShown
  <2>3. SameBut(s, r, l)
    <3> HIDE DEF r
    <3> QED BY <2>1 DEF SameBut
  <2>4. Core(r, done)
    <3> HIDE DEF r, e
    <3>1. r.board \in [Leaderboards -> BoardRecord] /\ r.board[l].tracker = i
          /\ s.board[l].tracker = i
      BY <1>1, <2>1
    <3> HIDE DEF i
    <3>2. done \subseteq done /\ i \in DOMAIN s.trackers
      BY <1>1
    <3>3. e \in TrackerRecord /\ e.refs = s.trackers[i].refs
      BY <2>2
    <3>4. Replaced(s, r, i, e) /\ Shaped(r)
      BY <2>1 DEF Replaced
    <3> QED BY <2>3, <3>1, <3>2, <3>3, <3>4, Touched
  <2>5. \A j \in DOMAIN s.trackers : r.trackers[j] = IF j = i THEN e ELSE s.trackers[j]
    <3> HIDE DEF r, e
    <3> QED BY <1>1, <2>1
  <2>6. DOMAIN r.trackers = DOMAIN s.trackers
    <3> HIDE DEF r, e
    <3> QED BY <1>1, <2>1
  <2> HIDE DEF r, e
  <2>k. Keeps(s, r)
    <3>1. i \in DOMAIN s.trackers
      BY <1>1
    <3>2. Fits(i, s.trackers[i]) => Fits(i, e)
      BY <2>2
    <3> HIDE DEF i
    <3>3. Refitted(s, r, i, e)
      BY <3>1, <3>2, <2>5, <2>6 DEF Refitted
    <3> QED BY <3>3, KeepsReplaced
  <2>7. Moves(s, r, l)
    BY <2>1, <2>2, <2>5, <2>6, <2>k DEF Moves, SameBoard
  <2>8. Shows(r, l)
    BY <1>1, <2>1, <2>2, <2>5, <2>6 DEF Shows
  <2>9. \A j \in DOMAIN s.trackers : r.trackers[j].formula = s.trackers[j].formula
    BY <2>2, <2>5
  <2> QED BY <2>1, <2>4, <2>7, <2>8, <2>9 DEF r
<1> QED BY <1>2, <1>3

\* rc_client_release_leaderboard_tracker gives the tracker back.
LEMMA ReleaseMoves ==
  ASSUME NEW s, NEW done, Core(s, done), NEW next, done \subseteq next, host \in Hosts,
         NEW l \in Leaderboards, l \in next
  PROVE  /\ Core(ReleaseTracker(s, l), next)
         /\ Moves(s, ReleaseTracker(s, l), l)
         /\ ReleaseTracker(s, l).board[l].tracker = 0
<1> DEFINE i == s.board[l].tracker
           e == GivenBack(s.trackers[i])
           r == ReleaseTracker(s, l)
<1>1. CASE i = 0
  <2>1. r = s
    BY <1>1 DEF ReleaseTracker
  <2>2. Moves(s, s, l)
    BY KeepsTrackers DEF Moves, SameBoard
  <2>3. Core(s, next)
    BY DEF Core, Returners
  <2> HIDE DEF r
  <2> QED BY <1>1, <2>1, <2>2, <2>3 DEF r
<1>2. CASE i # 0
  <2>1. /\ s \in [board : [Leaderboards -> BoardRecord], trackers : Seq(Tracker)]
        /\ s.board[l] \in BoardRecord
        /\ s.trackers \in Seq(Tracker)
        /\ DOMAIN s.trackers = 1 .. Len(s.trackers)
        /\ i \in DOMAIN s.trackers
        /\ s.trackers[i] \in Tracker /\ s.trackers[i].refs > 0
    BY <1>2, Pointing
  <2>2. /\ r.board = Turned(s, l, 0)
        /\ r.trackers = [s.trackers EXCEPT ![i] = e]
        /\ Shaped(r)
        /\ Replaced(s, r, i, e)
    BY <1>2, <2>1 DEF Replaced, ReleaseTracker, Shaped, Turned, GivenBack
  <2>3. /\ e \in TrackerRecord
        /\ e.refs = s.trackers[i].refs - 1
        /\ e.formula = s.trackers[i].formula
        /\ e.raw = s.trackers[i].raw
        /\ Fits(i, s.trackers[i]) => Fits(i, e)
    <3> HIDE DEF i
    <3> QED BY <2>1, TrackerReleased
  <2> HIDE DEF r, e
  <2>4. /\ r.board \in [Leaderboards -> BoardRecord]
        /\ SameBoard(s.board[l], r.board[l])
        /\ r.board[l].tracker = 0
        /\ \A m \in Leaderboards \ {l} : r.board[m] = s.board[m]
        /\ SameBut(s, r, l)
    <3>1. 0 \in 0 .. Count /\ Typed(s)
      BY LeaderboardAssumption DEF Core
    <3> QED BY <3>1, <2>2, Pointed
  <2>5. Core(r, next)
    <3>1. s.board[l].tracker = i
      OBVIOUS
    <3> HIDE DEF i
    <3> QED BY <3>1, <2>1, <2>2, <2>3, <2>4, Touched
  <2>6. \A j \in DOMAIN s.trackers : r.trackers[j] = IF j = i THEN e ELSE s.trackers[j]
    BY <2>1, <2>2
  <2>7. DOMAIN r.trackers = DOMAIN s.trackers
    BY <2>1, <2>2
  <2>k. Keeps(s, r)
    <3>1. i \in DOMAIN s.trackers
      BY <2>1
    <3>2. Fits(i, s.trackers[i]) => Fits(i, e)
      BY <2>3
    <3> HIDE DEF i
    <3>3. Refitted(s, r, i, e)
      BY <3>1, <3>2, <2>6, <2>7 DEF Refitted
    <3> QED BY <3>3, KeepsReplaced
  <2>8. Moves(s, r, l)
    BY <2>3, <2>4, <2>6, <2>7, <2>k DEF Moves
  <2> QED BY <2>4, <2>5, <2>8 DEF r
<1> QED BY <1>1, <1>2

Joined(t) == [t EXCEPT !.refs = @ + 1, !.pending = @ \ {"HIDE"}]

Claimed(s, l) ==
  [refs |-> 1, formula |-> host.formula[l], raw |-> s.board[l].value, pending |-> {"SHOW"}]

\* A tracker with a user more.
LEMMA TrackerJoined ==
  ASSUME NEW t \in Tracker, NEW e, e = Joined(t)
  PROVE  /\ e \in TrackerRecord
         /\ e.refs = t.refs + 1
         /\ e.formula = t.formula
         /\ e.raw = t.raw
         /\ \A i : t.refs > 0 /\ Fits(i, t) => Fits(i, e)
<1>1. /\ t.refs \in Int /\ t.refs + 1 \in Int /\ t.formula \in Range(host.formula)
      /\ t.raw \in 0 .. host.values /\ t.pending \in SUBSET {"SHOW", "HIDE", "UPDATE"}
  BY LeaderboardAssumption DEF Tracker
<1>2. e = [refs |-> t.refs + 1, formula |-> t.formula, raw |-> t.raw,
           pending |-> t.pending \ {"HIDE"}]
  BY DEF Tracker, Joined
<1>3. t.pending \ {"HIDE"} \in SUBSET {"SHOW", "HIDE", "UPDATE"}
  BY <1>1
<1>4. ASSUME NEW i, t.refs > 0, Fits(i, t) PROVE Fits(i, e)
  <2>1. e.refs > 0 /\ e.pending = t.pending \ {"HIDE"}
    BY <1>1, <1>2, <1>4
  <2> QED BY <1>4, <2>1 DEF Fits
<1> QED BY <1>1, <1>2, <1>3, <1>4 DEF TrackerRecord

\* A tracker that has just been claimed.
LEMMA TrackerClaimed ==
  ASSUME host \in Hosts, NEW s, Typed(s), NEW l \in Leaderboards, NEW e, e = Claimed(s, l)
  PROVE  /\ e \in TrackerRecord
         /\ e.refs = 1
         /\ e.formula = host.formula[l]
         /\ e.raw = s.board[l].value
         /\ \A i : i \notin Shown => Fits(i, e)
<1>1. s.board[l].value \in 0 .. host.values
  BY DEF Typed, BoardRecord
<1>2. host.formula[l] \in Range(host.formula)
  BY HostTyped
<1>3. ASSUME NEW i, i \notin Shown PROVE Fits(i, e)
  BY <1>3 DEF Claimed, Fits
<1> QED BY <1>1, <1>2, <1>3 DEF TrackerRecord, Claimed

\* The turn of leaderboard l puts it on tracker i, with its formula.
Takes(s, r, l) ==
  /\ Moves(s, r, l)
  /\ Shows(r, l)
  /\ r.board[l].tracker # 0
  /\ r.trackers[r.board[l].tracker].formula = host.formula[l]

\* It claims tracker i, which nobody refers to.
LEMMA ClaimMoves ==
  ASSUME host \in Hosts, NEW s, NEW done, Core(s, done), NEW l \in Leaderboards, l \notin done,
         s.board[l].tracker = 0, NEW i \in Available(s), NEW r,
         r.board = Turned(s, l, i), Replaced(s, r, i, Claimed(s, l)), Shaped(r)
  PROVE  Core(r, done) /\ Takes(s, r, l)
<1> DEFINE e == Claimed(s, l)
<1>1. /\ s.trackers \in Seq(Tracker)
      /\ DOMAIN s.trackers = 1 .. Len(s.trackers)
      /\ Len(s.trackers) \in Nat /\ Len(s.trackers) <= Count
      /\ Typed(s)
  BY Pointing DEF Core
<1>2. /\ i \in DOMAIN s.trackers /\ s.trackers[i].refs = 0 /\ i # 0 /\ i \in 0 .. Count
      /\ s.trackers[i].pending = {}
  BY <1>1, LeaderboardAssumption DEF Available
<1>3. /\ e \in TrackerRecord
      /\ e.refs = 1
      /\ e.formula = host.formula[l]
      /\ e.raw = s.board[l].value
      /\ i \notin Shown => Fits(i, e)
  BY <1>1, TrackerClaimed
<1>4. e.refs = s.trackers[i].refs + 1 /\ Replaced(s, r, i, e)
  BY <1>2, <1>3
<1> HIDE DEF e
<1>5. /\ r.board \in [Leaderboards -> BoardRecord]
      /\ SameBoard(s.board[l], r.board[l])
      /\ r.board[l].tracker = i
      /\ \A m \in Leaderboards \ {l} : r.board[m] = s.board[m]
      /\ SameBut(s, r, l)
  BY <1>1, <1>2, Pointed
<1>6. Core(r, done)
  <2>1. done \subseteq done
    OBVIOUS
  <2> QED BY <2>1, <1>2, <1>3, <1>4, <1>5, Touched
<1>7. /\ \A j \in DOMAIN s.trackers : r.trackers[j] = IF j = i THEN e ELSE s.trackers[j]
      /\ DOMAIN r.trackers = DOMAIN s.trackers
  BY <1>1, <1>4 DEF Replaced
<1>k. Keeps(s, r)
  <2>1. Fits(i, s.trackers[i]) => Fits(i, e)
    BY <1>2, <1>3 DEF Fits
  <2>2. i \in DOMAIN s.trackers
    BY <1>2
  <2>3. Refitted(s, r, i, e)
    BY <2>1, <2>2, <1>7 DEF Refitted
  <2> QED BY <2>3, KeepsReplaced
<1>8. Moves(s, r, l)
  BY <1>2, <1>5, <1>7, <1>k DEF Moves
<1>9. Shows(r, l) /\ r.trackers[r.board[l].tracker].formula = host.formula[l]
  BY <1>2, <1>3, <1>5, <1>7 DEF Shows, SameBoard
<1> QED BY <1>2, <1>5, <1>6, <1>8, <1>9 DEF Takes

\* It claims a tracker that has just been made.
LEMMA AppendMoves ==
  ASSUME host \in Hosts, NEW s, NEW done, Core(s, done), NEW l \in Leaderboards, l \notin done,
         s.board[l].tracker = 0, Available(s) = {}, NEW r, NEW x, x = Len(s.trackers) + 1,
         r.board = Turned(s, l, x), r.trackers = Append(s.trackers, Claimed(s, l)), Shaped(r)
  PROVE  Core(r, done) /\ Takes(s, r, l)
<1> DEFINE e == Claimed(s, l)
<1>1. /\ s.trackers \in Seq(Tracker)
      /\ DOMAIN s.trackers = 1 .. Len(s.trackers)
      /\ Len(s.trackers) \in Nat
      /\ Typed(s)
  BY Pointing DEF Core
<1>2. /\ e \in TrackerRecord
      /\ e.refs = 1
      /\ e.formula = host.formula[l]
      /\ e.raw = s.board[l].value
      /\ x \notin Shown => Fits(x, e)
  BY <1>1, TrackerClaimed
<1>3. r.trackers = Append(s.trackers, e)
  OBVIOUS
<1> HIDE DEF e
<1>4. /\ Core(r, done)
      /\ DOMAIN r.trackers = 1 .. Len(s.trackers) + 1
      /\ r.trackers[x] = e
      /\ \A j \in DOMAIN s.trackers : r.trackers[j] = s.trackers[j]
  BY <1>2, <1>3, Grown
<1>5. x \in 0 .. Count /\ x # 0 /\ x \in DOMAIN r.trackers
  BY <1>1, <1>4, Room, LeaderboardAssumption
<1>6. /\ SameBoard(s.board[l], r.board[l])
      /\ r.board[l].tracker = x
      /\ \A m \in Leaderboards \ {l} : r.board[m] = s.board[m]
  BY <1>1, <1>5, Pointed
<1>k. Keeps(s, r)
  <2>1. x \notin DOMAIN s.trackers /\ \A j \in DOMAIN r.trackers : j = x \/ j \in DOMAIN s.trackers
    BY <1>1, <1>4
  <2>2. DOMAIN s.trackers \subseteq DOMAIN r.trackers
    BY <1>1, <1>4
  <2> QED BY <1>2, <1>4, <2>1, <2>2 DEF Keeps, Drawable
<1>7. Moves(s, r, l)
  BY <1>1, <1>4, <1>6, <1>k DEF Moves
<1>8. Shows(r, l) /\ r.trackers[r.board[l].tracker].formula = host.formula[l]
  BY <1>2, <1>4, <1>5, <1>6 DEF Shows, SameBoard
<1> QED BY <1>4, <1>5, <1>6, <1>7, <1>8 DEF Takes

\* It joins those that use tracker i, with its formula.
LEMMA JoinMoves ==
  ASSUME host \in Hosts, NEW s, NEW done, Core(s, done), NEW l \in Leaderboards, l \notin done,
         s.board[l].tracker = 0, NEW i \in Shareable(s, l), NEW r,
         r.board = Turned(s, l, i), Replaced(s, r, i, Joined(s.trackers[i])), Shaped(r)
  PROVE  Core(UpdateTracker(r, l), done) /\ Takes(s, UpdateTracker(r, l), l)
<1> DEFINE e == Joined(s.trackers[i])
           u == UpdateTracker(r, l)
<1>1. /\ s.trackers \in Seq(Tracker)
      /\ DOMAIN s.trackers = 1 .. Len(s.trackers)
      /\ Len(s.trackers) \in Nat /\ Len(s.trackers) <= Count
      /\ \A j \in DOMAIN s.trackers : s.trackers[j] \in Tracker
      /\ Typed(s)
  BY Pointing DEF Core
<1>2. /\ i \in DOMAIN s.trackers /\ i # 0 /\ i \in 0 .. Count
      /\ s.trackers[i].refs > 0 /\ s.trackers[i].formula = host.formula[l]
  BY <1>1, LeaderboardAssumption DEF Shareable
<1>3. /\ e \in TrackerRecord
      /\ e.refs = s.trackers[i].refs + 1
      /\ e.formula = s.trackers[i].formula
      /\ e.raw = s.trackers[i].raw
      /\ Fits(i, s.trackers[i]) => Fits(i, e)
  BY <1>1, <1>2, TrackerJoined
<1>4. Replaced(s, r, i, e)
  OBVIOUS
<1> HIDE DEF e, u
<1>5. /\ r.board \in [Leaderboards -> BoardRecord]
      /\ SameBoard(s.board[l], r.board[l])
      /\ r.board[l].tracker = i
      /\ \A m \in Leaderboards \ {l} : r.board[m] = s.board[m]
      /\ SameBut(s, r, l)
  BY <1>1, <1>2, Pointed
<1>6. Core(r, done)
  <2>1. done \subseteq done
    OBVIOUS
  <2> QED BY <2>1, <1>2, <1>3, <1>4, <1>5, Touched
<1>7. /\ \A j \in DOMAIN s.trackers : r.trackers[j] = IF j = i THEN e ELSE s.trackers[j]
      /\ DOMAIN r.trackers = DOMAIN s.trackers
  BY <1>1, <1>4 DEF Replaced
<1>8. /\ Core(u, done)
      /\ Moves(r, u, l)
      /\ Shows(u, l)
      /\ u.board = r.board
      /\ \A j \in DOMAIN r.trackers : u.trackers[j].formula = r.trackers[j].formula
  BY <1>2, <1>5, <1>6, UpdateMoves DEF u
<1>9. ASSUME NEW j \in DOMAIN s.trackers
      PROVE  /\ j \in DOMAIN u.trackers
             /\ s.trackers[j].refs > 0 =>
                  /\ u.trackers[j].formula = s.trackers[j].formula
                  /\ \/ u.trackers[j].raw = s.trackers[j].raw
                     \/ u.board[l].tracker = j /\ u.trackers[j].raw = s.board[l].value
  <2>0. j \in DOMAIN r.trackers /\ j \in DOMAIN u.trackers
    BY <1>7, <1>8 DEF Moves
  <2>1. SUFFICES ASSUME s.trackers[j].refs > 0
                 PROVE  /\ u.trackers[j].formula = s.trackers[j].formula
                        /\ \/ u.trackers[j].raw = s.trackers[j].raw
                           \/ u.board[l].tracker = j /\ u.trackers[j].raw = s.board[l].value
    BY <2>0
  <2>2. s.trackers[j].refs \in Nat
    BY <1>1, LeaderboardAssumption DEF Tracker
  <2>3. /\ r.trackers[j].refs > 0
        /\ r.trackers[j].formula = s.trackers[j].formula
        /\ r.trackers[j].raw = s.trackers[j].raw
    BY <2>1, <2>2, <1>3, <1>7
  <2>4. \/ u.trackers[j].raw = r.trackers[j].raw
        \/ u.board[l].tracker = j /\ u.trackers[j].raw = r.board[l].value
    BY <2>0, <2>3, <1>8 DEF Moves
  <2> QED BY <2>0, <2>3, <2>4, <1>5, <1>8 DEF SameBoard
<1>k. Keeps(s, u)
  <2>1. Refitted(s, r, i, e)
    BY <1>2, <1>3, <1>7 DEF Refitted
  <2>2. Keeps(s, r)
    BY <2>1, KeepsReplaced
  <2> QED BY <2>2, <1>8 DEF Moves, Keeps
<1>10. Moves(s, u, l)
  BY <1>5, <1>8, <1>9, <1>k DEF Moves, SameBoard
<1>11. u.board[l].tracker # 0 /\ u.trackers[u.board[l].tracker].formula = host.formula[l]
  BY <1>2, <1>3, <1>5, <1>7, <1>8
<1> QED BY <1>8, <1>10, <1>11 DEF Takes, u

\* rc_client_allocate_leaderboard_tracker finds leaderboard l a tracker.
LEMMA AllocateMoves ==
  ASSUME host \in Hosts, NEW s, NEW done, Core(s, done), NEW l \in Leaderboards, l \notin done,
         s.board[l].tracker = 0
  PROVE  Core(AllocateTracker(s, l), done) /\ Takes(s, AllocateTracker(s, l), l)
<1>1. /\ s \in [board : [Leaderboards -> BoardRecord], trackers : Seq(Tracker)]
      /\ DOMAIN s.trackers = 1 .. Len(s.trackers)
      /\ Len(s.trackers) \in Nat
  BY Pointing
<1>2. CASE Shareable(s, l) # {}
  <2> DEFINE i == First(Shareable(s, l))
             r == [s EXCEPT !.trackers[i].refs = @ + 1,
                            !.trackers[i].pending = @ \ {"HIDE"},
                            !.board[l].tracker = i]
  <2>1. i \in Shareable(s, l)
    <3>1. Shareable(s, l) \subseteq Nat
      BY <1>1 DEF Shareable
    <3> QED BY <1>2, <3>1, FirstIn
  <2>2. AllocateTracker(s, l) = UpdateTracker(r, l)
    BY <1>2 DEF AllocateTracker
  <2>3. i \in DOMAIN s.trackers
    BY <2>1 DEF Shareable
  <2> HIDE DEF i
  <2>4. r.board = Turned(s, l, i)
    BY <1>1 DEF Turned
  <2>5. Replaced(s, r, i, Joined(s.trackers[i]))
    BY <1>1, <2>3 DEF Replaced, Joined
  <2>6. Shaped(r)
    BY <1>1 DEF Shaped
  <2> HIDE DEF r
  <2> QED BY <2>1, <2>2, <2>4, <2>5, <2>6, JoinMoves
<1>3. CASE Shareable(s, l) = {} /\ Available(s) # {}
  <2> DEFINE i == First(Available(s))
             r == [s EXCEPT !.trackers[i] = Claimed(s, l), !.board[l].tracker = i]
  <2>1. i \in Available(s)
    <3>1. Available(s) \subseteq Nat
      BY <1>1 DEF Available
    <3> QED BY <1>3, <3>1, FirstIn
  <2>2. AllocateTracker(s, l) = r
    BY <1>3 DEF AllocateTracker, Claimed
  <2>3. i \in DOMAIN s.trackers
    BY <2>1 DEF Available
  <2> HIDE DEF i
  <2>4. r.board = Turned(s, l, i)
    BY <1>1 DEF Turned
  <2>5. Replaced(s, r, i, Claimed(s, l))
    BY <1>1, <2>3 DEF Replaced
  <2>6. Shaped(r)
    BY <1>1 DEF Shaped
  <2> HIDE DEF r
  <2> QED BY <2>1, <2>2, <2>4, <2>5, <2>6, ClaimMoves
<1>4. CASE Shareable(s, l) = {} /\ Available(s) = {}
  <2> DEFINE x == Len(s.trackers) + 1
             r == [s EXCEPT !.trackers = Append(@, Claimed(s, l)), !.board[l].tracker = x]
  <2>1. AllocateTracker(s, l) = r
    BY <1>4 DEF AllocateTracker, Claimed
  <2>2. x = Len(s.trackers) + 1
    OBVIOUS
  <2> HIDE DEF x
  <2>3. r.board = Turned(s, l, x)
    BY <1>1 DEF Turned
  <2>4. r.trackers = Append(s.trackers, Claimed(s, l))
    BY <1>1
  <2>5. Shaped(r)
    BY <1>1 DEF Shaped
  <2> HIDE DEF r
  <2> QED BY <1>4, <2>1, <2>2, <2>3, <2>4, <2>5, AppendMoves
<1> QED BY <1>2, <1>3, <1>4

-----------------------------------------------------------------------------
(* A whole turn: leaderboard l is given the fields of b, and perhaps another *)
(* tracker.                                                                  *)

\* The leaderboard l becomes b, and nothing else changes.
Put(s, r, l, b) ==
  Shaped(r) /\ r.trackers = s.trackers /\ r.board = [s.board EXCEPT ![l] = b]

\* The tracker of l has the formula of l.
OwnFormula(s, l) ==
  s.board[l].tracker # 0 => s.trackers[s.board[l].tracker].formula = host.formula[l]

\* The other leaderboards are left alone; their trackers show what they showed, or a
\* value from V if they have the formula of l.
Others(s, r, l, V) ==
  /\ Keeps(s, r)
  /\ \A m \in Leaderboards \ {l} :
       /\ r.board[m] = s.board[m]
       /\ s.board[m].tracker # 0 =>
            LET i == s.board[m].tracker
            IN /\ r.trackers[i].formula = s.trackers[i].formula
               /\ \/ r.trackers[i].raw = s.trackers[i].raw
                  \/ s.trackers[i].formula = host.formula[l] /\ r.trackers[i].raw \in V

Turn(s, r, l, b, V, next) ==
  /\ Core(r, next)
  /\ SameBoard(b, r.board[l])
  /\ Others(s, r, l, V)
  /\ OwnFormula(r, l)

\* More leaderboards have had their turn.
LEMMA Widened ==
  ASSUME NEW s, NEW done, Core(s, done), NEW next, done \subseteq next
  PROVE  Core(s, next)
BY DEF Core, Returners

\* What is left alone by two steps is left alone.
LEMMA OthersCompose ==
  ASSUME NEW s, NEW u, NEW r, NEW l, NEW V, NEW W, NEW X, V \subseteq X, W \subseteq X,
         Others(s, u, l, V), Others(u, r, l, W)
  PROVE  Others(s, r, l, X)
BY DEF Others, Keeps

\* The trackers of the others, when leaderboard l turns from one to another.
LEMMA MovesOthers ==
  ASSUME NEW s, NEW done, Core(s, done), NEW l \in Leaderboards, NEW r, Moves(s, r, l),
         OwnFormula(r, l)
  PROVE  /\ Others(s, r, l, {s.board[l].value})
         /\ r.board[l].tracker = 0 => Others(s, r, l, {})
<1>k. Keeps(s, r)
  BY DEF Moves
<1> SUFFICES ASSUME NEW m \in Leaderboards \ {l}
             PROVE  /\ r.board[m] = s.board[m]
                    /\ s.board[m].tracker # 0 =>
                         LET i == s.board[m].tracker
                         IN /\ r.trackers[i].formula = s.trackers[i].formula
                            /\ \/ r.trackers[i].raw = s.trackers[i].raw
                               \/ /\ s.trackers[i].formula = host.formula[l]
                                  /\ r.trackers[i].raw = s.board[l].value
                                  /\ r.board[l].tracker # 0
  BY <1>k DEF Others
<1>1. r.board[m] = s.board[m]
  BY DEF Moves
<1> SUFFICES ASSUME s.board[m].tracker # 0
             PROVE  LET i == s.board[m].tracker
                    IN /\ r.trackers[i].formula = s.trackers[i].formula
                       /\ \/ r.trackers[i].raw = s.trackers[i].raw
                          \/ /\ s.trackers[i].formula = host.formula[l]
                             /\ r.trackers[i].raw = s.board[l].value
                             /\ r.board[l].tracker # 0
  BY <1>1
<1> DEFINE i == s.board[m].tracker
<1>2. i \in DOMAIN s.trackers /\ s.trackers[i].refs > 0
  BY Pointing
<1>3. /\ r.trackers[i].formula = s.trackers[i].formula
      /\ \/ r.trackers[i].raw = s.trackers[i].raw
         \/ r.board[l].tracker = i /\ r.trackers[i].raw = s.board[l].value
  BY <1>2 DEF Moves
<1>4. i # 0
  OBVIOUS
<1> HIDE DEF i
<1> QED BY <1>3, <1>4 DEF OwnFormula, i

\* The fields of a leaderboard change, and not its tracker.
LEMMA TurnPuts ==
  ASSUME NEW s, NEW done, Core(s, done), NEW next, done \subseteq next,
         NEW l \in Leaderboards, NEW b \in BoardRecord, b.tracker = s.board[l].tracker,
         OwnFormula(s, l), NEW r, Put(s, r, l, b)
  PROVE  /\ Turn(s, r, l, b, {}, next)
         /\ Core(r, done)
         /\ r.board[l] = b
         /\ r.trackers = s.trackers
<1>1. Typed(s) /\ s.board \in [Leaderboards -> BoardRecord]
  BY DEF Core, Typed
<1>2. /\ r.board[l] = b
      /\ \A m \in Leaderboards \ {l} : r.board[m] = s.board[m]
      /\ r.board \in [Leaderboards -> BoardRecord]
      /\ r.trackers = s.trackers
  BY <1>1 DEF Put
<1>3. \A m \in Leaderboards : r.board[m].tracker = s.board[m].tracker
  BY <1>2
<1>4. Typed(r)
  BY <1>1, <1>2 DEF Put, Shaped, Typed
<1>5. \A i : Users(r, i) = Users(s, i)
  BY <1>3 DEF Users
<1>6. Returners(r, done)
  BY <1>2, <1>3 DEF Core, Returners
<1>7. Core(r, done)
  BY <1>2, <1>3, <1>4, <1>5, <1>6 DEF Core
<1>8. Core(r, next)
  BY <1>7, Widened
<1>9. Others(s, r, l, {})
  BY <1>2, KeepsTrackers DEF Others
<1>10. OwnFormula(r, l)
  BY <1>2 DEF OwnFormula
<1> QED BY <1>2, <1>7, <1>8, <1>9, <1>10 DEF Turn, SameBoard

\* Then it is given a tracker ...
LEMMA TurnAllocates ==
  ASSUME host \in Hosts,
         NEW s, NEW done, Core(s, done), NEW next, done \subseteq next,
         NEW l \in Leaderboards, l \notin done, NEW b \in BoardRecord,
         b.tracker = s.board[l].tracker, s.board[l].tracker = 0,
         NEW n, Put(s, n, l, b)
  PROVE  /\ Turn(s, AllocateTracker(n, l), l, b, {b.value}, next)
         /\ Shows(AllocateTracker(n, l), l)
         /\ AllocateTracker(n, l).board[l].tracker # 0
<1> DEFINE r == AllocateTracker(n, l)
<1>0. OwnFormula(s, l)
  BY DEF OwnFormula
<1>1. /\ Others(s, n, l, {})
      /\ Core(n, done)
      /\ n.board[l] = b
  <2>1. Turn(s, n, l, b, {}, next) /\ Core(n, done) /\ n.board[l] = b
    BY <1>0, TurnPuts
  <2> QED BY <2>1 DEF Turn
<1>2. Core(r, done) /\ Takes(n, r, l)
  BY <1>1, AllocateMoves
<1> HIDE DEF r
<1>3. /\ Moves(n, r, l) /\ OwnFormula(r, l) /\ Shows(r, l) /\ r.board[l].tracker # 0
      /\ SameBoard(b, r.board[l])
  BY <1>1, <1>2 DEF Takes, OwnFormula, Moves
<1>4. Others(n, r, l, {b.value})
  BY <1>1, <1>3, MovesOthers
<1>5. Others(s, r, l, {b.value})
  BY <1>1, <1>4, OthersCompose
<1>6. Core(r, next)
  BY <1>2, Widened
<1> QED BY <1>3, <1>5, <1>6 DEF Turn, r

\* ... shows its value ...
LEMMA TurnUpdates ==
  ASSUME host \in Hosts,
         NEW s, NEW done, Core(s, done), NEW next, done \subseteq next,
         NEW l \in Leaderboards, NEW b \in BoardRecord,
         b.tracker = s.board[l].tracker, b.tracker # 0, OwnFormula(s, l),
         NEW n, Put(s, n, l, b)
  PROVE  /\ Turn(s, UpdateTracker(n, l), l, b, {b.value}, next)
         /\ Shows(UpdateTracker(n, l), l)
         /\ UpdateTracker(n, l).board[l] = b
<1> DEFINE r == UpdateTracker(n, l)
<1>1. /\ Others(s, n, l, {})
      /\ Core(n, done)
      /\ n.board[l] = b
      /\ OwnFormula(n, l)
  BY TurnPuts DEF Turn
<1>2. /\ Core(r, done) /\ Moves(n, r, l) /\ Shows(r, l) /\ r.board = n.board
      /\ \A i \in DOMAIN n.trackers : r.trackers[i].formula = n.trackers[i].formula
  BY <1>1, UpdateMoves
<1> HIDE DEF r
<1>3. OwnFormula(r, l)
  <2>1. b.tracker \in DOMAIN n.trackers
    BY <1>1, Pointing
  <2> QED BY <2>1, <1>1, <1>2 DEF OwnFormula
<1>4. Others(n, r, l, {b.value})
  BY <1>1, <1>2, <1>3, MovesOthers
<1>5. Others(s, r, l, {b.value})
  BY <1>1, <1>4, OthersCompose
<1>6. Core(r, next)
  BY <1>2, Widened
<1>7. SameBoard(b, r.board[l]) /\ r.board[l] = b
  BY <1>1, <1>2 DEF SameBoard
<1> QED BY <1>2, <1>3, <1>5, <1>6, <1>7 DEF Turn, r

\* ... or gives its tracker back, after what has been done already.
LEMMA ThenReleases ==
  ASSUME host \in Hosts, NEW s, NEW u, NEW l \in Leaderboards, NEW b, NEW V, NEW done,
         Turn(s, u, l, b, V, done), NEW next, done \subseteq next, l \in next
  PROVE  /\ Turn(s, ReleaseTracker(u, l), l, b, V, next)
         /\ ReleaseTracker(u, l).board[l].tracker = 0
<1> DEFINE r == ReleaseTracker(u, l)
<1>1. Core(r, next) /\ Moves(u, r, l) /\ r.board[l].tracker = 0
  BY ReleaseMoves DEF Turn
<1> HIDE DEF r
<1>2. OwnFormula(r, l)
  BY <1>1 DEF OwnFormula
<1>3. Others(u, r, l, {})
  BY <1>1, <1>2, MovesOthers DEF Turn
<1>4. Others(s, r, l, V)
  BY <1>3, OthersCompose DEF Turn
<1>5. SameBoard(b, r.board[l])
  BY <1>1 DEF Turn, Moves, SameBoard
<1> QED BY <1>1, <1>2, <1>4, <1>5 DEF Turn, r

\* The fields of a leaderboard change after its turn to another tracker.
LEMMA ThenPuts ==
  ASSUME NEW s, NEW u, NEW l \in Leaderboards, NEW b, NEW V, NEW next,
         Turn(s, u, l, b, V, next), NEW n \in BoardRecord, n.tracker = u.board[l].tracker,
         NEW r, Put(u, r, l, n)
  PROVE  Turn(s, r, l, n, V, next) /\ r.board[l] = n
<1>1. Core(u, next) /\ OwnFormula(u, l) /\ Others(s, u, l, V) /\ next \subseteq next
  BY DEF Turn
<1>2. Turn(u, r, l, n, {}, next) /\ r.board[l] = n
  BY <1>1, TurnPuts
<1>3. Others(s, r, l, V)
  BY <1>1, <1>2, OthersCompose DEF Turn
<1> QED BY <1>2, <1>3 DEF Turn

-----------------------------------------------------------------------------
(* The frame.                                                                *)

\* rc_evaluate_lboard keeps a leaderboard in play, and an attempt begins and ends in
\* the states where it may.
LEMMA Evaluates ==
  ASSUME NEW state \in Live, NEW true, NEW noStart \in BOOLEAN, NEW e, NEW ret,
         e = Evaluated(state, true, noStart), ret = Returned(state, true, noStart)
  PROVE  /\ e \in Live
         /\ ret \in Live \cup {"INACTIVE"}
         /\ ret = e \/ (ret = "INACTIVE" /\ e = state /\ state # "STARTED")
         /\ ret = "STARTED" => state \in {"ACTIVE", "STARTED"}
         /\ ret = "CANCELED" => state = "STARTED"
         /\ ret = "TRIGGERED" => state \in {"ACTIVE", "STARTED"}
         /\ state = "STARTED" => ret \in {"STARTED", "CANCELED", "TRIGGERED"}
<1>1. CASE state \in Resting
  <2>0. state # "STARTED"
    BY <1>1 DEF Resting
  <2>1. CASE "start" \in true
    <3>1. e = state
      BY <1>1, <2>1, <2>0 DEF Evaluated, Starts, Resting
    <3>2. ret = "INACTIVE"
      BY <1>1, <2>1 DEF Returned
    <3> QED BY <2>0, <3>1, <3>2
  <2>2. CASE "start" \notin true
    <3>1. e = "ACTIVE"
      BY <1>1, <2>2, <2>0 DEF Evaluated, Starts, Resting
    <3>2. ret = e
      BY <1>1, <2>2 DEF Returned
    <3> QED BY <2>0, <3>1, <3>2 DEF Live
  <2> QED BY <2>1, <2>2
<1>2. CASE state = "ACTIVE" /\ Starts(state, true)
  <2>1. e = IF "submit" \in true THEN "TRIGGERED"
            ELSE IF noStart THEN "ACTIVE" ELSE "STARTED"
    BY <1>2 DEF Evaluated, Live, Resting
  <2>2. ret = e
    BY <1>2 DEF Returned, Resting
  <2> QED BY <1>2, <2>1, <2>2 DEF Live
<1>3. CASE state = "ACTIVE" /\ ~Starts(state, true)
  <2>1. e = "ACTIVE"
    BY <1>3 DEF Evaluated, Live, Resting
  <2>2. ret = e
    BY <1>3 DEF Returned, Resting
  <2> QED BY <1>3, <2>1, <2>2 DEF Live
<1>4. CASE state = "STARTED"
  <2>1. ~Starts(state, true) /\ state \notin Resting
    BY <1>4 DEF Starts, Resting
  <2>2. ret = e
    BY <2>1 DEF Returned
  <2>3. CASE "cancel" \in true
    <3>1. e = "CANCELED"
      BY <1>4, <2>1, <2>3 DEF Evaluated
    <3> QED BY <1>4, <2>2, <3>1 DEF Live
  <2>4. CASE "cancel" \notin true
    <3>1. e = IF "submit" \in true THEN "TRIGGERED" ELSE "STARTED"
      BY <1>4, <2>1, <2>4 DEF Evaluated
    <3> QED BY <1>4, <2>2, <3>1 DEF Live
  <2> QED BY <2>3, <2>4
<1> QED BY <1>1, <1>2, <1>3, <1>4 DEF Live, Resting

\* An attempt in progress has a tracker, and what is disabled may have kept its own.
Wired(b) ==
  /\ b.public = "TRACKING" => b.tracker # 0
  /\ b.tracker # 0 => b.public \in {"TRACKING", "DISABLED"}

\* What is shown is what is evaluated.
Matched(b) ==
  b.public \in {"ACTIVE", "TRACKING"} =>
    b.state \in Live /\ (b.public = "TRACKING" <=> b.state = "STARTED")

\* No call brings back a leaderboard that was out of play, and only memory that cannot
\* be read disables one.
Follows(old, b) ==
  /\ b.public \in {"ACTIVE", "TRACKING"} => old.public \in {"ACTIVE", "TRACKING"}
  /\ b.public = "INACTIVE" => old.public = "INACTIVE"
  /\ b.public = "DISABLED" => old.public = "DISABLED" \/ host.fails

\* What is pending for b, once it has had its turn, is what there is to say.
Tells(old, b) ==
  /\ b.pending = News(old, b)
  /\ b.pending # {} => old.state = IF old.public = "TRACKING" THEN "STARTED" ELSE "ACTIVE"

\* Its turn has not come.
Untouched(old, b) ==
  /\ b.pending = {}
  /\ b.public \in {"ACTIVE", "TRACKING"} => b.public = old.public /\ b.state = old.state

\* Of what is not touched there is nothing to say.
LEMMA UntouchedTells ==
  ASSUME NEW old, NEW b, Untouched(old, b)
  PROVE  Tells(old, b)
<1>1. b.pending = {}
  BY DEF Untouched
<1>2. News(old, b) = {}
  BY DEF Untouched, News
<1> QED BY <1>1, <1>2 DEF Tells

\* An attempt, and its tracker, have the value v, unless it counts hits.
Current(s, l, v) ==
  s.board[l].public = "TRACKING" /\ host.formula[l] \notin FromHits =>
    s.board[l].value = v /\ s.trackers[s.board[l].tracker].raw = v

\* What holds when the first k leaderboards have had their turn in a frame.
FrameAt(s, k, memory) ==
  /\ Core(s, 1 .. k) /\ Drawable(s)
  /\ \A l \in Leaderboards :
       /\ OwnFormula(s, l) /\ Wired(s.board[l]) /\ Matched(s.board[l])
       /\ Follows(board[l], s.board[l])
       /\ l > k => Untouched(board[l], s.board[l])
       /\ l <= k => Tells(board[l], s.board[l]) /\ Current(s, l, memory[host.formula[l]])

\* A turn that leaves leaderboard l as a frame should.
LEMMA FrameNext ==
  ASSUME NEW l \in Leaderboards, NEW s, NEW memory, FrameAt(s, l - 1, memory), NEW r,
         NEW b, NEW V, Turn(s, r, l, b, V, 1 .. l),
         Wired(r.board[l]), Matched(r.board[l]), Follows(board[l], r.board[l]),
         Tells(board[l], r.board[l]), Current(r, l, memory[host.formula[l]]),
         host.formula[l] \notin FromHits => V \subseteq {memory[host.formula[l]]}
  PROVE  FrameAt(r, l, memory)
<1>1. Core(r, 1 .. l) /\ Others(s, r, l, V) /\ OwnFormula(r, l)
  BY DEF Turn
<1>d. Drawable(r)
  BY <1>1 DEF FrameAt, Others, Keeps
<1>2. ASSUME NEW m \in Leaderboards, m # l
      PROVE  /\ OwnFormula(r, m) /\ Wired(r.board[m]) /\ Matched(r.board[m])
             /\ Follows(board[m], r.board[m])
             /\ m > l => Untouched(board[m], r.board[m])
             /\ m <= l => Tells(board[m], r.board[m])
                          /\ Current(r, m, memory[host.formula[m]])
  <2>1. l \in Int /\ m \in Int
    BY DEF Leaderboards
  <2>2. r.board[m] = s.board[m]
    BY <1>1, <1>2 DEF Others
  <2>3. /\ OwnFormula(s, m) /\ Wired(s.board[m]) /\ Matched(s.board[m])
        /\ Follows(board[m], s.board[m])
        /\ m > l - 1 => Untouched(board[m], s.board[m])
        /\ m <= l - 1 => Tells(board[m], s.board[m])
                         /\ Current(s, m, memory[host.formula[m]])
    BY DEF FrameAt
  <2>4. s.board[m].tracker # 0 =>
          LET i == s.board[m].tracker
          IN /\ r.trackers[i].formula = s.trackers[i].formula
             /\ \/ r.trackers[i].raw = s.trackers[i].raw
                \/ s.trackers[i].formula = host.formula[l] /\ r.trackers[i].raw \in V
    BY <1>1, <1>2 DEF Others
  <2>5. OwnFormula(r, m)
    BY <2>2, <2>3, <2>4 DEF OwnFormula
  <2>6. ASSUME m <= l PROVE Current(r, m, memory[host.formula[m]])
    <3> SUFFICES ASSUME s.board[m].public = "TRACKING", host.formula[m] \notin FromHits
                 PROVE  /\ s.board[m].value = memory[host.formula[m]]
                        /\ r.trackers[s.board[m].tracker].raw = memory[host.formula[m]]
      BY <2>2 DEF Current
    <3>1. /\ s.board[m].value = memory[host.formula[m]]
          /\ s.trackers[s.board[m].tracker].raw = memory[host.formula[m]]
      BY <1>2, <2>1, <2>3, <2>6 DEF Current
    <3>2. s.board[m].tracker # 0
      BY <2>3 DEF Wired
    <3>3. s.trackers[s.board[m].tracker].formula = host.formula[m]
      BY <2>3, <3>2 DEF OwnFormula
    <3> QED BY <2>4, <3>1, <3>2, <3>3
  <2> QED BY <1>2, <2>1, <2>2, <2>3, <2>5, <2>6
<1>3. ASSUME NEW m \in Leaderboards, m = l
      PROVE  /\ OwnFormula(r, m) /\ Wired(r.board[m]) /\ Matched(r.board[m])
             /\ Follows(board[m], r.board[m])
             /\ m > l => Untouched(board[m], r.board[m])
             /\ m <= l => Tells(board[m], r.board[m])
                          /\ Current(r, m, memory[host.formula[m]])
  <2>1. ~(m > l)
    BY <1>3 DEF Leaderboards
  <2> QED BY <1>1, <1>3, <2>1
<1> QED BY <1>1, <1>2, <1>3, <1>d DEF FrameAt

\* The leaderboard l with the new state and value, before the events.
Edited(b, state, value, public, event) ==
  [b EXCEPT !.state = state, !.value = value, !.public = public, !.pending = @ \cup event]

\* The fields after the edit.
LEMMA EditedRecord ==
  ASSUME NEW b \in BoardRecord, NEW state \in LboardStates, NEW value \in 0 .. host.values,
         NEW public \in {"INACTIVE", "ACTIVE", "TRACKING", "DISABLED"},
         NEW event \in SUBSET {"STARTED", "FAILED", "SUBMITTED"},
         NEW n, n = Edited(b, state, value, public, event)
  PROVE  /\ n \in BoardRecord
         /\ n.state = state /\ n.value = value /\ n.public = public
         /\ n.tracker = b.tracker /\ n.pending = b.pending \cup event
<1>1. n = [state |-> state, public |-> public, value |-> value, tracker |-> b.tracker,
           pending |-> b.pending \cup event]
  BY DEF Edited, BoardRecord
<1>2. b.tracker \in 0 .. Count /\ b.pending \cup event \in SUBSET {"STARTED", "FAILED", "SUBMITTED"}
  BY DEF BoardRecord
<1> QED BY <1>1, <1>2 DEF BoardRecord

\* The two steps in which a turn of the frame edits a leaderboard come to one.
LEMMA EditedPut ==
  ASSUME NEW s, Typed(s), NEW l \in Leaderboards, NEW state, NEW value, NEW public, NEW event,
         NEW n, n = [s EXCEPT !.board[l].state = state, !.board[l].value = value],
         NEW r, r = [n EXCEPT !.board[l].public = public, !.board[l].pending = @ \cup event]
  PROVE  Put(s, r, l, Edited(s.board[l], state, value, public, event))
<1>1. s \in [board : [Leaderboards -> BoardRecord], trackers : Seq(Tracker)]
  BY DEF Typed
<1>2. Shaped(r)
  BY <1>1 DEF Shaped
<1>3. r.trackers = s.trackers
  BY <1>1
<1>4. r.board = [s.board EXCEPT ![l] = Edited(s.board[l], state, value, public, event)]
  <2> DEFINE b == s.board[l]
             nb == [b EXCEPT !.state = state, !.value = value]
  <2>1. Shaped(n) /\ n.board = [s.board EXCEPT ![l] = nb]
    BY <1>1 DEF Shaped
  <2>2. n.board[l] = nb
    BY <1>1, <2>1
  <2>3. r.board = [n.board EXCEPT ![l] = [n.board[l] EXCEPT !.public = public,
                                                            !.pending = @ \cup event]]
    BY <2>1 DEF Shaped
  <2>4. [nb EXCEPT !.public = public, !.pending = @ \cup event]
          = Edited(b, state, value, public, event)
    <3>1. b \in BoardRecord
      BY <1>1
    <3> HIDE DEF b
    <3> QED BY <3>1 DEF Edited, BoardRecord
  <2>5. [n.board EXCEPT ![l] = Edited(b, state, value, public, event)]
          = [s.board EXCEPT ![l] = Edited(b, state, value, public, event)]
    BY <1>1, <2>1
  <2> HIDE DEF nb, b
  <2>6. r.board = [n.board EXCEPT ![l] = Edited(b, state, value, public, event)]
    BY <2>2, <2>3, <2>4
  <2> QED BY <2>5, <2>6 DEF b
<1> QED BY <1>2, <1>3, <1>4 DEF Put

\* A turn of the frame that gives no event.
LEMMA EditedAlone ==
  ASSUME NEW s, Typed(s), NEW l \in Leaderboards, NEW state, NEW value,
         NEW n, n = [s EXCEPT !.board[l].state = state, !.board[l].value = value]
  PROVE  Put(s, n, l, Edited(s.board[l], state, value, s.board[l].public, {}))
<1> DEFINE b == s.board[l]
<1>1. s \in [board : [Leaderboards -> BoardRecord], trackers : Seq(Tracker)] /\ b \in BoardRecord
  BY DEF Typed
<1>2. Shaped(n) /\ n.trackers = s.trackers
  BY <1>1 DEF Shaped
<1>3. n.board = [s.board EXCEPT ![l] = [b EXCEPT !.state = state, !.value = value]]
  BY <1>1
<1>4. [b EXCEPT !.state = state, !.value = value] = Edited(b, state, value, b.public, {})
  <2> HIDE DEF b
  <2>1. b.pending \cup {} = b.pending
    OBVIOUS
  <2> QED BY <1>1, <2>1 DEF Edited, BoardRecord
<1> QED BY <1>2, <1>3, <1>4 DEF Put

\* The value of an attempt is read from memory, unless it counts hits.
LEMMA ValueInRange ==
  ASSUME host \in Hosts, NEW memory \in [Range(host.formula) -> 0 .. host.values],
         NEW b \in BoardRecord, NEW f \in Range(host.formula), NEW ret, NEW v,
         v = ValueNow(b, f, ret, memory)
  PROVE  /\ v \in 0 .. host.values
         /\ ret \in {"STARTED", "TRIGGERED"} /\ f \notin FromHits => v = memory[f]
<1>1. host.values \in Nat /\ memory[f] \in 0 .. host.values /\ b.value \in 0 .. host.values
  BY HostTyped DEF BoardRecord
<1>2. CASE ret \notin {"STARTED", "TRIGGERED"}
  <2>1. v = 0
    BY <1>2, Zenon DEF ValueNow
  <2> QED BY <1>1, <1>2, <2>1
<1>3. CASE ret \in {"STARTED", "TRIGGERED"} /\ f \notin FromHits
  <2>1. v = memory[f]
    BY <1>3 DEF ValueNow
  <2> QED BY <1>1, <2>1
<1>4. CASE ret \in {"STARTED", "TRIGGERED"} /\ f \in FromHits
  <2> DEFINE hits == (IF b.state = "ACTIVE" THEN 0 ELSE b.value)
                       + (IF memory[f] > 0 THEN 1 ELSE 0)
  <2>1. v = IF hits > host.values THEN host.values ELSE hits
    BY <1>4 DEF ValueNow
  <2>2. hits \in Nat
    BY <1>1
  <2> HIDE DEF hits
  <2> QED BY <1>1, <1>4, <2>1, <2>2
<1> QED BY <1>2, <1>3, <1>4

\* rc_client_do_frame_process_leaderboards, the turn of l.
LEMMA FrameTurn ==
  ASSUME host \in Hosts, NEW memory \in [Range(host.formula) -> 0 .. host.values],
         NEW l \in Leaderboards, NEW s, FrameAt(s, l - 1, memory), NEW true
  PROVE  FrameAt(Processed(s, l, true, memory), l, memory)
<1> DEFINE b == s.board[l]
           f == host.formula[l]
           state == Evaluated(b.state, true, l \in host.noStart)
           ret == Returned(b.state, true, l \in host.noStart)
           v == ValueNow(b, f, ret, memory)
           n == [s EXCEPT !.board[l].state = state, !.board[l].value = v]
           r == Processed(s, l, true, memory)
           done == 1 .. l - 1
           next == 1 .. l
<1>1. done \subseteq next /\ l \notin done /\ l \in next /\ l > l - 1
  BY DEF Leaderboards
<1>2. /\ Core(s, done) /\ Typed(s) /\ b \in BoardRecord
      /\ OwnFormula(s, l) /\ Wired(b) /\ Matched(b)
      /\ Follows(board[l], b) /\ Untouched(board[l], b)
  <2>1. /\ Core(s, done)
        /\ OwnFormula(s, l) /\ Wired(b) /\ Matched(b)
        /\ Follows(board[l], b) /\ Untouched(board[l], b)
    BY <1>1 DEF FrameAt
  <2>2. Typed(s) /\ b \in BoardRecord
    BY <2>1, Pointing DEF Core
  <2> QED BY <2>1, <2>2
<1>3. f \in Range(host.formula)
  BY HostTyped
<1> HIDE DEF done, next, f
<1>4. CASE b.public \in {"INACTIVE", "DISABLED"}
  <2>1. r = s
    BY <1>4 DEF Processed
  <2>2. Core(s, next)
    BY <1>1, <1>2, Widened
  <2>3. Turn(s, s, l, b, {}, next)
    BY <1>2, <2>2, KeepsTrackers DEF Turn, SameBoard, Others
  <2>4. Tells(board[l], b)
    BY <1>2, UntouchedTells
  <2>5. Current(s, l, memory[host.formula[l]])
    BY <1>4 DEF Current
  <2>6. {} \subseteq {memory[host.formula[l]]}
    OBVIOUS
  <2>7. FrameAt(s, l, memory)
    <3> USE DEF next
    <3> QED BY <1>2, <2>3, <2>4, <2>5, <2>6, FrameNext
  <2> HIDE DEF r
  <2> QED BY <2>1, <2>7 DEF r
<1>5. CASE b.public \notin {"INACTIVE", "DISABLED"}
  <2>1. /\ b.public \in {"ACTIVE", "TRACKING"} /\ b.state \in Live
        /\ b.public = "TRACKING" <=> b.state = "STARTED"
        /\ b.tracker # 0 <=> b.state = "STARTED"
        /\ board[l].public = b.public /\ board[l].state = b.state /\ b.pending = {}
    <3>1. b.public \in {"ACTIVE", "TRACKING"}
      BY <1>2, <1>5 DEF BoardRecord
    <3> QED BY <1>2, <3>1 DEF Matched, Wired, Untouched
  <2>2. /\ state \in Live
        /\ ret \in Live \cup {"INACTIVE"}
        /\ ret = state \/ (ret = "INACTIVE" /\ state = b.state /\ b.state # "STARTED")
        /\ ret = "STARTED" => b.state \in {"ACTIVE", "STARTED"}
        /\ ret = "CANCELED" => b.state = "STARTED"
        /\ ret = "TRIGGERED" => b.state \in {"ACTIVE", "STARTED"}
        /\ b.state = "STARTED" => ret \in {"STARTED", "CANCELED", "TRIGGERED"}
    <3> DEFINE noStart == l \in host.noStart
    <3>1. noStart \in BOOLEAN
      OBVIOUS
    <3>2. state = Evaluated(b.state, true, noStart) /\ ret = Returned(b.state, true, noStart)
      OBVIOUS
    <3> HIDE DEF noStart, state, ret, b
    <3> QED BY <2>1, <3>1, <3>2, Evaluates
  <2>3. /\ v \in 0 .. host.values
        /\ ret \in {"STARTED", "TRIGGERED"} /\ f \notin FromHits => v = memory[f]
    <3>1. v = ValueNow(b, f, ret, memory)
      OBVIOUS
    <3> HIDE DEF v, ret, b
    <3> QED BY <1>2, <1>3, <3>1, ValueInRange
  <2>4. r = Outcome(n, l, b.state, ret)
    BY <1>5, Zenon DEF Processed, f
  <2>5. Live \subseteq LboardStates
    BY DEF Live, LboardStates
  <2>6. /\ Put(s, n, l, Edited(b, state, v, b.public, {}))
        /\ \A public, event : Put(s, [n EXCEPT !.board[l].public = public,
                                               !.board[l].pending = @ \cup event],
                                  l, Edited(b, state, v, public, event))
    <3>1. n = [s EXCEPT !.board[l].state = state, !.board[l].value = v]
      OBVIOUS
    <3> HIDE DEF n, state, v
    <3>2. Put(s, n, l, Edited(b, state, v, b.public, {}))
      BY <1>2, <3>1, EditedAlone
    <3>3. ASSUME NEW public, NEW event
          PROVE  Put(s, [n EXCEPT !.board[l].public = public,
                                  !.board[l].pending = @ \cup event],
                     l, Edited(b, state, v, public, event))
      BY <1>2, <3>1, EditedPut
    <3> QED BY <3>2, <3>3
  <2> HIDE DEF state, ret, v, n, r, b
  <2>7. /\ Core(s, done) /\ done \subseteq next /\ l \notin done /\ l \in next
        /\ next \subseteq next
    BY <1>1, <1>2
  \* The fields of l after a turn that gives it a public state and an event.
  <2>8. ASSUME NEW public \in {"INACTIVE", "ACTIVE", "TRACKING", "DISABLED"},
               NEW event \in SUBSET {"STARTED", "FAILED", "SUBMITTED"}
        PROVE  /\ Edited(b, state, v, public, event) \in BoardRecord
               /\ Edited(b, state, v, public, event).state = state
               /\ Edited(b, state, v, public, event).value = v
               /\ Edited(b, state, v, public, event).public = public
               /\ Edited(b, state, v, public, event).tracker = s.board[l].tracker
               /\ Edited(b, state, v, public, event).pending = event
    <3>1. state \in LboardStates
      BY <2>2, <2>5
    <3> DEFINE e == Edited(b, state, v, public, event)
    <3>2. /\ e \in BoardRecord
          /\ e.state = state /\ e.value = v /\ e.public = public
          /\ e.tracker = b.tracker /\ e.pending = b.pending \cup event
      <4>1. e = Edited(b, state, v, public, event)
        OBVIOUS
      <4> HIDE DEF e
      <4> QED BY <1>2, <2>3, <3>1, <4>1, EditedRecord
    <3>3. b.pending \cup event = event /\ b.tracker = s.board[l].tracker
      BY <2>1 DEF b
    <3> HIDE DEF e
    <3>4. /\ e \in BoardRecord /\ e.state = state /\ e.value = v /\ e.public = public
          /\ e.tracker = s.board[l].tracker /\ e.pending = event
      BY <3>2, <3>3
    <3> QED BY <3>4 DEF e
  <2>9. ASSUME ret = "STARTED", b.state # "STARTED"
        PROVE  FrameAt(r, l, memory)
    <3> DEFINE e == Edited(b, state, v, "TRACKING", {"STARTED"})
               m == [n EXCEPT !.board[l].public = "TRACKING",
                              !.board[l].pending = @ \cup {"STARTED"}]
               a == AllocateTracker(m, l)
    <3>1. r = a
      BY <2>4, <2>9, Zenon DEF Outcome
    <3>2. /\ e \in BoardRecord /\ e.state = "STARTED" /\ e.value = v
          /\ e.public = "TRACKING" /\ e.tracker = s.board[l].tracker /\ e.pending = {"STARTED"}
      BY <2>2, <2>8, <2>9
    <3>3. Put(s, m, l, e)
      BY <2>6
    <3>4. s.board[l].tracker = 0
      BY <2>1, <2>9 DEF b
    <3> HIDE DEF e, m
    <3>5. /\ Turn(s, a, l, e, {e.value}, next)
          /\ Shows(a, l)
          /\ a.board[l].tracker # 0
      BY <2>7, <3>2, <3>3, <3>4, TurnAllocates
    <3> HIDE DEF a
    <3>6. SameBoard(e, a.board[l])
      BY <3>5 DEF Turn
    <3>7. /\ Wired(a.board[l]) /\ Matched(a.board[l]) /\ Follows(board[l], a.board[l])
          /\ Tells(board[l], a.board[l])
      BY <2>1, <2>2, <2>9, <3>2, <3>5, <3>6
         DEF SameBoard, Wired, Matched, Follows, Tells, News, Live
    <3>8. f \notin FromHits => e.value = memory[f]
      BY <2>3, <2>9, <3>2
    <3>9. Current(a, l, memory[f])
      BY <3>2, <3>5, <3>6, <3>8 DEF Current, Shows, SameBoard, f
    <3>10. FrameAt(a, l, memory)
      BY <3>5, <3>7, <3>8, <3>9, FrameNext DEF next, f
    <3> QED BY <3>1, <3>10
  <2>10. ASSUME ret = "STARTED", b.state = "STARTED"
         PROVE  FrameAt(r, l, memory)
    <3> DEFINE e == Edited(b, state, v, b.public, {})
               a == UpdateTracker(n, l)
    <3>1. r = a
      BY <2>4, <2>10, Zenon DEF Outcome
    <3>2. /\ e \in BoardRecord /\ e.state = "STARTED" /\ e.value = v
          /\ e.public = "TRACKING" /\ e.tracker = s.board[l].tracker /\ e.pending = {}
      BY <2>1, <2>2, <2>8, <2>10
    <3>3. Put(s, n, l, e)
      BY <2>6
    <3>4. e.tracker # 0
      BY <2>1, <2>10, <3>2 DEF b
    <3> HIDE DEF e
    <3>5. /\ Turn(s, a, l, e, {e.value}, next)
          /\ Shows(a, l)
          /\ a.board[l] = e
      BY <1>2, <2>7, <3>2, <3>3, <3>4, TurnUpdates
    <3> HIDE DEF a
    <3>7. /\ Wired(a.board[l]) /\ Matched(a.board[l]) /\ Follows(board[l], a.board[l])
          /\ Tells(board[l], a.board[l])
      BY <2>1, <2>2, <2>10, <3>2, <3>4, <3>5 DEF Wired, Matched, Follows, Tells, News, Live
    <3>8. f \notin FromHits => e.value = memory[f]
      BY <2>3, <2>10, <3>2
    <3>9. Current(a, l, memory[f])
      BY <3>2, <3>5, <3>8 DEF Current, Shows, f
    <3>10. FrameAt(a, l, memory)
      BY <3>5, <3>7, <3>8, <3>9, FrameNext DEF next, f
    <3> QED BY <3>1, <3>10
  \* An attempt ends.
  <2>11. ASSUME NEW e, NEW V, NEW u, Turn(s, u, l, e, V, next), r = ReleaseTracker(u, l),
                e.state = state, e.public = "ACTIVE", state # "STARTED",
                Tells(board[l], e), f \notin FromHits => V \subseteq {memory[f]}
         PROVE  FrameAt(r, l, memory)
    <3>1. Turn(s, r, l, e, V, next) /\ r.board[l].tracker = 0
      BY <2>7, <2>11, ThenReleases
    <3>2. SameBoard(e, r.board[l])
      BY <3>1 DEF Turn
    <3>3. /\ Wired(r.board[l]) /\ Matched(r.board[l]) /\ Follows(board[l], r.board[l])
          /\ Tells(board[l], r.board[l])
      BY <2>1, <2>2, <2>11, <3>1, <3>2 DEF SameBoard, Wired, Matched, Follows, Tells, News, Live
    <3>4. Current(r, l, memory[f])
      BY <2>11, <3>2 DEF Current, SameBoard
    <3> QED BY <2>11, <3>1, <3>3, <3>4, FrameNext DEF next, f
  <2>12. ASSUME ret = "CANCELED"
         PROVE  FrameAt(r, l, memory)
    <3> DEFINE e == Edited(b, state, v, "ACTIVE", {"FAILED"})
               m == [n EXCEPT !.board[l].public = "ACTIVE",
                              !.board[l].pending = @ \cup {"FAILED"}]
    <3>1. r = ReleaseTracker(m, l)
      BY <2>4, <2>12, Zenon DEF Outcome
    <3>2. /\ e \in BoardRecord /\ e.state = state /\ e.public = "ACTIVE"
          /\ e.tracker = s.board[l].tracker /\ e.pending = {"FAILED"}
      BY <2>8
    <3>3. Put(s, m, l, e)
      BY <2>6
    <3> HIDE DEF e, m
    <3>4. Turn(s, m, l, e, {}, next)
      BY <1>2, <2>7, <3>2, <3>3, TurnPuts
    <3>5. Tells(board[l], e) /\ state # "STARTED"
      BY <2>1, <2>2, <2>12, <3>2 DEF Tells, News
    <3> QED BY <2>11, <3>1, <3>2, <3>4, <3>5
  <2>13. ASSUME ret = "TRIGGERED"
         PROVE  FrameAt(r, l, memory)
    <3> DEFINE e == Edited(b, state, v, "ACTIVE", {"SUBMITTED"})
               m == [n EXCEPT !.board[l].public = "ACTIVE",
                              !.board[l].pending = @ \cup {"SUBMITTED"}]
    <3>1. r = ReleaseTracker(IF b.state = "STARTED" THEN UpdateTracker(m, l)
                                                    ELSE AllocateTracker(m, l), l)
      BY <2>4, <2>13, Zenon DEF Outcome
    <3>2. /\ e \in BoardRecord /\ e.state = state /\ e.public = "ACTIVE" /\ e.value = v
          /\ e.tracker = s.board[l].tracker /\ e.pending = {"SUBMITTED"}
      BY <2>8
    <3>3. Put(s, m, l, e)
      BY <2>6
    <3> HIDE DEF e, m
    <3>4. Tells(board[l], e) /\ state # "STARTED"
      BY <2>1, <2>2, <2>13, <3>2 DEF Tells, News
    <3>5. f \notin FromHits => {e.value} \subseteq {memory[f]}
      BY <2>3, <2>13, <3>2
    <3>6. CASE b.state = "STARTED"
      <4>1. e.tracker # 0
        BY <2>1, <3>2, <3>6 DEF b
      <4>2. Turn(s, UpdateTracker(m, l), l, e, {e.value}, next)
        BY <1>2, <2>7, <3>2, <3>3, <4>1, TurnUpdates
      <4> QED BY <2>11, <3>1, <3>2, <3>4, <3>5, <3>6, <4>2
    <3>7. CASE b.state # "STARTED"
      <4>1. s.board[l].tracker = 0
        BY <2>1, <3>7 DEF b
      <4>2. Turn(s, AllocateTracker(m, l), l, e, {e.value}, next)
        BY <2>7, <3>2, <3>3, <4>1, TurnAllocates
      <4> QED BY <2>11, <3>1, <3>2, <3>4, <3>5, <3>7, <4>2
    <3> QED BY <3>6, <3>7
  <2>14. ASSUME ret \notin {"STARTED", "CANCELED", "TRIGGERED"}
         PROVE  FrameAt(r, l, memory)
    <3> DEFINE e == Edited(b, state, v, b.public, {})
    <3>1. r = n
      BY <2>4, <2>14 DEF Outcome
    <3>2. /\ b.state # "STARTED" /\ b.public = "ACTIVE" /\ state # "STARTED"
          /\ state = "TRIGGERED" => b.state = "TRIGGERED"
      BY <2>1, <2>2, <2>14
    <3>3. /\ e \in BoardRecord /\ e.state = state /\ e.public = "ACTIVE"
          /\ e.tracker = s.board[l].tracker /\ e.pending = {}
      BY <2>8, <3>2
    <3>4. Put(s, n, l, e)
      BY <2>6
    <3> HIDE DEF e
    <3>5. Turn(s, n, l, e, {}, next) /\ n.board[l] = e
      BY <1>2, <2>7, <3>3, <3>4, TurnPuts
    <3>6. /\ Wired(e) /\ Matched(e) /\ Follows(board[l], e) /\ Tells(board[l], e)
      BY <2>1, <2>2, <3>2, <3>3 DEF Wired, Matched, Follows, Tells, News, Live, b
    <3>7. Current(n, l, memory[f])
      BY <3>3, <3>5 DEF Current
    <3>8. {} \subseteq {memory[f]}
      OBVIOUS
    <3>9. FrameAt(n, l, memory)
      BY <3>5, <3>6, <3>7, <3>8, FrameNext DEF next, f
    <3> QED BY <3>1, <3>9
  <2>15. FrameAt(r, l, memory)
    BY <2>9, <2>10, <2>12, <2>13, <2>14
  <2> QED BY <2>15 DEF r
<1> QED BY <1>4, <1>5

States == [board : [Leaderboards -> BoardRecord], trackers : Seq(Tracker)]

Played(c, true, memory) == ForEach(LAMBDA s, l : Processed(s, l, true[l], memory), c)

\* rc_client_do_frame_process_leaderboards, all turns.
LEMMA FrameTurns ==
  ASSUME host \in Hosts, NEW memory \in [Range(host.formula) -> 0 .. host.values],
         NEW c, FrameAt(c, 0, memory), NEW true
  PROVE  FrameAt(Played(c, true, memory), Count, memory)
<1> DEFINE Op(s, l) == Processed(s, l, true[l], memory)
           IsFold(g) == g = [l \in 0 .. Count |-> IF l = 0 THEN c ELSE Op(g[l - 1], l)]
           fold == CHOOSE g : IsFold(g)
           J == [k \in 0 .. Count |-> {s \in States : FrameAt(s, k, memory)}]
           F == [l \in Leaderboards |-> [s \in J[l - 1] |-> Op(s, l)]]
<1>1. Played(c, true, memory) = fold[Count]
  BY Zenon DEF ForEach, Played
<1>2. /\ Count \in Nat /\ 0 \in 0 .. Count /\ Count \in 0 .. Count
      /\ \A l \in Leaderboards : l \in 0 .. Count /\ l - 1 \in 0 .. Count /\ l # 0
  BY LeaderboardAssumption DEF Leaderboards
<1>3. \A k \in 0 .. Count : \A s : s \in J[k] <=> FrameAt(s, k, memory)
  BY DEF FrameAt, Core, Typed, States
<1>4. c \in J[0]
  <2> HIDE DEF J
  <2> QED BY <1>2, <1>3
<1>5. \A l \in Leaderboards : \A s \in J[l - 1] : Op(s, l) \in J[l]
  <2> HIDE DEF J
  <2> QED BY <1>2, <1>3, FrameTurn
<1>6. \A l \in Leaderboards : \A s \in J[l - 1] : F[l][s] = Op(s, l)
  <2> HIDE DEF J, Op
  <2> QED OBVIOUS
<1>7. PICK g : /\ g = [l \in 0 .. Count |-> IF l = 0 THEN c ELSE F[l][g[l - 1]]]
               /\ \A l \in 0 .. Count : g[l] \in J[l]
  <2> HIDE DEF J, F, Op
  <2> QED BY <1>4, <1>5, <1>6, FoldExists
<1>8. IsFold(g)
  <2>1. \A l \in 0 .. Count : l # 0 => l \in Leaderboards /\ l - 1 \in 0 .. Count
    BY <1>2 DEF Leaderboards
  <2>2. \A l \in 0 .. Count : l # 0 => F[l][g[l - 1]] = Op(g[l - 1], l)
    <3> HIDE DEF J, F, Op
    <3> QED BY <2>1, <1>6, <1>7
  <2> HIDE DEF J, F, Op
  <2> QED BY <2>2, <1>7
<1>9. IsFold(fold)
  <2> HIDE DEF IsFold
  <2> QED BY <1>8, Zenon
<1>10. fold[0] \in J[0] /\ \A l \in Leaderboards : fold[l - 1] \in J[l - 1] => fold[l] \in J[l]
  <2> HIDE DEF fold, J, Op
  <2>1. fold[0] = c /\ \A l \in Leaderboards : fold[l] = Op(fold[l - 1], l)
    BY <1>2, <1>9
  <2> QED BY <2>1, <1>4, <1>5
<1>11. fold[Count] \in J[Count]
  <2> HIDE DEF fold, J
  <2> QED BY <1>2, <1>10, Steps
<1> HIDE DEF fold, J
<1> QED BY <1>1, <1>2, <1>3, <1>11

\* A turn in which nothing happens.
LEMMA TurnNone ==
  ASSUME NEW s, NEW done, Core(s, done), NEW next, done \subseteq next,
         NEW l \in Leaderboards, OwnFormula(s, l)
  PROVE  Turn(s, s, l, s.board[l], {}, next)
<1>1. Core(s, next)
  BY Widened
<1> QED BY <1>1, KeepsTrackers DEF Turn, SameBoard, Others

-----------------------------------------------------------------------------
(* Resetting and deactivating all leaderboards.                              *)

\* What holds when the first k leaderboards of c have been reset.
ResetAt(s, k, c) ==
  /\ Core(s, Leaderboards) /\ Drawable(s)
  /\ \A l \in Leaderboards :
       /\ OwnFormula(s, l) /\ Wired(s.board[l])
       /\ Follows(c.board[l], s.board[l])
       /\ s.board[l].public = "DISABLED" => c.board[l].public = "DISABLED"
       /\ s.board[l].pending = c.board[l].pending
       /\ l <= k => \/ s.board[l].public \in {"INACTIVE", "DISABLED"}
                    \/ s.board[l].public = "ACTIVE" /\ s.board[l].state = "WAITING"

\* What holds when the first k leaderboards of c have been deactivated.
StopAt(s, k, c) ==
  /\ Core(s, Leaderboards) /\ Drawable(s)
  /\ \A l \in Leaderboards :
       /\ OwnFormula(s, l) /\ Wired(s.board[l])
       /\ s.board[l].public = "DISABLED" <=> c.board[l].public = "DISABLED"
       /\ s.board[l].pending = c.board[l].pending
       /\ l <= k => s.board[l].public \in {"INACTIVE", "DISABLED"}

ResetTurnOf(s, l) ==
  CASE s.board[l].public \in {"INACTIVE", "DISABLED"} -> s
    [] s.board[l].public = "TRACKING" ->
         [ReleaseTracker(s, l) EXCEPT !.board[l] = [ResetBoard(@) EXCEPT !.public = "ACTIVE"]]
    [] OTHER -> [s EXCEPT !.board[l] = ResetBoard(@)]

StopTurnOf(s, l) ==
  CASE s.board[l].public \in {"INACTIVE", "DISABLED"} -> s
    [] s.board[l].public = "TRACKING" ->
         [ReleaseTracker(s, l) EXCEPT !.board[l].public = "INACTIVE"]
    [] OTHER -> [s EXCEPT !.board[l].public = "INACTIVE"]

\* A turn that leaves leaderboard l reset.
LEMMA ResetNext ==
  ASSUME NEW c, NEW l \in Leaderboards, NEW s, ResetAt(s, l - 1, c), NEW r, NEW b,
         Turn(s, r, l, b, {}, Leaderboards), Wired(r.board[l]),
         Follows(s.board[l], r.board[l]), r.board[l].pending = s.board[l].pending,
         r.board[l].public = "DISABLED" => s.board[l].public = "DISABLED",
         \/ r.board[l].public \in {"INACTIVE", "DISABLED"}
         \/ r.board[l].public = "ACTIVE" /\ r.board[l].state = "WAITING"
  PROVE  ResetAt(r, l, c)
<1>1. Core(r, Leaderboards) /\ Others(s, r, l, {}) /\ OwnFormula(r, l)
  BY DEF Turn
<1>d. Drawable(r)
  BY <1>1 DEF ResetAt, Others, Keeps
<1>2. ASSUME NEW m \in Leaderboards
      PROVE  /\ OwnFormula(r, m) /\ Wired(r.board[m])
             /\ Follows(c.board[m], r.board[m])
             /\ r.board[m].public = "DISABLED" => c.board[m].public = "DISABLED"
             /\ r.board[m].pending = c.board[m].pending
             /\ m <= l => \/ r.board[m].public \in {"INACTIVE", "DISABLED"}
                          \/ r.board[m].public = "ACTIVE" /\ r.board[m].state = "WAITING"
  <2>1. /\ OwnFormula(s, m) /\ Wired(s.board[m])
        /\ Follows(c.board[m], s.board[m])
        /\ s.board[m].public = "DISABLED" => c.board[m].public = "DISABLED"
        /\ s.board[m].pending = c.board[m].pending
        /\ m <= l - 1 => \/ s.board[m].public \in {"INACTIVE", "DISABLED"}
                         \/ s.board[m].public = "ACTIVE" /\ s.board[m].state = "WAITING"
    BY DEF ResetAt
  <2>2. CASE m = l
    BY <1>1, <2>1, <2>2 DEF Follows
  <2>3. CASE m # l
    <3>1. r.board[m] = s.board[m]
      BY <1>1, <2>3 DEF Others
    <3>2. m <= l => m <= l - 1
      BY <2>3 DEF Leaderboards
    <3>3. OwnFormula(r, m)
      BY <1>1, <2>1, <2>3 DEF Others, OwnFormula
    <3> QED BY <2>1, <3>1, <3>2, <3>3
  <2> QED BY <2>2, <2>3
<1> QED BY <1>1, <1>2, <1>d DEF ResetAt

\* A turn that leaves leaderboard l deactivated.
LEMMA StopNext ==
  ASSUME NEW c, NEW l \in Leaderboards, NEW s, StopAt(s, l - 1, c), NEW r, NEW b,
         Turn(s, r, l, b, {}, Leaderboards), Wired(r.board[l]),
         r.board[l].public = "DISABLED" <=> s.board[l].public = "DISABLED",
         r.board[l].pending = s.board[l].pending,
         r.board[l].public \in {"INACTIVE", "DISABLED"}
  PROVE  StopAt(r, l, c)
<1>1. Core(r, Leaderboards) /\ Others(s, r, l, {}) /\ OwnFormula(r, l)
  BY DEF Turn
<1>d. Drawable(r)
  BY <1>1 DEF StopAt, Others, Keeps
<1>2. ASSUME NEW m \in Leaderboards
      PROVE  /\ OwnFormula(r, m) /\ Wired(r.board[m])
             /\ r.board[m].public = "DISABLED" <=> c.board[m].public = "DISABLED"
             /\ r.board[m].pending = c.board[m].pending
             /\ m <= l => r.board[m].public \in {"INACTIVE", "DISABLED"}
  <2>1. /\ OwnFormula(s, m) /\ Wired(s.board[m])
        /\ s.board[m].public = "DISABLED" <=> c.board[m].public = "DISABLED"
        /\ s.board[m].pending = c.board[m].pending
        /\ m <= l - 1 => s.board[m].public \in {"INACTIVE", "DISABLED"}
    BY DEF StopAt
  <2>2. CASE m = l
    BY <1>1, <2>1, <2>2
  <2>3. CASE m # l
    <3>1. r.board[m] = s.board[m]
      BY <1>1, <2>3 DEF Others
    <3>2. m <= l => m <= l - 1
      BY <2>3 DEF Leaderboards
    <3>3. OwnFormula(r, m)
      BY <1>1, <2>1, <2>3 DEF Others, OwnFormula
    <3> QED BY <2>1, <3>1, <3>2, <3>3
  <2> QED BY <2>2, <2>3
<1> QED BY <1>1, <1>2, <1>d DEF StopAt

\* The fields of a leaderboard that is reset, or deactivated, have their types.
LEMMA ResetRecord ==
  ASSUME host \in Hosts, NEW b \in BoardRecord
  PROVE  /\ ResetBoard(b) \in BoardRecord
         /\ [ResetBoard(b) EXCEPT !.public = "ACTIVE"] \in BoardRecord
         /\ [b EXCEPT !.public = "INACTIVE"] \in BoardRecord
<1>1. 0 \in 0 .. host.values /\ "WAITING" \in LboardStates
  BY HostTyped DEF LboardStates
<1> QED BY <1>1 DEF ResetBoard, BoardRecord

\* The leaderboard has given its tracker back.
LEMMA Returns ==
  ASSUME host \in Hosts, NEW s, Core(s, Leaderboards), NEW l \in Leaderboards,
         OwnFormula(s, l)
  PROVE  /\ Turn(s, ReleaseTracker(s, l), l, s.board[l], {}, Leaderboards)
         /\ ReleaseTracker(s, l).board[l].tracker = 0
         /\ ReleaseTracker(s, l) \in States
         /\ ReleaseTracker(s, l).board[l] \in BoardRecord
<1>1. Leaderboards \subseteq Leaderboards
  OBVIOUS
<1>2. Turn(s, s, l, s.board[l], {}, Leaderboards)
  BY <1>1, TurnNone
<1>3. /\ Turn(s, ReleaseTracker(s, l), l, s.board[l], {}, Leaderboards)
      /\ ReleaseTracker(s, l).board[l].tracker = 0
  BY <1>1, <1>2, ThenReleases
<1>4. Core(ReleaseTracker(s, l), Leaderboards)
  BY <1>3 DEF Turn
<1> QED BY <1>3, <1>4, Pointing DEF States

\* rc_client_subset_reset_leaderboards, the turn of l.
LEMMA ResetTurn ==
  ASSUME host \in Hosts, NEW c, NEW l \in Leaderboards, NEW s, ResetAt(s, l - 1, c)
  PROVE  ResetAt(ResetTurnOf(s, l), l, c)
<1> DEFINE b == s.board[l]
           r == ResetTurnOf(s, l)
<1>1. /\ Core(s, Leaderboards) /\ s \in States /\ b \in BoardRecord
      /\ OwnFormula(s, l) /\ Wired(b) /\ Leaderboards \subseteq Leaderboards
  <2>1. Core(s, Leaderboards) /\ OwnFormula(s, l) /\ Wired(b)
    BY DEF ResetAt
  <2> QED BY <2>1, Pointing DEF States
<1>2. CASE b.public \in {"INACTIVE", "DISABLED"}
  <2>1. r = s
    BY <1>2 DEF ResetTurnOf
  <2>2. Turn(s, s, l, b, {}, Leaderboards) /\ Follows(b, b)
    BY <1>1, TurnNone DEF Follows
  <2>3. ResetAt(s, l, c)
    BY <1>1, <1>2, <2>2, ResetNext
  <2> HIDE DEF r
  <2> QED BY <2>1, <2>3 DEF r
<1>3. CASE b.public = "TRACKING"
  <2> DEFINE u == ReleaseTracker(s, l)
             n == [ResetBoard(u.board[l]) EXCEPT !.public = "ACTIVE"]
  <2>1. r = [u EXCEPT !.board[l] = n]
    BY <1>3 DEF ResetTurnOf
  <2>2. /\ Turn(s, u, l, b, {}, Leaderboards)
        /\ u.board[l].tracker = 0
        /\ u \in States /\ u.board[l] \in BoardRecord
    BY <1>1, Returns
  <2> HIDE DEF u
  <2>3. n \in BoardRecord
    BY <2>2, ResetRecord
  <2>4. /\ n.public = "ACTIVE" /\ n.state = "WAITING" /\ n.tracker = 0
        /\ n.pending = u.board[l].pending
    BY <2>2 DEF ResetBoard, BoardRecord
  <2>5. u.board[l].pending = b.pending
    BY <2>2 DEF Turn, SameBoard
  <2> HIDE DEF n, r
  <2>6. Put(u, r, l, n)
    BY <2>1, <2>2 DEF States, Put, Shaped
  <2>7. Turn(s, r, l, n, {}, Leaderboards) /\ r.board[l] = n
    BY <2>2, <2>3, <2>4, <2>6, ThenPuts
  <2>8. /\ Wired(r.board[l]) /\ Follows(b, r.board[l]) /\ r.board[l].pending = b.pending
        /\ r.board[l].public = "ACTIVE" /\ r.board[l].state = "WAITING"
    BY <1>3, <2>4, <2>5, <2>7 DEF Wired, Follows
  <2>9. ResetAt(r, l, c)
    BY <2>7, <2>8, ResetNext
  <2> QED BY <2>9 DEF r
<1>4. CASE b.public = "ACTIVE"
  <2> DEFINE n == ResetBoard(b)
  <2>1. r = [s EXCEPT !.board[l] = n]
    BY <1>4 DEF ResetTurnOf
  <2>3. n \in BoardRecord
    BY <1>1, ResetRecord
  <2>4. /\ n.public = "ACTIVE" /\ n.state = "WAITING" /\ n.tracker = b.tracker
        /\ n.pending = b.pending
    BY <1>1, <1>4 DEF ResetBoard, BoardRecord
  <2> HIDE DEF n, r
  <2>6. Put(s, r, l, n)
    BY <1>1, <2>1 DEF States, Put, Shaped
  <2>7. Turn(s, r, l, n, {}, Leaderboards) /\ r.board[l] = n
    BY <1>1, <2>3, <2>4, <2>6, TurnPuts
  <2>8. /\ Wired(r.board[l]) /\ Follows(b, r.board[l]) /\ r.board[l].pending = b.pending
        /\ r.board[l].public = "ACTIVE" /\ r.board[l].state = "WAITING"
    BY <1>1, <1>4, <2>4, <2>7 DEF Wired, Follows
  <2>9. ResetAt(r, l, c)
    BY <2>7, <2>8, ResetNext
  <2> QED BY <2>9 DEF r
<1> QED BY <1>1, <1>2, <1>3, <1>4 DEF BoardRecord

\* rc_client_deactivate_leaderboards, the turn of l.
LEMMA StopTurn ==
  ASSUME host \in Hosts, NEW c, NEW l \in Leaderboards, NEW s, StopAt(s, l - 1, c)
  PROVE  StopAt(StopTurnOf(s, l), l, c)
<1> DEFINE b == s.board[l]
           r == StopTurnOf(s, l)
<1>1. /\ Core(s, Leaderboards) /\ s \in States /\ b \in BoardRecord
      /\ OwnFormula(s, l) /\ Wired(b) /\ Leaderboards \subseteq Leaderboards
  <2>1. Core(s, Leaderboards) /\ OwnFormula(s, l) /\ Wired(b)
    BY DEF StopAt
  <2> QED BY <2>1, Pointing DEF States
<1>2. CASE b.public \in {"INACTIVE", "DISABLED"}
  <2>1. r = s
    BY <1>2 DEF StopTurnOf
  <2>2. Turn(s, s, l, b, {}, Leaderboards)
    BY <1>1, TurnNone
  <2>3. StopAt(s, l, c)
    BY <1>1, <1>2, <2>2, StopNext
  <2> HIDE DEF r
  <2> QED BY <2>1, <2>3 DEF r
<1>3. CASE b.public = "TRACKING"
  <2> DEFINE u == ReleaseTracker(s, l)
             n == [u.board[l] EXCEPT !.public = "INACTIVE"]
  <2>1. r = [u EXCEPT !.board[l].public = "INACTIVE"]
    BY <1>3 DEF StopTurnOf
  <2>2. /\ Turn(s, u, l, b, {}, Leaderboards)
        /\ u.board[l].tracker = 0
        /\ u \in States /\ u.board[l] \in BoardRecord
    BY <1>1, Returns
  <2> HIDE DEF u
  <2>3. n \in BoardRecord
    BY <2>2, ResetRecord
  <2>4. n.public = "INACTIVE" /\ n.tracker = 0 /\ n.pending = u.board[l].pending
    BY <2>2 DEF BoardRecord
  <2>5. u.board[l].pending = b.pending
    BY <2>2 DEF Turn, SameBoard
  <2>6. Put(u, r, l, n)
    <3> HIDE DEF r
    <3> QED BY <2>1, <2>2 DEF States, Put, Shaped
  <2> HIDE DEF n, r
  <2>7. Turn(s, r, l, n, {}, Leaderboards) /\ r.board[l] = n
    BY <2>2, <2>3, <2>4, <2>6, ThenPuts
  <2>8. /\ Wired(r.board[l]) /\ r.board[l].pending = b.pending
        /\ r.board[l].public = "INACTIVE" /\ b.public # "DISABLED"
    BY <1>3, <2>4, <2>5, <2>7 DEF Wired
  <2>9. StopAt(r, l, c)
    BY <2>7, <2>8, StopNext
  <2> QED BY <2>9 DEF r
<1>4. CASE b.public = "ACTIVE"
  <2> DEFINE n == [b EXCEPT !.public = "INACTIVE"]
  <2>1. r = [s EXCEPT !.board[l].public = "INACTIVE"]
    BY <1>4 DEF StopTurnOf
  <2>3. n \in BoardRecord
    BY <1>1, ResetRecord
  <2>4. n.public = "INACTIVE" /\ n.tracker = b.tracker /\ n.pending = b.pending
    BY <1>1 DEF BoardRecord
  <2>6. Put(s, r, l, n)
    <3> HIDE DEF r
    <3> QED BY <1>1, <2>1 DEF States, Put, Shaped
  <2> HIDE DEF n, r
  <2>7. Turn(s, r, l, n, {}, Leaderboards) /\ r.board[l] = n
    BY <1>1, <2>3, <2>4, <2>6, TurnPuts
  <2>8. /\ Wired(r.board[l]) /\ r.board[l].pending = b.pending
        /\ r.board[l].public = "INACTIVE" /\ b.public # "DISABLED"
    BY <1>1, <1>4, <2>4, <2>7 DEF Wired
  <2>9. StopAt(r, l, c)
    BY <2>7, <2>8, StopNext
  <2> QED BY <2>9 DEF r
<1> QED BY <1>1, <1>2, <1>3, <1>4 DEF BoardRecord

\* rc_client_subset_reset_leaderboards, all turns.
LEMMA ResetTurns ==
  ASSUME host \in Hosts, NEW c, ResetAt(c, 0, c)
  PROVE  ResetAt(ResetBoards(c), Count, c)
<1> DEFINE Op(s, l) == ResetTurnOf(s, l)
           IsFold(g) == g = [l \in 0 .. Count |-> IF l = 0 THEN c ELSE Op(g[l - 1], l)]
           fold == CHOOSE g : IsFold(g)
           J == [k \in 0 .. Count |-> {s \in States : ResetAt(s, k, c)}]
           F == [l \in Leaderboards |-> [s \in J[l - 1] |-> Op(s, l)]]
<1>1. ResetBoards(c) = fold[Count]
  BY Zenon DEF ForEach, ResetBoards, ResetTurnOf
<1>2. /\ Count \in Nat /\ 0 \in 0 .. Count /\ Count \in 0 .. Count
      /\ \A l \in Leaderboards : l \in 0 .. Count /\ l - 1 \in 0 .. Count /\ l # 0
  BY LeaderboardAssumption DEF Leaderboards
<1>3. \A k \in 0 .. Count : \A s : s \in J[k] <=> ResetAt(s, k, c)
  BY DEF ResetAt, Core, Typed, States
<1>4. c \in J[0]
  <2> HIDE DEF J
  <2> QED BY <1>2, <1>3
<1>5. \A l \in Leaderboards : \A s \in J[l - 1] : Op(s, l) \in J[l]
  <2> HIDE DEF J
  <2> QED BY <1>2, <1>3, ResetTurn
<1>6. \A l \in Leaderboards : \A s \in J[l - 1] : F[l][s] = Op(s, l)
  <2> HIDE DEF J, Op
  <2> QED OBVIOUS
<1>7. PICK g : /\ g = [l \in 0 .. Count |-> IF l = 0 THEN c ELSE F[l][g[l - 1]]]
               /\ \A l \in 0 .. Count : g[l] \in J[l]
  <2> HIDE DEF J, F, Op
  <2> QED BY <1>4, <1>5, <1>6, FoldExists
<1>8. IsFold(g)
  <2>1. \A l \in 0 .. Count : l # 0 => l \in Leaderboards /\ l - 1 \in 0 .. Count
    BY <1>2 DEF Leaderboards
  <2>2. \A l \in 0 .. Count : l # 0 => F[l][g[l - 1]] = Op(g[l - 1], l)
    <3> HIDE DEF J, F, Op
    <3> QED BY <2>1, <1>6, <1>7
  <2> HIDE DEF J, F, Op
  <2> QED BY <2>2, <1>7
<1>9. IsFold(fold)
  <2> HIDE DEF IsFold
  <2> QED BY <1>8, Zenon
<1>10. fold[0] \in J[0] /\ \A l \in Leaderboards : fold[l - 1] \in J[l - 1] => fold[l] \in J[l]
  <2> HIDE DEF fold, J, Op
  <2>1. fold[0] = c /\ \A l \in Leaderboards : fold[l] = Op(fold[l - 1], l)
    BY <1>2, <1>9
  <2> QED BY <2>1, <1>4, <1>5
<1>11. fold[Count] \in J[Count]
  <2> HIDE DEF fold, J
  <2> QED BY <1>2, <1>10, Steps
<1> HIDE DEF fold, J
<1> QED BY <1>1, <1>2, <1>3, <1>11

\* rc_client_deactivate_leaderboards, all turns.
LEMMA StopTurns ==
  ASSUME host \in Hosts, NEW c, StopAt(c, 0, c)
  PROVE  StopAt(Deactivated(c), Count, c)
<1> DEFINE Op(s, l) == StopTurnOf(s, l)
           IsFold(g) == g = [l \in 0 .. Count |-> IF l = 0 THEN c ELSE Op(g[l - 1], l)]
           fold == CHOOSE g : IsFold(g)
           J == [k \in 0 .. Count |-> {s \in States : StopAt(s, k, c)}]
           F == [l \in Leaderboards |-> [s \in J[l - 1] |-> Op(s, l)]]
<1>1. Deactivated(c) = fold[Count]
  BY Zenon DEF ForEach, Deactivated, StopTurnOf
<1>2. /\ Count \in Nat /\ 0 \in 0 .. Count /\ Count \in 0 .. Count
      /\ \A l \in Leaderboards : l \in 0 .. Count /\ l - 1 \in 0 .. Count /\ l # 0
  BY LeaderboardAssumption DEF Leaderboards
<1>3. \A k \in 0 .. Count : \A s : s \in J[k] <=> StopAt(s, k, c)
  BY DEF StopAt, Core, Typed, States
<1>4. c \in J[0]
  <2> HIDE DEF J
  <2> QED BY <1>2, <1>3
<1>5. \A l \in Leaderboards : \A s \in J[l - 1] : Op(s, l) \in J[l]
  <2> HIDE DEF J
  <2> QED BY <1>2, <1>3, StopTurn
<1>6. \A l \in Leaderboards : \A s \in J[l - 1] : F[l][s] = Op(s, l)
  <2> HIDE DEF J, Op
  <2> QED OBVIOUS
<1>7. PICK g : /\ g = [l \in 0 .. Count |-> IF l = 0 THEN c ELSE F[l][g[l - 1]]]
               /\ \A l \in 0 .. Count : g[l] \in J[l]
  <2> HIDE DEF J, F, Op
  <2> QED BY <1>4, <1>5, <1>6, FoldExists
<1>8. IsFold(g)
  <2>1. \A l \in 0 .. Count : l # 0 => l \in Leaderboards /\ l - 1 \in 0 .. Count
    BY <1>2 DEF Leaderboards
  <2>2. \A l \in 0 .. Count : l # 0 => F[l][g[l - 1]] = Op(g[l - 1], l)
    <3> HIDE DEF J, F, Op
    <3> QED BY <2>1, <1>6, <1>7
  <2> HIDE DEF J, F, Op
  <2> QED BY <2>2, <1>7
<1>9. IsFold(fold)
  <2> HIDE DEF IsFold
  <2> QED BY <1>8, Zenon
<1>10. fold[0] \in J[0] /\ \A l \in Leaderboards : fold[l - 1] \in J[l - 1] => fold[l] \in J[l]
  <2> HIDE DEF fold, J, Op
  <2>1. fold[0] = c /\ \A l \in Leaderboards : fold[l] = Op(fold[l - 1], l)
    BY <1>2, <1>9
  <2> QED BY <2>1, <1>4, <1>5
<1>11. fold[Count] \in J[Count]
  <2> HIDE DEF fold, J
  <2> QED BY <1>2, <1>10, Steps
<1> HIDE DEF fold, J
<1> QED BY <1>1, <1>2, <1>3, <1>11

-----------------------------------------------------------------------------
(* Giving back all trackers, when the game is unloaded.                      *)

\* What rc_client_unload_game does to the trackers before it hides them.
Unloaded(c) ==
  ForEach(LAMBDA s, l : IF s.board[l].public = "TRACKING" THEN ReleaseTracker(s, l) ELSE s, c)

UnloadTurnOf(s, l) == IF s.board[l].public = "TRACKING" THEN ReleaseTracker(s, l) ELSE s

\* What holds when the first k leaderboards have given back their trackers, and none
\* has been disabled.
UnloadAt(s, k) ==
  /\ Core(s, Leaderboards) /\ Drawable(s)
  /\ \A l \in Leaderboards :
       /\ OwnFormula(s, l)
       /\ s.board[l].tracker # 0 => s.board[l].public = "TRACKING" /\ l > k

\* rc_client_unload_game, the turn of l.
LEMMA UnloadTurn ==
  ASSUME host \in Hosts, NEW l \in Leaderboards, NEW s, UnloadAt(s, l - 1)
  PROVE  UnloadAt(UnloadTurnOf(s, l), l)
<1>1. /\ Core(s, Leaderboards) /\ Drawable(s)
      /\ \A m \in Leaderboards :
           /\ OwnFormula(s, m)
           /\ s.board[m].tracker # 0 => s.board[m].public = "TRACKING" /\ m > l - 1
  BY DEF UnloadAt
<1>2. \A m \in Leaderboards : m # l /\ m > l - 1 => m > l
  BY DEF Leaderboards
<1>3. CASE s.board[l].public # "TRACKING"
  <2>1. UnloadTurnOf(s, l) = s
    BY <1>3 DEF UnloadTurnOf
  <2>2. UnloadAt(s, l)
    BY <1>1, <1>2, <1>3 DEF UnloadAt
  <2> QED BY <2>1, <2>2
<1>4. CASE s.board[l].public = "TRACKING"
  <2> DEFINE u == ReleaseTracker(s, l)
  <2>1. UnloadTurnOf(s, l) = u
    BY <1>4 DEF UnloadTurnOf
  <2>2. Turn(s, u, l, s.board[l], {}, Leaderboards) /\ u.board[l].tracker = 0
    BY <1>1, Returns
  <2> HIDE DEF u
  <2>3. Core(u, Leaderboards) /\ Others(s, u, l, {}) /\ OwnFormula(u, l)
    BY <2>2 DEF Turn
  <2>4. Drawable(u)
    BY <1>1, <2>3 DEF Others, Keeps
  <2>5. ASSUME NEW m \in Leaderboards
        PROVE  /\ OwnFormula(u, m)
               /\ u.board[m].tracker # 0 => u.board[m].public = "TRACKING" /\ m > l
    <3>1. CASE m = l
      BY <2>2, <2>3, <3>1
    <3>2. CASE m # l
      <4>1. u.board[m] = s.board[m]
        BY <2>3, <3>2 DEF Others
      <4>2. OwnFormula(u, m)
        BY <1>1, <2>3, <3>2 DEF Others, OwnFormula
      <4> QED BY <1>1, <1>2, <3>2, <4>1, <4>2
    <3> QED BY <3>1, <3>2
  <2>6. UnloadAt(u, l)
    BY <2>3, <2>4, <2>5 DEF UnloadAt
  <2> QED BY <2>1, <2>6
<1> QED BY <1>3, <1>4

\* rc_client_unload_game, all turns.
LEMMA UnloadTurns ==
  ASSUME host \in Hosts, NEW c, UnloadAt(c, 0)
  PROVE  UnloadAt(Unloaded(c), Count)
<1> DEFINE Op(s, l) == UnloadTurnOf(s, l)
           IsFold(g) == g = [l \in 0 .. Count |-> IF l = 0 THEN c ELSE Op(g[l - 1], l)]
           fold == CHOOSE g : IsFold(g)
           J == [k \in 0 .. Count |-> {s \in States : UnloadAt(s, k)}]
           F == [l \in Leaderboards |-> [s \in J[l - 1] |-> Op(s, l)]]
<1>1. Unloaded(c) = fold[Count]
  BY Zenon DEF ForEach, Unloaded, UnloadTurnOf
<1>2. /\ Count \in Nat /\ 0 \in 0 .. Count /\ Count \in 0 .. Count
      /\ \A l \in Leaderboards : l \in 0 .. Count /\ l - 1 \in 0 .. Count /\ l # 0
  BY LeaderboardAssumption DEF Leaderboards
<1>3. \A k \in 0 .. Count : \A s : s \in J[k] <=> UnloadAt(s, k)
  BY DEF UnloadAt, Core, Typed, States
<1>4. c \in J[0]
  <2> HIDE DEF J
  <2> QED BY <1>2, <1>3
<1>5. \A l \in Leaderboards : \A s \in J[l - 1] : Op(s, l) \in J[l]
  <2> HIDE DEF J
  <2> QED BY <1>2, <1>3, UnloadTurn
<1>6. \A l \in Leaderboards : \A s \in J[l - 1] : F[l][s] = Op(s, l)
  <2> HIDE DEF J, Op
  <2> QED OBVIOUS
<1>7. PICK g : /\ g = [l \in 0 .. Count |-> IF l = 0 THEN c ELSE F[l][g[l - 1]]]
               /\ \A l \in 0 .. Count : g[l] \in J[l]
  <2> HIDE DEF J, F, Op
  <2> QED BY <1>4, <1>5, <1>6, FoldExists
<1>8. IsFold(g)
  <2>1. \A l \in 0 .. Count : l # 0 => l \in Leaderboards /\ l - 1 \in 0 .. Count
    BY <1>2 DEF Leaderboards
  <2>2. \A l \in 0 .. Count : l # 0 => F[l][g[l - 1]] = Op(g[l - 1], l)
    <3> HIDE DEF J, F, Op
    <3> QED BY <2>1, <1>6, <1>7
  <2> HIDE DEF J, F, Op
  <2> QED BY <2>2, <1>7
<1>9. IsFold(fold)
  <2> HIDE DEF IsFold
  <2> QED BY <1>8, Zenon
<1>10. fold[0] \in J[0] /\ \A l \in Leaderboards : fold[l - 1] \in J[l - 1] => fold[l] \in J[l]
  <2> HIDE DEF fold, J, Op
  <2>1. fold[0] = c /\ \A l \in Leaderboards : fold[l] = Op(fold[l - 1], l)
    BY <1>2, <1>9
  <2> QED BY <2>1, <1>4, <1>5
<1>11. fold[Count] \in J[Count]
  <2> HIDE DEF fold, J
  <2> QED BY <1>2, <1>10, Steps
<1> HIDE DEF fold, J
<1> QED BY <1>1, <1>2, <1>3, <1>11

-----------------------------------------------------------------------------
(* After progress has been restored.                                         *)

\* The leaderboard is in the middle of an attempt.
InAttempt(b) == b.public \in {"ACTIVE", "TRACKING"} /\ b.state = "STARTED"

\* Those that will not be given a tracker any more.
Finished(s, k) == {l \in Leaderboards : l <= k \/ ~InAttempt(s.board[l])}

\* An attempt that goes on was marked, and one that begins was not.
Restorable(b) ==
  /\ b.public \in {"ACTIVE", "TRACKING"} => b.state \in Live
  /\ b.public = "TRACKING" => "FAILED" \in b.pending
  /\ b.public = "ACTIVE" /\ b.state = "STARTED" => "FAILED" \notin b.pending
  /\ b.public \in {"INACTIVE", "DISABLED"} => b.pending = {}

\* Attempts with the same formula have the same value, unless it counts hits.
Agree(s) ==
  \A l \in Leaderboards, m \in Leaderboards :
    /\ InAttempt(s.board[l]) /\ InAttempt(s.board[m])
    /\ host.formula[l] = host.formula[m] /\ host.formula[l] \notin FromHits
    => s.board[l].value = s.board[m].value

Marked(old, b) ==
  /\ b.pending \subseteq {"FAILED"}
  /\ "FAILED" \in b.pending => old.public = "TRACKING"

\* What holds when the first k leaderboards have had their turn.
RestoreAt(s, k) ==
  /\ Core(s, Finished(s, k)) /\ Drawable(s)
  /\ \A l \in Leaderboards :
       /\ OwnFormula(s, l) /\ Wired(s.board[l])
       /\ Follows(board[l], s.board[l]) /\ Marked(board[l], s.board[l])
       /\ l <= k => /\ Matched(s.board[l]) /\ Current(s, l, s.board[l].value)
                   /\ s.board[l].pending = {}
       /\ l > k => Restorable(s.board[l])
  /\ Agree(s)

\* A turn that leaves leaderboard l restored.
LEMMA RestoreNext ==
  ASSUME NEW l \in Leaderboards, NEW s, RestoreAt(s, l - 1), NEW r, NEW b, NEW V,
         Turn(s, r, l, b, V, Finished(r, l)),
         V \subseteq {s.board[l].value}, V # {} => InAttempt(s.board[l]),
         Wired(r.board[l]), Matched(r.board[l]), Follows(s.board[l], r.board[l]),
         Marked(board[l], r.board[l]), Current(r, l, r.board[l].value),
         r.board[l].pending = {},
         InAttempt(r.board[l]) => InAttempt(s.board[l]),
         r.board[l].value = s.board[l].value
  PROVE  RestoreAt(r, l)
<1>1. Core(r, Finished(r, l)) /\ Others(s, r, l, V) /\ OwnFormula(r, l)
  BY DEF Turn
<1>d. Drawable(r)
  BY <1>1 DEF RestoreAt, Others, Keeps
<1>2. Agree(s)
  BY DEF RestoreAt
<1>3. ASSUME NEW m \in Leaderboards
      PROVE  /\ r.board[m].value = s.board[m].value
             /\ InAttempt(r.board[m]) => InAttempt(s.board[m])
             /\ m # l => r.board[m] = s.board[m]
  BY <1>1 DEF Others
<1>4. Agree(r)
  BY <1>2, <1>3 DEF Agree
<1>5. ASSUME NEW m \in Leaderboards
      PROVE  /\ OwnFormula(r, m) /\ Wired(r.board[m])
             /\ Follows(board[m], r.board[m]) /\ Marked(board[m], r.board[m])
             /\ m <= l => /\ Matched(r.board[m]) /\ Current(r, m, r.board[m].value)
                         /\ r.board[m].pending = {}
             /\ m > l => Restorable(r.board[m])
  <2>1. /\ OwnFormula(s, m) /\ Wired(s.board[m])
        /\ Follows(board[m], s.board[m]) /\ Marked(board[m], s.board[m])
        /\ m <= l - 1 => /\ Matched(s.board[m]) /\ Current(s, m, s.board[m].value)
                        /\ s.board[m].pending = {}
        /\ m > l - 1 => Restorable(s.board[m])
    BY DEF RestoreAt
  <2>2. CASE m = l
    <3>1. ~(m > l)
      BY <2>2 DEF Leaderboards
    <3> QED BY <1>1, <2>1, <2>2, <3>1 DEF Follows
  <2>3. CASE m # l
    <3>1. r.board[m] = s.board[m]
      BY <1>3, <2>3
    <3>2. (m <= l => m <= l - 1) /\ (m > l => m > l - 1)
      BY <2>3 DEF Leaderboards
    <3>3. OwnFormula(r, m)
      BY <1>1, <2>1, <2>3 DEF Others, OwnFormula
    <3>4. ASSUME m <= l PROVE Current(r, m, r.board[m].value)
      <4> SUFFICES ASSUME s.board[m].public = "TRACKING", host.formula[m] \notin FromHits
                   PROVE  r.trackers[s.board[m].tracker].raw = s.board[m].value
        BY <3>1 DEF Current
      <4>1. /\ s.trackers[s.board[m].tracker].raw = s.board[m].value
            /\ InAttempt(s.board[m]) /\ s.board[m].tracker # 0
        BY <2>1, <3>2, <3>4 DEF Current, Matched, InAttempt, Wired
      <4>2. s.trackers[s.board[m].tracker].formula = host.formula[m]
        BY <2>1, <4>1 DEF OwnFormula
      <4>3. \/ r.trackers[s.board[m].tracker].raw = s.trackers[s.board[m].tracker].raw
            \/ /\ s.trackers[s.board[m].tracker].formula = host.formula[l]
               /\ r.trackers[s.board[m].tracker].raw \in V
        BY <1>1, <2>3, <4>1 DEF Others
      <4>4. CASE r.trackers[s.board[m].tracker].raw = s.trackers[s.board[m].tracker].raw
        BY <4>1, <4>4
      <4>5. CASE /\ s.trackers[s.board[m].tracker].formula = host.formula[l]
                 /\ r.trackers[s.board[m].tracker].raw \in V
        <5>1. r.trackers[s.board[m].tracker].raw = s.board[l].value /\ InAttempt(s.board[l])
          BY <4>5
        <5>2. s.board[l].value = s.board[m].value
          BY <1>2, <4>1, <4>2, <4>5, <5>1 DEF Agree
        <5> QED BY <5>1, <5>2
      <4> QED BY <4>3, <4>4, <4>5
    <3> QED BY <2>1, <3>1, <3>2, <3>3, <3>4
  <2> QED BY <2>2, <2>3
<1> QED BY <1>1, <1>4, <1>5, <1>d DEF RestoreAt

RestoreTurnOf(s, l) ==
  LET b == s.board[l]
      n == [s EXCEPT !.board[l].pending = @ \ {"FAILED"}]
  IN CASE b.public \in {"INACTIVE", "DISABLED"} -> s
       [] b.public \in {"ACTIVE", "TRACKING"} /\ b.state = "STARTED" ->
            LET t == [n EXCEPT !.board[l].public = "TRACKING"]
            IN IF "FAILED" \in b.pending THEN UpdateTracker(t, l) ELSE AllocateTracker(t, l)
       [] b.public \in {"ACTIVE", "TRACKING"} /\ b.state # "STARTED"
            /\ "FAILED" \in b.pending ->
            ReleaseTracker([n EXCEPT !.board[l].public = "ACTIVE"], l)
       [] OTHER -> s

\* The leaderboard without its mark, in another public state.
Unmarked(b, public) == [b EXCEPT !.public = public, !.pending = @ \ {"FAILED"}]

\* The fields of a leaderboard without its mark.
LEMMA UnmarkedRecord ==
  ASSUME NEW b \in BoardRecord, NEW public \in {"INACTIVE", "ACTIVE", "TRACKING", "DISABLED"},
         NEW n, n = Unmarked(b, public)
  PROVE  /\ n \in BoardRecord
         /\ n.state = b.state /\ n.value = b.value /\ n.public = public
         /\ n.tracker = b.tracker /\ n.pending = b.pending \ {"FAILED"}
<1>1. n = [state |-> b.state, public |-> public, value |-> b.value, tracker |-> b.tracker,
           pending |-> b.pending \ {"FAILED"}]
  BY DEF Unmarked, BoardRecord
<1>2. /\ b.tracker \in 0 .. Count /\ b.state \in LboardStates /\ b.value \in 0 .. host.values
      /\ b.pending \ {"FAILED"} \in SUBSET {"STARTED", "FAILED", "SUBMITTED"}
  BY DEF BoardRecord
<1> QED BY <1>1, <1>2 DEF BoardRecord

\* The two steps in which a turn edits a leaderboard come to one.
LEMMA UnmarkedPut ==
  ASSUME NEW s, Typed(s), NEW l \in Leaderboards, NEW public, NEW n, NEW r,
         n = [s EXCEPT !.board[l].pending = @ \ {"FAILED"}],
         r = [n EXCEPT !.board[l].public = public]
  PROVE  Put(s, r, l, Unmarked(s.board[l], public))
<1> DEFINE b == s.board[l]
           nb == [b EXCEPT !.pending = @ \ {"FAILED"}]
<1>1. s \in [board : [Leaderboards -> BoardRecord], trackers : Seq(Tracker)] /\ b \in BoardRecord
  BY DEF Typed
<1>2. Shaped(r)
  BY <1>1 DEF Shaped
<1>3. r.trackers = s.trackers
  BY <1>1
<1>4. Shaped(n) /\ n.board = [s.board EXCEPT ![l] = nb]
  BY <1>1 DEF Shaped
<1>5. n.board[l] = nb
  BY <1>1, <1>4
<1>6. r.board = [n.board EXCEPT ![l] = [n.board[l] EXCEPT !.public = public]]
  BY <1>4 DEF Shaped
<1>7. [nb EXCEPT !.public = public] = Unmarked(b, public)
  <2> HIDE DEF b
  <2> QED BY <1>1 DEF Unmarked, BoardRecord
<1>8. [n.board EXCEPT ![l] = Unmarked(b, public)] = [s.board EXCEPT ![l] = Unmarked(b, public)]
  BY <1>1, <1>4
<1>9. r.board = [n.board EXCEPT ![l] = Unmarked(b, public)]
  <2> HIDE DEF nb, b
  <2> QED BY <1>5, <1>6, <1>7
<1> QED BY <1>2, <1>3, <1>8, <1>9 DEF Put

\* rc_client_subset_after_deserialize_progress, the turn of l.
LEMMA RestoreTurn ==
  ASSUME host \in Hosts, NEW l \in Leaderboards, NEW s, RestoreAt(s, l - 1)
  PROVE  RestoreAt(RestoreTurnOf(s, l), l)
<1> DEFINE b == s.board[l]
           r == RestoreTurnOf(s, l)
           n == [s EXCEPT !.board[l].pending = @ \ {"FAILED"}]
           done == Finished(s, l - 1)
<1>1. /\ Core(s, done) /\ Typed(s) /\ s \in States /\ b \in BoardRecord
      /\ OwnFormula(s, l) /\ Wired(b) /\ Restorable(b)
      /\ Follows(board[l], b) /\ Marked(board[l], b)
  <2>1. /\ Core(s, done) /\ OwnFormula(s, l) /\ Wired(b)
        /\ Follows(board[l], b) /\ Marked(board[l], b)
    BY DEF RestoreAt
  <2>2. l > l - 1
    BY DEF Leaderboards
  <2>3. Restorable(b)
    BY <2>2 DEF RestoreAt
  <2> QED BY <2>1, <2>3, Pointing DEF States, Core
<1>2. ASSUME NEW x, \A m \in Leaderboards \ {l} : x.board[m] = s.board[m]
      PROVE  done \subseteq Finished(x, l) /\ l \in Finished(x, l)
  <2>1. ASSUME NEW m \in Leaderboards, m \in done PROVE m \in Finished(x, l)
    <3>1. m <= l - 1 => m <= l
      BY DEF Leaderboards
    <3>2. CASE m = l
      BY <3>2 DEF Finished, Leaderboards
    <3>3. CASE m # l
      BY <1>2, <2>1, <3>1, <3>3 DEF Finished
    <3> QED BY <3>2, <3>3
  <2>2. l \in Finished(x, l)
    BY DEF Finished, Leaderboards
  <2> HIDE DEF done
  <2>3. done \subseteq Leaderboards
    BY DEF done, Finished
  <2> QED BY <2>1, <2>2, <2>3
<1>3. ASSUME NEW public \in {"ACTIVE", "TRACKING"}, NEW t,
             t = [n EXCEPT !.board[l].public = public]
      PROVE  /\ Put(s, t, l, Unmarked(b, public))
             /\ Unmarked(b, public) \in BoardRecord
             /\ Unmarked(b, public).state = b.state
             /\ Unmarked(b, public).value = b.value
             /\ Unmarked(b, public).public = public
             /\ Unmarked(b, public).tracker = b.tracker
             /\ Unmarked(b, public).pending = {}
  <2> DEFINE e == Unmarked(b, public)
  <2>1. e = Unmarked(b, public) /\ n = [s EXCEPT !.board[l].pending = @ \ {"FAILED"}]
    OBVIOUS
  <2>2. Put(s, t, l, e)
    <3> HIDE DEF n
    <3> QED BY <1>1, <1>3, <2>1, UnmarkedPut
  <2>3. b.pending \ {"FAILED"} = {}
    BY <1>1 DEF Marked
  <2> HIDE DEF e, b, n
  <2>4. /\ e \in BoardRecord
        /\ e.state = b.state /\ e.value = b.value /\ e.public = public
        /\ e.tracker = b.tracker /\ e.pending = {}
    BY <1>1, <2>1, <2>3, UnmarkedRecord
  <2> QED BY <2>2, <2>4 DEF e
<1>4. ASSUME NEW x, NEW e, NEW V, NEW next, Turn(s, x, l, e, V, next)
      PROVE  /\ done \subseteq Finished(x, l) /\ l \in Finished(x, l)
             /\ SameBoard(e, x.board[l])
  <2>1. \A m \in Leaderboards \ {l} : x.board[m] = s.board[m]
    BY <1>4 DEF Turn, Others
  <2> HIDE DEF done
  <2>2. done \subseteq Finished(x, l) /\ l \in Finished(x, l)
    BY <1>2, <2>1
  <2> QED BY <1>4, <2>2 DEF Turn
<1> HIDE DEF r
<1>5. ASSUME ~InAttempt(b), b.public # "TRACKING", b.pending = {}, r = s
      PROVE  RestoreAt(r, l)
  <2>1. done \subseteq Finished(s, l) /\ l \in Finished(s, l)
    <3> HIDE DEF done
    <3> QED BY <1>2
  <2>2. Turn(s, s, l, b, {}, Finished(s, l))
    <3> HIDE DEF done
    <3> QED BY <1>1, <2>1, TurnNone
  <2>3. Matched(b) /\ Follows(b, b)
    BY <1>1, <1>5 DEF Matched, Restorable, InAttempt, Follows
  <2>4. Current(s, l, b.value)
    BY <1>5 DEF Current
  <2>5. {} \subseteq {b.value}
    OBVIOUS
  <2>6. RestoreAt(s, l)
    BY <1>1, <1>5, <2>2, <2>3, <2>4, <2>5, RestoreNext
  <2> QED BY <1>5, <2>6

\* An attempt goes on, or ends because of what has been restored.
<1>6. ASSUME b.public \in {"ACTIVE", "TRACKING"}, b.state = "STARTED", "FAILED" \in b.pending
      PROVE  RestoreAt(r, l)
  <2> DEFINE e == Unmarked(b, "TRACKING")
             t == [n EXCEPT !.board[l].public = "TRACKING"]
             a == UpdateTracker(t, l)
  <2>1. r = a
    BY <1>6, Zenon DEF RestoreTurnOf, r
  <2>2. /\ Put(s, t, l, e) /\ e \in BoardRecord /\ e.state = b.state /\ e.value = b.value
        /\ e.public = "TRACKING" /\ e.tracker = b.tracker /\ e.pending = {}
    <3> HIDE DEF n
    <3> QED BY <1>3
  <2>3. b.public = "TRACKING" /\ b.tracker # 0 /\ InAttempt(b)
    BY <1>1, <1>6 DEF Restorable, Wired, InAttempt
  <2> HIDE DEF e, t, n
  <2>4. ASSUME NEW next, done \subseteq next
        PROVE  /\ Turn(s, a, l, e, {e.value}, next)
               /\ Shows(a, l)
               /\ a.board[l] = e
    <3>1. e.tracker = s.board[l].tracker /\ e.tracker # 0
      BY <2>2, <2>3
    <3> HIDE DEF done, a, b
    <3>2. /\ Turn(s, UpdateTracker(t, l), l, e, {e.value}, next)
          /\ Shows(UpdateTracker(t, l), l)
          /\ UpdateTracker(t, l).board[l] = e
      BY <1>1, <2>2, <2>4, <3>1, TurnUpdates DEF b
    <3> QED BY <3>2 DEF a
  <2> HIDE DEF a, done
  <2>5. Turn(s, a, l, e, {e.value}, done)
    BY <2>4
  <2>6. done \subseteq Finished(a, l)
    BY <1>4, <2>5
  <2>7. Turn(s, a, l, e, {e.value}, Finished(a, l)) /\ Shows(a, l) /\ a.board[l] = e
    BY <2>4, <2>6
  <2>8. /\ Wired(e) /\ Matched(e) /\ Follows(b, e) /\ Marked(board[l], e)
        /\ {e.value} \subseteq {b.value}
    BY <1>6, <2>2, <2>3 DEF Wired, Matched, Follows, Marked, Live
  <2>9. Current(a, l, e.value)
    BY <2>2, <2>7 DEF Current, Shows
  <2>10. RestoreAt(a, l)
    BY <1>1, <2>2, <2>3, <2>7, <2>8, <2>9, RestoreNext
  <2> QED BY <2>1, <2>10
<1>7. ASSUME b.public \in {"ACTIVE", "TRACKING"}, b.state = "STARTED", "FAILED" \notin b.pending
      PROVE  RestoreAt(r, l)
  <2> DEFINE e == Unmarked(b, "TRACKING")
             t == [n EXCEPT !.board[l].public = "TRACKING"]
             a == AllocateTracker(t, l)
  <2>1. r = a
    BY <1>7, Zenon DEF RestoreTurnOf, r
  <2>2. /\ Put(s, t, l, e) /\ e \in BoardRecord /\ e.state = b.state /\ e.value = b.value
        /\ e.public = "TRACKING" /\ e.tracker = b.tracker /\ e.pending = {}
    <3> HIDE DEF n
    <3> QED BY <1>3
  <2>3. b.public = "ACTIVE" /\ b.tracker = 0 /\ InAttempt(b) /\ s.board[l].tracker = 0
    BY <1>1, <1>7 DEF Restorable, Wired, InAttempt
  <2>s. l \notin done
    BY <2>3 DEF Finished, Leaderboards
  <2> HIDE DEF e, t, n
  <2>4. ASSUME NEW next, done \subseteq next
        PROVE  /\ Turn(s, a, l, e, {e.value}, next)
               /\ Shows(a, l)
               /\ a.board[l].tracker # 0
    <3>1. e.tracker = s.board[l].tracker
      BY <2>2
    <3> HIDE DEF done, a, b
    <3>2. /\ Turn(s, AllocateTracker(t, l), l, e, {e.value}, next)
          /\ Shows(AllocateTracker(t, l), l)
          /\ AllocateTracker(t, l).board[l].tracker # 0
      BY <1>1, <2>2, <2>3, <2>s, <2>4, <3>1, TurnAllocates
    <3> QED BY <3>2 DEF a
  <2> HIDE DEF a, done
  <2>5. Turn(s, a, l, e, {e.value}, done)
    BY <2>4
  <2>6. done \subseteq Finished(a, l) /\ SameBoard(e, a.board[l])
    BY <1>4, <2>5
  <2>7. Turn(s, a, l, e, {e.value}, Finished(a, l)) /\ Shows(a, l) /\ a.board[l].tracker # 0
    BY <2>4, <2>6
  <2>8. /\ Wired(a.board[l]) /\ Matched(a.board[l]) /\ Follows(b, a.board[l])
        /\ Marked(board[l], a.board[l]) /\ a.board[l].pending = {}
        /\ {e.value} \subseteq {b.value} /\ a.board[l].value = b.value
    BY <1>7, <2>2, <2>3, <2>6, <2>7 DEF SameBoard, Wired, Matched, Follows, Marked, Live
  <2>9. Current(a, l, a.board[l].value)
    BY <2>2, <2>7 DEF Current, Shows
  <2>10. RestoreAt(a, l)
    BY <1>1, <2>2, <2>3, <2>7, <2>8, <2>9, RestoreNext
  <2> QED BY <2>1, <2>10
<1>8. ASSUME b.public \in {"ACTIVE", "TRACKING"}, b.state # "STARTED", "FAILED" \in b.pending
      PROVE  RestoreAt(r, l)
  <2> DEFINE e == Unmarked(b, "ACTIVE")
             t == [n EXCEPT !.board[l].public = "ACTIVE"]
             a == ReleaseTracker(t, l)
  <2>1. r = a
    BY <1>8, Zenon DEF RestoreTurnOf, r
  <2>2. /\ Put(s, t, l, e) /\ e \in BoardRecord /\ e.state = b.state /\ e.value = b.value
        /\ e.public = "ACTIVE" /\ e.tracker = b.tracker /\ e.pending = {}
    <3> HIDE DEF n
    <3> QED BY <1>3
  <2> HIDE DEF e, t, n
  <2>3. Turn(s, t, l, e, {}, done) /\ e.tracker = s.board[l].tracker
    <3>1. e.tracker = s.board[l].tracker /\ done \subseteq done
      BY <2>2
    <3> HIDE DEF done
    <3> QED BY <1>1, <2>2, <3>1, TurnPuts
  <2>4. ASSUME NEW next, done \subseteq next, l \in next
        PROVE  Turn(s, a, l, e, {}, next) /\ a.board[l].tracker = 0
    <3> HIDE DEF done
    <3> QED BY <2>3, <2>4, ThenReleases
  <2> HIDE DEF a
  <2>5. Turn(s, a, l, e, {}, done \cup {l})
    <3> HIDE DEF done
    <3> QED BY <2>4
  <2>6. done \subseteq Finished(a, l) /\ l \in Finished(a, l) /\ SameBoard(e, a.board[l])
    <3> HIDE DEF done
    <3> QED BY <1>4, <2>5
  <2>7. Turn(s, a, l, e, {}, Finished(a, l)) /\ a.board[l].tracker = 0
    <3> HIDE DEF done
    <3> QED BY <2>4, <2>6
  <2>8. /\ Wired(a.board[l]) /\ Matched(a.board[l]) /\ Follows(b, a.board[l])
        /\ Marked(board[l], a.board[l]) /\ ~InAttempt(a.board[l])
        /\ a.board[l].pending = {}
        /\ {} \subseteq {b.value} /\ a.board[l].value = b.value
    BY <1>1, <1>8, <2>2, <2>6, <2>7
       DEF SameBoard, Wired, Matched, Follows, Marked, Restorable, InAttempt
  <2>9. Current(a, l, a.board[l].value)
    BY <2>2, <2>6 DEF Current, SameBoard
  <2>10. RestoreAt(a, l)
    <3> HIDE DEF done
    <3> QED BY <1>1, <2>7, <2>8, <2>9, RestoreNext
  <2> QED BY <2>1, <2>10
<1>9. CASE b.public \in {"INACTIVE", "DISABLED"}
  <2>1. r = s
    BY <1>9, Zenon DEF RestoreTurnOf, r
  <2>2. ~InAttempt(b) /\ b.public # "TRACKING" /\ b.pending = {}
    BY <1>1, <1>9 DEF InAttempt, Restorable
  <2> QED BY <1>5, <2>1, <2>2 DEF r
<1>10. CASE b.public \in {"ACTIVE", "TRACKING"} /\ b.state # "STARTED" /\ "FAILED" \notin b.pending
  <2>1. r = s
    BY <1>10 DEF RestoreTurnOf, r
  <2>2. ~InAttempt(b) /\ b.public # "TRACKING" /\ b.pending = {}
    BY <1>1, <1>10 DEF InAttempt, Restorable, Marked
  <2> QED BY <1>5, <2>1, <2>2 DEF r
<1>11. b.public \in {"INACTIVE", "DISABLED"} \/ b.public \in {"ACTIVE", "TRACKING"}
  BY <1>1 DEF BoardRecord
<1> HIDE DEF b, n, done
<1> QED BY <1>6, <1>7, <1>8, <1>9, <1>10, <1>11 DEF r

\* rc_client_subset_after_deserialize_progress, all turns.
LEMMA RestoreTurns ==
  ASSUME host \in Hosts, NEW c, RestoreAt(c, 0)
  PROVE  RestoreAt(AfterDeserialize(c), Count)
<1> DEFINE Op(s, l) == RestoreTurnOf(s, l)
           IsFold(g) == g = [l \in 0 .. Count |-> IF l = 0 THEN c ELSE Op(g[l - 1], l)]
           fold == CHOOSE g : IsFold(g)
           J == [k \in 0 .. Count |-> {s \in States : RestoreAt(s, k)}]
           F == [l \in Leaderboards |-> [s \in J[l - 1] |-> Op(s, l)]]
<1>1. AfterDeserialize(c) = fold[Count]
  BY Zenon DEF ForEach, AfterDeserialize, RestoreTurnOf
<1>2. /\ Count \in Nat /\ 0 \in 0 .. Count /\ Count \in 0 .. Count
      /\ \A l \in Leaderboards : l \in 0 .. Count /\ l - 1 \in 0 .. Count /\ l # 0
  BY LeaderboardAssumption DEF Leaderboards
<1>3. \A k \in 0 .. Count : \A s : s \in J[k] <=> RestoreAt(s, k)
  BY DEF RestoreAt, Core, Typed, States
<1>4. c \in J[0]
  <2> HIDE DEF J
  <2> QED BY <1>2, <1>3
<1>5. \A l \in Leaderboards : \A s \in J[l - 1] : Op(s, l) \in J[l]
  <2> HIDE DEF J
  <2> QED BY <1>2, <1>3, RestoreTurn
<1>6. \A l \in Leaderboards : \A s \in J[l - 1] : F[l][s] = Op(s, l)
  <2> HIDE DEF J, Op
  <2> QED OBVIOUS
<1>7. PICK g : /\ g = [l \in 0 .. Count |-> IF l = 0 THEN c ELSE F[l][g[l - 1]]]
               /\ \A l \in 0 .. Count : g[l] \in J[l]
  <2> HIDE DEF J, F, Op
  <2> QED BY <1>4, <1>5, <1>6, FoldExists
<1>8. IsFold(g)
  <2>1. \A l \in 0 .. Count : l # 0 => l \in Leaderboards /\ l - 1 \in 0 .. Count
    BY <1>2 DEF Leaderboards
  <2>2. \A l \in 0 .. Count : l # 0 => F[l][g[l - 1]] = Op(g[l - 1], l)
    <3> HIDE DEF J, F, Op
    <3> QED BY <2>1, <1>6, <1>7
  <2> HIDE DEF J, F, Op
  <2> QED BY <2>2, <1>7
<1>9. IsFold(fold)
  <2> HIDE DEF IsFold
  <2> QED BY <1>8, Zenon
<1>10. fold[0] \in J[0] /\ \A l \in Leaderboards : fold[l - 1] \in J[l - 1] => fold[l] \in J[l]
  <2> HIDE DEF fold, J, Op
  <2>1. fold[0] = c /\ \A l \in Leaderboards : fold[l] = Op(fold[l - 1], l)
    BY <1>2, <1>9
  <2> QED BY <2>1, <1>4, <1>5
<1>11. fold[Count] \in J[Count]
  <2> HIDE DEF fold, J
  <2> QED BY <1>2, <1>10, Steps
<1> HIDE DEF fold, J
<1> QED BY <1>1, <1>2, <1>3, <1>11

-----------------------------------------------------------------------------
(* The inductive invariant.                                                  *)

\* Between two calls: nothing is pending.
Rested(s) ==
  /\ Core(s, {})
  /\ \A l \in Leaderboards :
       /\ OwnFormula(s, l) /\ Wired(s.board[l]) /\ Matched(s.board[l])
       /\ Current(s, l, s.board[l].value)
       /\ s.board[l].pending = {}
  /\ \A i \in DOMAIN s.trackers : s.trackers[i].pending = {}
  /\ Agree(s)

\* What can be played is listed, and what is listed has been activated.
ListedPlayed ==
  /\ listed \subseteq Leaderboards
  /\ \A l \in Leaderboards :
       /\ board[l].public \in {"ACTIVE", "TRACKING"} => l \in listed
       /\ l \in listed => board[l].public # "INACTIVE"

\* Saved attempts with the same formula have the same value, unless it counts hits or
\* one of the leaderboards has been disabled.
SavedAgree ==
  \A s \in saved :
    /\ \A l \in DOMAIN s : /\ l \in Leaderboards /\ s[l].state \in Live
                           /\ s[l].value \in 0 .. host.values
    /\ \A l \in DOMAIN s, m \in DOMAIN s :
         /\ s[l].state = "STARTED" /\ s[m].state = "STARTED"
         /\ board[l].public # "DISABLED" /\ board[m].public # "DISABLED"
         /\ host.formula[l] = host.formula[m] /\ host.formula[l] \notin FromHits
         => s[l].value = s[m].value

\* Where memory can always be read no leaderboard is disabled.
Intact == ~host.fails => \A l \in Leaderboards : board[l].public # "DISABLED"

SoftcoreQuiet ==
  ~Allowed(hardcore) =>
    /\ \A l \in Leaderboards : board[l].public \in {"INACTIVE", "DISABLED"}
    /\ \A e \in announced : e.type # "SUBMITTED"

IInv ==
  /\ host \in Hosts /\ hardcore \in BOOLEAN
  /\ Rested(game)
  /\ ListedPlayed /\ SavedAgree /\ SoftcoreQuiet /\ Intact

\* The leaderboards change, and not their trackers.
LEMMA Kept ==
  ASSUME NEW s, NEW done, Core(s, done), NEW r, Shaped(r), r.trackers = s.trackers,
         r.board \in [Leaderboards -> BoardRecord],
         \A l \in Leaderboards : r.board[l].tracker = s.board[l].tracker
  PROVE  /\ Core(r, done) /\ Keeps(s, r)
         /\ \A l \in Leaderboards : OwnFormula(s, l) => OwnFormula(r, l)
<1>1. Typed(s) /\ Typed(r)
  BY DEF Core, Typed, Shaped
<1>2. \A i : Users(r, i) = Users(s, i)
  BY DEF Users
<1>3. Returners(r, done)
  BY DEF Core, Returners
<1>4. Core(r, done)
  BY <1>1, <1>2, <1>3 DEF Core
<1>5. \A l \in Leaderboards : OwnFormula(s, l) => OwnFormula(r, l)
  BY DEF OwnFormula
<1> QED BY <1>4, <1>5, KeepsTrackers

\* What the invariant says of each leaderboard.
LEMMA GameAtRest ==
  ASSUME IInv
  PROVE  /\ host \in Hosts /\ hardcore \in BOOLEAN
         /\ game \in States
         /\ game.board = board /\ game.trackers = trackers
         /\ board \in [Leaderboards -> BoardRecord]
         /\ \A done : Core(game, done)
         /\ Agree(game) /\ Drawable(game)
         /\ \A l \in Leaderboards :
              /\ OwnFormula(game, l) /\ Wired(board[l]) /\ Matched(board[l])
              /\ Current(game, l, board[l].value)
              /\ board[l].pending = {} /\ board[l] \in BoardRecord
<1>1. host \in Hosts /\ hardcore \in BOOLEAN /\ Rested(game)
  BY DEF IInv
<1>2. game.board = board /\ game.trackers = trackers
  BY DEF game
<1>3. Core(game, {}) /\ Agree(game)
      /\ \A l \in Leaderboards :
              /\ OwnFormula(game, l) /\ Wired(board[l]) /\ Matched(board[l])
              /\ Current(game, l, board[l].value)
              /\ board[l].pending = {}
  BY <1>1, <1>2 DEF Rested
<1>4. \A done : Core(game, done)
  BY <1>3, Widened
<1>5. game \in States /\ board \in [Leaderboards -> BoardRecord]
  BY <1>2, <1>3 DEF Core, Typed, States
<1>6. Drawable(game)
  <2>1. \A i \in DOMAIN trackers : trackers[i].pending = {}
    BY <1>1, <1>2 DEF Rested
  <2> QED BY <1>2, <2>1 DEF Drawable, Fits, Shown
<1> QED BY <1>1, <1>2, <1>3, <1>4, <1>5, <1>6

\* How a leaderboard is left when its memory cannot be read.
Disabled(b) == [b EXCEPT !.public = "DISABLED", !.state = "DISABLED"]

\* rc_client_invalidate_memref_leaderboards: the frame may begin, or has ended.
LEMMA InvalidatedBegins ==
  ASSUME IInv, NEW failing, host.fails \/ failing = {}
  PROVE  LET c == Invalidated(game, failing)
         IN /\ \A memory : FrameAt(c, 0, memory)
            /\ \A l \in Leaderboards : c.board[l].pending = {} /\ Follows(board[l], c.board[l])
            /\ Agree(c) /\ Drawable(c)
            /\ \A l \in Leaderboards : Current(c, l, c.board[l].value)
<1> DEFINE c == Invalidated(game, failing)
<1>1. /\ game \in States /\ game.board = board /\ game.trackers = trackers
      /\ board \in [Leaderboards -> BoardRecord]
      /\ Core(game, 1 .. 0) /\ Agree(game) /\ Drawable(game)
      /\ \A l \in Leaderboards :
              /\ OwnFormula(game, l) /\ Wired(board[l]) /\ Matched(board[l])
              /\ Current(game, l, board[l].value)
              /\ board[l].pending = {} /\ board[l] \in BoardRecord
  BY GameAtRest
<1>2. /\ Shaped(c) /\ c.trackers = trackers
      /\ c.board = [l \in Leaderboards |->
            IF l \in failing /\ board[l].public # "DISABLED" THEN Disabled(board[l]) ELSE board[l]]
  BY <1>1 DEF Invalidated, Disabled, States, Shaped
<1> HIDE DEF c
<1>3. ASSUME NEW b \in BoardRecord
      PROVE  /\ Disabled(b) \in BoardRecord
             /\ Disabled(b).public = "DISABLED" /\ Disabled(b).state = "DISABLED"
             /\ Disabled(b).tracker = b.tracker /\ Disabled(b).pending = b.pending
  BY DEF Disabled, BoardRecord, LboardStates
<1>4. ASSUME NEW l \in Leaderboards
      PROVE  /\ c.board[l] \in BoardRecord
             /\ c.board[l].tracker = board[l].tracker /\ c.board[l].pending = {}
             /\ c.board[l] = board[l] \/ (c.board[l].public = "DISABLED" /\ host.fails)
  BY <1>1, <1>2, <1>3
<1>5. c.board \in [Leaderboards -> BoardRecord]
  BY <1>2, <1>4
<1>6. Core(c, 1 .. 0) /\ Drawable(c) /\ \A l \in Leaderboards : OwnFormula(c, l)
  <2>1. /\ Core(c, 1 .. 0) /\ Keeps(game, c)
        /\ \A l \in Leaderboards : OwnFormula(game, l) => OwnFormula(c, l)
    BY <1>1, <1>2, <1>4, <1>5, Kept
  <2> QED BY <1>1, <2>1 DEF Keeps
<1>7. ASSUME NEW l \in Leaderboards
      PROVE  /\ Wired(c.board[l]) /\ Matched(c.board[l]) /\ Follows(board[l], c.board[l])
             /\ Untouched(board[l], c.board[l]) /\ Current(c, l, c.board[l].value)
  <2>1. Wired(board[l]) /\ Matched(board[l]) /\ Current(game, l, board[l].value)
    BY <1>1
  <2>2. CASE c.board[l] = board[l]
    BY <1>1, <1>2, <1>4, <2>1, <2>2 DEF Follows, Untouched, Current
  <2>3. CASE c.board[l].public = "DISABLED" /\ host.fails
    BY <1>4, <2>1, <2>3 DEF Wired, Matched, Follows, Untouched, Current
  <2> QED BY <1>4, <2>2, <2>3
<1>8. \A memory : FrameAt(c, 0, memory)
  <2>1. \A l \in Leaderboards : l > 0 /\ ~(l <= 0)
    BY DEF Leaderboards
  <2> QED BY <1>6, <1>7, <2>1 DEF FrameAt
<1>9. Agree(c)
  <2>1. \A l \in Leaderboards : InAttempt(c.board[l]) => c.board[l] = game.board[l]
    BY <1>1, <1>4 DEF InAttempt
  <2> QED BY <1>1, <2>1 DEF Agree
<1> QED BY <1>4, <1>6, <1>7, <1>8, <1>9 DEF c

-----------------------------------------------------------------------------
(* How a call ends.                                                          *)

\* The state before the events are raised.
EndsWell(c) ==
  /\ \E done : Core(c, done)
  /\ Drawable(c)
  /\ \A l \in Leaderboards :
       /\ OwnFormula(c, l) /\ Wired(c.board[l]) /\ Matched(c.board[l])
       /\ Current(c, l, c.board[l].value)
  /\ Agree(c)

\* The frame, of a leaderboard that is never attempted in softcore.
LEMMA FrameEnds ==
  ASSUME IInv, NEW failing, host.fails \/ failing = {}, NEW true,
         NEW memory \in [Range(host.formula) -> 0 .. host.values],
         NEW c, c = Invalidated(game, failing),
         NEW r, r = IF Allowed(hardcore)
                    THEN Played(c, true, memory)
                    ELSE c
  PROVE  /\ EndsWell(r)
         /\ \A l \in Leaderboards : Follows(board[l], r.board[l])
         /\ \A l \in Leaderboards : Tells(board[l], r.board[l])
         /\ ~Allowed(hardcore) => \A l \in Leaderboards : r.board[l].pending = {}
<1>1. /\ FrameAt(c, 0, memory)
      /\ \A l \in Leaderboards : c.board[l].pending = {} /\ Follows(board[l], c.board[l])
      /\ Agree(c) /\ Drawable(c)
      /\ \A l \in Leaderboards : Current(c, l, c.board[l].value)
  BY InvalidatedBegins
<1>4. \A l \in Leaderboards : l <= Count
  BY DEF Leaderboards
<1>2. CASE ~Allowed(hardcore)
  <2>1. r = c
    BY <1>2
  <2>2. /\ Core(c, 1 .. 0)
        /\ \A l \in Leaderboards : /\ OwnFormula(c, l) /\ Wired(c.board[l]) /\ Matched(c.board[l])
    BY <1>1 DEF FrameAt
  <2>3. ASSUME NEW l \in Leaderboards PROVE Tells(board[l], c.board[l])
    <3>1. l > 0
      BY DEF Leaderboards
    <3> QED BY <1>1, <3>1, UntouchedTells DEF FrameAt
  <2>4. EndsWell(c)
    BY <1>1, <2>2 DEF EndsWell
  <2> QED BY <1>1, <2>1, <2>3, <2>4
<1>3. CASE Allowed(hardcore)
  <2>1. FrameAt(r, Count, memory)
    <3>1. host \in Hosts
      BY DEF IInv
    <3>2. FrameAt(Played(c, true, memory), Count, memory)
      BY <1>1, <3>1, FrameTurns
    <3> QED BY <1>3, <3>2
  <2>2. ASSUME NEW l \in Leaderboards
        PROVE  /\ OwnFormula(r, l) /\ Wired(r.board[l]) /\ Matched(r.board[l])
               /\ Follows(board[l], r.board[l]) /\ Tells(board[l], r.board[l])
               /\ Current(r, l, memory[host.formula[l]])
    <3>1. l <= Count
      BY <1>4
    <3> QED BY <2>1, <3>1 DEF FrameAt
  <2>3. \A l \in Leaderboards : Current(r, l, r.board[l].value)
    BY <2>2 DEF Current
  <2>4. Agree(r)
    <3> SUFFICES ASSUME NEW l \in Leaderboards, NEW m \in Leaderboards,
                        InAttempt(r.board[l]), InAttempt(r.board[m]),
                        host.formula[l] = host.formula[m], host.formula[l] \notin FromHits
                 PROVE  r.board[l].value = r.board[m].value
      BY DEF Agree
    <3>1. r.board[l].public = "TRACKING" /\ r.board[m].public = "TRACKING"
      BY <2>2 DEF InAttempt, Matched
    <3>2. /\ r.board[l].value = memory[host.formula[l]]
          /\ r.board[m].value = memory[host.formula[m]]
      BY <2>2, <3>1 DEF Current
    <3> QED BY <3>2
  <2>5. Core(r, 1 .. Count) /\ Drawable(r)
    BY <2>1 DEF FrameAt
  <2> QED BY <1>3, <2>2, <2>3, <2>4, <2>5 DEF EndsWell
<1> QED BY <1>2, <1>3

\* Leaderboards that are not attempted end well, whatever they were.
LEMMA IdleEnds ==
  ASSUME NEW c, NEW done, Core(c, done), Drawable(c),
         \A l \in Leaderboards :
           /\ OwnFormula(c, l) /\ Wired(c.board[l]) /\ c.board[l].pending = {}
           /\ \/ c.board[l].public \in {"INACTIVE", "DISABLED"}
              \/ c.board[l].public = "ACTIVE" /\ c.board[l].state = "WAITING"
  PROVE  EndsWell(c)
<1>1. ASSUME NEW l \in Leaderboards
      PROVE  /\ Matched(c.board[l]) /\ Current(c, l, c.board[l].value)
             /\ ~InAttempt(c.board[l])
  BY DEF Matched, Current, InAttempt, Live
<1>2. Agree(c)
  BY <1>1 DEF Agree
<1> QED BY <1>1, <1>2 DEF EndsWell

\* rc_client_reset.
LEMMA ResetEnds ==
  ASSUME IInv
  PROVE  /\ EndsWell(ResetBoards(game))
         /\ \A l \in Leaderboards : /\ Follows(board[l], ResetBoards(game).board[l])
                                    /\ ResetBoards(game).board[l].pending = {}
<1> DEFINE r == ResetBoards(game)
<1>1. /\ host \in Hosts
      /\ game.board = board
      /\ Core(game, Leaderboards) /\ Drawable(game)
      /\ \A l \in Leaderboards :
              /\ OwnFormula(game, l) /\ Wired(board[l])
              /\ board[l].pending = {}
  BY GameAtRest
<1>2. \A l \in Leaderboards : ~(l <= 0) /\ Follows(board[l], board[l])
  BY DEF Leaderboards, Follows
<1>3. ResetAt(game, 0, game)
  BY <1>1, <1>2 DEF ResetAt
<1>4. ResetAt(r, Count, game)
  BY <1>1, <1>3, ResetTurns
<1> HIDE DEF r
<1>5. \A l \in Leaderboards : l <= Count
  BY DEF Leaderboards
<1>6. /\ Core(r, Leaderboards) /\ Drawable(r)
      /\ \A l \in Leaderboards :
           /\ OwnFormula(r, l) /\ Wired(r.board[l]) /\ r.board[l].pending = {}
           /\ Follows(board[l], r.board[l])
           /\ \/ r.board[l].public \in {"INACTIVE", "DISABLED"}
              \/ r.board[l].public = "ACTIVE" /\ r.board[l].state = "WAITING"
  BY <1>1, <1>4, <1>5 DEF ResetAt
<1>7. EndsWell(r)
  BY <1>6, IdleEnds
<1> QED BY <1>6, <1>7 DEF r

\* rc_client_disable_hardcore.
LEMMA StopEnds ==
  ASSUME IInv
  PROVE  /\ EndsWell(Deactivated(game))
         /\ \A l \in Leaderboards :
              /\ Deactivated(game).board[l].public \in {"INACTIVE", "DISABLED"}
              /\ Deactivated(game).board[l].public = "DISABLED" <=> board[l].public = "DISABLED"
              /\ Deactivated(game).board[l].pending = {}
<1> DEFINE r == Deactivated(game)
<1>1. /\ host \in Hosts
      /\ game.board = board
      /\ Core(game, Leaderboards) /\ Drawable(game)
      /\ \A l \in Leaderboards :
              /\ OwnFormula(game, l) /\ Wired(board[l])
              /\ board[l].pending = {}
  BY GameAtRest
<1>2. \A l \in Leaderboards : ~(l <= 0)
  BY DEF Leaderboards
<1>3. StopAt(game, 0, game)
  BY <1>1, <1>2 DEF StopAt
<1>4. StopAt(r, Count, game)
  BY <1>1, <1>3, StopTurns
<1> HIDE DEF r
<1>5. \A l \in Leaderboards : l <= Count
  BY DEF Leaderboards
<1>6. /\ Core(r, Leaderboards) /\ Drawable(r)
      /\ \A l \in Leaderboards :
           /\ OwnFormula(r, l) /\ Wired(r.board[l]) /\ r.board[l].pending = {}
           /\ r.board[l].public = "DISABLED" <=> board[l].public = "DISABLED"
           /\ r.board[l].public \in {"INACTIVE", "DISABLED"}
  BY <1>1, <1>4, <1>5 DEF StopAt
<1>7. EndsWell(r)
  BY <1>6, IdleEnds
<1> QED BY <1>6, <1>7 DEF r

\* In between nothing is done.
LEMMA RestEnds ==
  ASSUME IInv
  PROVE  EndsWell(game)
<1>1. /\ game.board = board
      /\ Core(game, {}) /\ Agree(game) /\ Drawable(game)
      /\ \A l \in Leaderboards :
              /\ OwnFormula(game, l) /\ Wired(board[l]) /\ Matched(board[l])
              /\ Current(game, l, board[l].value)
              /\ board[l].pending = {}
  BY GameAtRest
<1> QED BY <1>1 DEF EndsWell

\* Progress has been restored.
LEMMA RestoreEnds ==
  ASSUME host \in Hosts, NEW c, RestoreAt(c, 0)
  PROVE  /\ EndsWell(AfterDeserialize(c))
         /\ \A l \in Leaderboards : /\ Follows(board[l], AfterDeserialize(c).board[l])
                                    /\ AfterDeserialize(c).board[l].pending = {}
<1> DEFINE r == AfterDeserialize(c)
<1>1. RestoreAt(r, Count)
  BY RestoreTurns
<1> HIDE DEF r
<1>2. \A l \in Leaderboards : l <= Count
  BY DEF Leaderboards
<1>3. /\ Core(r, Finished(r, Count)) /\ Agree(r) /\ Drawable(r)
      /\ \A l \in Leaderboards :
           /\ OwnFormula(r, l) /\ Wired(r.board[l]) /\ Matched(r.board[l])
           /\ Current(r, l, r.board[l].value)
           /\ Follows(board[l], r.board[l]) /\ r.board[l].pending = {}
  BY <1>1, <1>2 DEF RestoreAt
<1>4. EndsWell(r)
  BY <1>3 DEF EndsWell
<1> QED BY <1>3, <1>4 DEF r

Marking(b) == [b EXCEPT !.pending = {"FAILED"} \cup b.pending]

\* rc_client_subset_before_deserialize_progress marks the attempts in progress.
LEMMA Before ==
  ASSUME IInv, NEW c, c = BeforeDeserialize(game)
  PROVE  /\ Shaped(c) /\ c.trackers = trackers
         /\ c.board \in [Leaderboards -> BoardRecord]
         /\ \A l \in Leaderboards :
              /\ c.board[l] \in BoardRecord
              /\ c.board[l].public = board[l].public /\ c.board[l].state = board[l].state
              /\ c.board[l].value = board[l].value /\ c.board[l].tracker = board[l].tracker
              /\ c.board[l].pending =
                   IF board[l].public = "TRACKING" THEN {"FAILED"} ELSE {}
<1>1. /\ game \in States /\ game.board = board /\ game.trackers = trackers
      /\ board \in [Leaderboards -> BoardRecord]
      /\ \A l \in Leaderboards :
              /\ Matched(board[l])
              /\ board[l].pending = {} /\ board[l] \in BoardRecord
  BY GameAtRest
<1>2. ASSUME NEW b \in BoardRecord, b.pending = {}
      PROVE  /\ Marking(b) \in BoardRecord
             /\ Marking(b).public = b.public /\ Marking(b).state = b.state
             /\ Marking(b).value = b.value /\ Marking(b).tracker = b.tracker
             /\ Marking(b).pending = {"FAILED"}
  BY <1>2 DEF Marking, BoardRecord
<1>3. /\ Shaped(c) /\ c.trackers = trackers
      /\ c.board = [l \in Leaderboards |->
            IF board[l].state = "STARTED" /\ board[l].public = "TRACKING"
            THEN Marking(board[l]) ELSE board[l]]
  BY <1>1 DEF BeforeDeserialize, Marking, States, Shaped
<1>4. ASSUME NEW l \in Leaderboards
      PROVE  /\ c.board[l] \in BoardRecord
             /\ c.board[l].public = board[l].public /\ c.board[l].state = board[l].state
             /\ c.board[l].value = board[l].value /\ c.board[l].tracker = board[l].tracker
             /\ c.board[l].pending =
                  IF board[l].public = "TRACKING" THEN {"FAILED"} ELSE {}
  <2>1. board[l].public = "TRACKING" => board[l].state = "STARTED"
    BY <1>1 DEF Matched
  <2>2. board[l].pending = {} /\ board[l] \in BoardRecord
    BY <1>1
  <2>3. CASE board[l].public = "TRACKING"
    <3>1. c.board[l] = Marking(board[l])
      BY <1>3, <2>1, <2>3
    <3> QED BY <1>2, <2>2, <2>3, <3>1
  <2>4. CASE board[l].public # "TRACKING"
    <3>1. c.board[l] = board[l]
      BY <1>3, <2>4
    <3> QED BY <2>2, <2>4, <3>1
  <2> QED BY <2>3, <2>4
<1>5. c.board \in [Leaderboards -> BoardRecord]
  BY <1>3, <1>4
<1> QED BY <1>3, <1>4, <1>5

\* The states and values are replaced, by ones that may go together.
LEMMA RestoreBegins ==
  ASSUME IInv, NEW r, Shaped(r), r.trackers = trackers,
         r.board \in [Leaderboards -> BoardRecord],
         \A l \in Leaderboards :
           /\ r.board[l].public = board[l].public /\ r.board[l].tracker = board[l].tracker
           /\ r.board[l].pending = IF board[l].public = "TRACKING" THEN {"FAILED"} ELSE {}
           /\ r.board[l].public \in {"ACTIVE", "TRACKING"} => r.board[l].state \in Live,
         Agree(r)
  PROVE  RestoreAt(r, 0)
<1>1. /\ game.board = board /\ game.trackers = trackers
      /\ Core(game, Finished(r, 0)) /\ Drawable(game)
      /\ \A l \in Leaderboards :
              /\ OwnFormula(game, l) /\ Wired(board[l])
  BY GameAtRest
<1>2. Core(r, Finished(r, 0)) /\ Drawable(r) /\ \A l \in Leaderboards : OwnFormula(r, l)
  <2>1. /\ Core(r, Finished(r, 0)) /\ Keeps(game, r)
        /\ \A l \in Leaderboards : OwnFormula(game, l) => OwnFormula(r, l)
    BY <1>1, Kept
  <2> QED BY <1>1, <2>1 DEF Keeps
<1>3. ASSUME NEW l \in Leaderboards
      PROVE  /\ Wired(r.board[l]) /\ Follows(board[l], r.board[l])
             /\ Marked(board[l], r.board[l]) /\ Restorable(r.board[l])
  <2>1. Wired(board[l])
    BY <1>1
  <2>2. CASE board[l].public = "TRACKING"
    BY <2>1, <2>2 DEF Wired, Follows, Marked, Restorable
  <2>3. CASE board[l].public # "TRACKING"
    BY <2>1, <2>3 DEF Wired, Follows, Marked, Restorable
  <2> QED BY <2>2, <2>3
<1>4. \A l \in Leaderboards : ~(l <= 0)
  BY DEF Leaderboards
<1> QED BY <1>2, <1>3, <1>4 DEF RestoreAt

\* Without a save state everything is reset first.
LEMMA ResetRestores ==
  ASSUME IInv, NEW c, c = BeforeDeserialize(game)
  PROVE  RestoreAt(ResetBoards(c), 0)
<1> DEFINE r == ResetBoards(c)
<1>1. /\ host \in Hosts
      /\ game.board = board /\ game.trackers = trackers
      /\ Core(game, Leaderboards) /\ Drawable(game)
      /\ \A l \in Leaderboards :
              /\ OwnFormula(game, l) /\ Wired(board[l])
  BY GameAtRest
<1>2. /\ Shaped(c) /\ c.trackers = trackers
      /\ c.board \in [Leaderboards -> BoardRecord]
      /\ \A l \in Leaderboards :
              /\ c.board[l].public = board[l].public /\ c.board[l].tracker = board[l].tracker
              /\ c.board[l].pending =
                   IF board[l].public = "TRACKING" THEN {"FAILED"} ELSE {}
  BY Before
<1>3. Core(c, Leaderboards) /\ Drawable(c) /\ \A l \in Leaderboards : OwnFormula(c, l)
  <2>1. /\ Core(c, Leaderboards) /\ Keeps(game, c)
        /\ \A l \in Leaderboards : OwnFormula(game, l) => OwnFormula(c, l)
    BY <1>1, <1>2, Kept
  <2> QED BY <1>1, <2>1 DEF Keeps
<1>4. \A l \in Leaderboards : ~(l <= 0) /\ l <= Count
  BY DEF Leaderboards
<1>5. \A l \in Leaderboards : Wired(c.board[l]) /\ Follows(c.board[l], c.board[l])
  BY <1>1, <1>2 DEF Wired, Follows
<1>6. ResetAt(c, 0, c)
  BY <1>3, <1>4, <1>5 DEF ResetAt
<1>7. ResetAt(r, Count, c)
  BY <1>1, <1>6, ResetTurns
<1> HIDE DEF r
<1>8. /\ Core(r, Leaderboards) /\ Drawable(r)
      /\ \A l \in Leaderboards :
           /\ OwnFormula(r, l) /\ Wired(r.board[l])
           /\ Follows(c.board[l], r.board[l]) /\ r.board[l].pending = c.board[l].pending
           /\ r.board[l].public = "DISABLED" => c.board[l].public = "DISABLED"
           /\ \/ r.board[l].public \in {"INACTIVE", "DISABLED"}
              \/ r.board[l].public = "ACTIVE" /\ r.board[l].state = "WAITING"
  BY <1>4, <1>7 DEF ResetAt
<1>9. ASSUME NEW l \in Leaderboards
      PROVE  /\ Follows(board[l], r.board[l]) /\ Marked(board[l], r.board[l])
             /\ Restorable(r.board[l]) /\ ~InAttempt(r.board[l])
  <2>1. Follows(board[l], r.board[l])
    BY <1>2, <1>8 DEF Follows
  <2>2. Marked(board[l], r.board[l])
    <3>1. r.board[l].pending = IF board[l].public = "TRACKING" THEN {"FAILED"} ELSE {}
      BY <1>2, <1>8
    <3> QED BY <3>1 DEF Marked
  <2>3. Restorable(r.board[l]) /\ ~InAttempt(r.board[l])
    <3>1. r.board[l].public \in {"INACTIVE", "DISABLED"} => r.board[l].pending = {}
      BY <1>2, <1>8 DEF Follows
    <3> QED BY <1>8, <3>1 DEF Restorable, InAttempt, Live
  <2> QED BY <2>1, <2>2, <2>3
<1>10. Agree(r) /\ Finished(r, 0) = Leaderboards
  BY <1>9 DEF Agree, Finished
<1>11. RestoreAt(r, 0)
  BY <1>4, <1>8, <1>9, <1>10 DEF RestoreAt
<1> QED BY <1>11 DEF r

\* The fields of a leaderboard that is reset.
LEMMA ResetFields ==
  ASSUME host \in Hosts, NEW b \in BoardRecord
  PROVE  /\ ResetBoard(b) \in BoardRecord
         /\ ResetBoard(b).public = b.public /\ ResetBoard(b).tracker = b.tracker
         /\ ResetBoard(b).pending = b.pending /\ ResetBoard(b).state = "WAITING"
<1>1. ResetBoard(b) \in BoardRecord
  BY ResetRecord
<1> QED BY <1>1 DEF ResetBoard, BoardRecord

\* A save state that cannot be read.
LEMMA RuntimeResetRestores ==
  ASSUME IInv, NEW c, c = BeforeDeserialize(game)
  PROVE  RestoreAt(RuntimeReset(c), 0)
<1> DEFINE r == RuntimeReset(c)
<1>1. host \in Hosts /\ ListedPlayed
  BY DEF IInv
<1>2. /\ Shaped(c) /\ c.trackers = trackers
      /\ c.board \in [Leaderboards -> BoardRecord]
      /\ \A l \in Leaderboards :
              /\ c.board[l] \in BoardRecord
              /\ c.board[l].public = board[l].public /\ c.board[l].tracker = board[l].tracker
              /\ c.board[l].pending =
                   IF board[l].public = "TRACKING" THEN {"FAILED"} ELSE {}
  BY Before
<1>3. /\ Shaped(r) /\ r.trackers = trackers
      /\ r.board = [l \in Leaderboards |->
                      IF l \in listed THEN ResetBoard(c.board[l]) ELSE c.board[l]]
  BY <1>2 DEF RuntimeReset, Shaped
<1> HIDE DEF r
<1>4. ASSUME NEW l \in Leaderboards
      PROVE  /\ r.board[l] \in BoardRecord
             /\ r.board[l].public = board[l].public /\ r.board[l].tracker = board[l].tracker
             /\ r.board[l].pending = IF board[l].public = "TRACKING" THEN {"FAILED"} ELSE {}
             /\ r.board[l].public \in {"ACTIVE", "TRACKING"} => r.board[l].state = "WAITING"
  <2>1. CASE l \in listed
    <3>1. r.board[l] = ResetBoard(c.board[l])
      BY <1>3, <2>1
    <3> QED BY <1>1, <1>2, <3>1, ResetFields
  <2>2. CASE l \notin listed
    <3>1. r.board[l] = c.board[l] /\ board[l].public \notin {"ACTIVE", "TRACKING"}
      BY <1>1, <1>3, <2>2 DEF ListedPlayed
    <3> QED BY <1>2, <3>1
  <2> QED BY <2>1, <2>2
<1>5. r.board \in [Leaderboards -> BoardRecord]
  BY <1>3, <1>4
<1>6. Agree(r)
  <2>1. \A l \in Leaderboards : ~InAttempt(r.board[l])
    BY <1>4 DEF InAttempt
  <2> QED BY <2>1 DEF Agree
<1>7. \A l \in Leaderboards :
        r.board[l].public \in {"ACTIVE", "TRACKING"} => r.board[l].state \in Live
  BY <1>4 DEF Live
<1>8. RestoreAt(r, 0)
  BY <1>3, <1>4, <1>5, <1>6, <1>7, RestoreBegins
<1> QED BY <1>8 DEF r

\* What is saved for a leaderboard.
Taken(b, e) == [b EXCEPT !.state = e.state, !.value = e.value]

\* A save state: attempts with the same formula were saved with the same value.
LEMMA SavedRestores ==
  ASSUME IInv, NEW c, c = BeforeDeserialize(game), NEW s \in saved
  PROVE  RestoreAt(Restored(c, s), 0)
<1> DEFINE r == Restored(c, s)
<1>1. host \in Hosts /\ ListedPlayed /\ SavedAgree /\ \A l \in Leaderboards : Matched(board[l])
  BY GameAtRest DEF IInv
<1>2. /\ Shaped(c) /\ c.trackers = trackers
      /\ c.board \in [Leaderboards -> BoardRecord]
      /\ \A l \in Leaderboards :
              /\ c.board[l] \in BoardRecord
              /\ c.board[l].public = board[l].public /\ c.board[l].state = board[l].state
              /\ c.board[l].tracker = board[l].tracker
              /\ c.board[l].pending =
                   IF board[l].public = "TRACKING" THEN {"FAILED"} ELSE {}
  BY Before
<1>3. /\ Shaped(r) /\ r.trackers = trackers
      /\ \A l \in Leaderboards :
           r.board[l] =
             CASE l \in listed /\ LboardActive(c.board[l].state) /\ l \in DOMAIN s ->
                    Taken(c.board[l], s[l])
               [] l \in listed /\ LboardActive(c.board[l].state) /\ l \notin DOMAIN s ->
                    ResetBoard(c.board[l])
               [] OTHER -> c.board[l]
      /\ DOMAIN r.board = Leaderboards /\ r.board = [l \in Leaderboards |-> r.board[l]]
  BY <1>2 DEF Restored, Shaped, Taken
<1> HIDE DEF r
<1>4. ASSUME NEW l \in Leaderboards
      PROVE  /\ r.board[l] \in BoardRecord
             /\ r.board[l].public = board[l].public /\ r.board[l].tracker = board[l].tracker
             /\ r.board[l].pending = IF board[l].public = "TRACKING" THEN {"FAILED"} ELSE {}
             /\ r.board[l].public \in {"ACTIVE", "TRACKING"} =>
                  /\ r.board[l].state \in Live
                  /\ r.board[l].state = "STARTED" =>
                       /\ l \in DOMAIN s /\ s[l].state = "STARTED"
                       /\ r.board[l].value = s[l].value
  <2>0. board[l].public \in {"ACTIVE", "TRACKING"} =>
          l \in listed /\ LboardActive(c.board[l].state)
    BY <1>1, <1>2 DEF ListedPlayed, Matched, LboardActive, Live
  <2>1. CASE l \in listed /\ LboardActive(c.board[l].state) /\ l \in DOMAIN s
    <3>1. r.board[l] = Taken(c.board[l], s[l])
      BY <1>3, <2>1
    <3>2. s[l].state \in Live /\ s[l].value \in 0 .. host.values
      BY <1>1, <2>1 DEF SavedAgree
    <3>3. Live \subseteq LboardStates
      BY DEF Live, LboardStates
    <3>4. ASSUME NEW b \in BoardRecord, NEW e, e.state \in LboardStates,
                 e.value \in 0 .. host.values
          PROVE  /\ Taken(b, e) \in BoardRecord
                 /\ Taken(b, e).public = b.public /\ Taken(b, e).tracker = b.tracker
                 /\ Taken(b, e).pending = b.pending
                 /\ Taken(b, e).state = e.state /\ Taken(b, e).value = e.value
      BY <3>4 DEF Taken, BoardRecord
    <3> QED BY <1>2, <2>1, <3>1, <3>2, <3>3, <3>4
  <2>2. CASE l \in listed /\ LboardActive(c.board[l].state) /\ l \notin DOMAIN s
    <3>1. r.board[l] = ResetBoard(c.board[l])
      BY <1>3, <2>2
    <3>2. /\ r.board[l] \in BoardRecord
          /\ r.board[l].public = c.board[l].public /\ r.board[l].tracker = c.board[l].tracker
          /\ r.board[l].pending = c.board[l].pending /\ r.board[l].state = "WAITING"
      BY <1>1, <1>2, <3>1, ResetFields
    <3> QED BY <1>2, <3>2 DEF Live
  <2>3. CASE ~(l \in listed /\ LboardActive(c.board[l].state))
    <3>1. r.board[l] = c.board[l]
      BY <1>3, <2>3
    <3> QED BY <1>2, <2>0, <2>3, <3>1
  <2> QED BY <2>1, <2>2, <2>3
<1>5. r.board \in [Leaderboards -> BoardRecord]
  BY <1>3, <1>4
<1>6. Agree(r)
  <2> SUFFICES ASSUME NEW l \in Leaderboards, NEW m \in Leaderboards,
                      InAttempt(r.board[l]), InAttempt(r.board[m]),
                      host.formula[l] = host.formula[m], host.formula[l] \notin FromHits
               PROVE  r.board[l].value = r.board[m].value
    BY DEF Agree
  <2>1. /\ l \in DOMAIN s /\ s[l].state = "STARTED" /\ r.board[l].value = s[l].value
        /\ board[l].public # "DISABLED"
    BY <1>4 DEF InAttempt
  <2>2. /\ m \in DOMAIN s /\ s[m].state = "STARTED" /\ r.board[m].value = s[m].value
        /\ board[m].public # "DISABLED"
    BY <1>4 DEF InAttempt
  <2>3. s[l].value = s[m].value
    BY <1>1, <2>1, <2>2 DEF SavedAgree
  <2> QED BY <2>1, <2>2, <2>3
<1>7. RestoreAt(r, 0)
  BY <1>3, <1>4, <1>5, <1>6, RestoreBegins
<1> QED BY <1>7 DEF r

-----------------------------------------------------------------------------
(* Events in order: what a fold over n turns does, and the overlay it draws. *)

\* A set of numbers up to n has a largest one.
LEMMA MaxFacts ==
  ASSUME NEW n \in Nat, NEW s \in SUBSET (1 .. n), s # {}
  PROVE  Max(s) \in s /\ \A y \in s : Max(s) >= y
<1> DEFINE Has(k) == \A t \in SUBSET (1 .. k) :
                       t # {} => \E x \in t : \A y \in t : x >= y
           S == {k \in Nat : Has(k)}
<1>1. 0 \in S
  <2>1. 1 .. 0 = {}
    OBVIOUS
  <2> QED BY <2>1
<1>2. ASSUME NEW k \in Nat, k \in S PROVE k + 1 \in S
  <2> SUFFICES ASSUME NEW t \in SUBSET (1 .. (k + 1)), t # {}
               PROVE  \E x \in t : \A y \in t : x >= y
    OBVIOUS
  <2>1. CASE k + 1 \in t
    BY <2>1
  <2>2. CASE k + 1 \notin t
    <3>1. t \in SUBSET (1 .. k)
      BY <2>2
    <3> QED BY <3>1, <1>2
  <2> QED BY <2>1, <2>2
<1>3. Nat \subseteq S
  <2> HIDE DEF S
  <2> QED BY <1>1, <1>2, Induction
<1> QED BY <1>3 DEF Max

\* The largest number up to k is k, and without it there are those up to k - 1.
LEMMA MaxOfTurns ==
  ASSUME NEW k \in Nat \ {0}
  PROVE  /\ 1 .. k # {}
         /\ Max(1 .. k) = k
         /\ (1 .. k) \ {k} = 1 .. (k - 1)
<1>1. 1 .. k # {} /\ k \in 1 .. k
  OBVIOUS
<1>2. Max(1 .. k) \in 1 .. k /\ Max(1 .. k) >= k
  BY <1>1, MaxFacts
<1> QED BY <1>1, <1>2

\* A solution of the recursion of a fold over n turns, F being what a turn does.
FoldSolution(it, n, Good, base, F) ==
  /\ it \in [SUBSET (1 .. n) -> Good]
  /\ \A s \in SUBSET (1 .. n) :
       it[s] = IF s = {} THEN base ELSE F[<<Max(s), it[s \ {Max(s)}]>>]

\* There is one.
LEMMA FoldSolved ==
  ASSUME NEW n \in Nat, NEW Good, NEW base \in Good,
         NEW F \in [(1 .. n) \X Good -> Good]
  PROVE  \E it : FoldSolution(it, n, Good, base, F)
<1> DEFINE Follow(it, s) == IF s = {} THEN base ELSE F[<<Max(s), it[s \ {Max(s)}]>>]
           Done(k) == \E it \in [SUBSET (1 .. k) -> Good] :
                        \A s \in SUBSET (1 .. k) : it[s] = Follow(it, s)
           S == {k \in Nat : k <= n => Done(k)}
<1>1. 0 \in S
  <2> DEFINE it == [s \in SUBSET (1 .. 0) |-> base]
  <2>1. it \in [SUBSET (1 .. 0) -> Good]
    OBVIOUS
  <2>2. ASSUME NEW s \in SUBSET (1 .. 0) PROVE it[s] = Follow(it, s)
    OBVIOUS
  <2> QED BY <2>1, <2>2
<1>2. ASSUME NEW k \in Nat, k \in S PROVE k + 1 \in S
  <2> SUFFICES ASSUME k + 1 <= n PROVE Done(k + 1)
    <3> HIDE DEF Done
    <3> QED OBVIOUS
  <2> k <= n
    OBVIOUS
  <2>0. Done(k)
    <3> HIDE DEF Done
    <3> QED BY <1>2
  <2>1. PICK it \in [SUBSET (1 .. k) -> Good] :
          \A s \in SUBSET (1 .. k) : it[s] = Follow(it, s)
    BY <2>0
  <2> DEFINE more == [s \in SUBSET (1 .. (k + 1)) |->
                        IF k + 1 \in s THEN F[<<k + 1, it[s \ {k + 1}]>>] ELSE it[s]]
  <2>2. ASSUME NEW s \in SUBSET (1 .. (k + 1))
        PROVE  more[s] \in Good /\ more[s] = Follow(more, s)
    <3>1. CASE k + 1 \in s
      <4>1. Max(s) = k + 1
        <5>1. Max(s) \in s /\ Max(s) >= k + 1
          BY <3>1, MaxFacts, k + 1 \in Nat
        <5>2. Max(s) \in 1 .. (k + 1)
          BY <5>1
        <5> QED BY <5>1, <5>2
      <4>2. s \ {k + 1} \in SUBSET (1 .. k)
        OBVIOUS
      <4>3. more[s \ {k + 1}] = it[s \ {k + 1}] /\ it[s \ {k + 1}] \in Good
        BY <4>2
      <4>4. more[s] = F[<<k + 1, it[s \ {k + 1}]>>]
        BY <3>1
      <4>5. <<k + 1, it[s \ {k + 1}]>> \in (1 .. n) \X Good
        BY <4>3
      <4> HIDE DEF more
      <4> QED BY <3>1, <4>1, <4>3, <4>4, <4>5
    <3>2. CASE k + 1 \notin s
      <4>1. s \in SUBSET (1 .. k)
        BY <3>2
      <4>2. more[s] = it[s] /\ it[s] \in Good /\ it[s] = Follow(it, s)
        BY <3>2, <4>1, <2>1
      <4>3. CASE s = {}
        BY <4>2, <4>3
      <4>4. CASE s # {}
        <5>1. s \ {Max(s)} \in SUBSET (1 .. k) /\ k + 1 \notin s \ {Max(s)}
          BY <4>1, <3>2
        <5>2. more[s \ {Max(s)}] = it[s \ {Max(s)}]
          BY <5>1
        <5> HIDE DEF more
        <5> QED BY <4>2, <4>4, <5>2
      <4> QED BY <4>3, <4>4
    <3> QED BY <3>1, <3>2
  <2>3. more \in [SUBSET (1 .. (k + 1)) -> Good]
    BY <2>2
  <2> HIDE DEF more
  <2> QED BY <2>2, <2>3
<1>3. Nat \subseteq S
  <2> HIDE DEF S
  <2> QED BY <1>1, <1>2, Induction
<1>4. Done(n)
  <2> HIDE DEF Done
  <2> QED BY <1>3
<1> QED BY <1>4 DEF FoldSolution

\* The values h of a fold over n turns, after each of them, the last being r.
FoldRunTo(h, n, Good, base, F, r) ==
  /\ h \in [0 .. n -> Good]
  /\ h[0] = base
  /\ \A k \in 1 .. n : h[k] = F[<<k, h[k - 1]>>]
  /\ h[n] = r

\* What does the turns in order on the sets 1 .. k leaves such values.
LEMMA FoldRuns ==
  ASSUME NEW n \in Nat, NEW Good, NEW base \in Good,
         NEW F \in [(1 .. n) \X Good -> Good], NEW it, it[{}] = base,
         \A k \in 1 .. n : it[1 .. (k - 1)] \in Good
                            => it[1 .. k] = F[<<k, it[1 .. (k - 1)]>>]
  PROVE  \E h : FoldRunTo(h, n, Good, base, F, it[1 .. n])
<1> DEFINE S == {k \in Nat : k <= n => it[1 .. k] \in Good}
           h == [k \in 0 .. n |-> it[1 .. k]]
<1>1. it[1 .. 0] = base
  <2>1. 1 .. 0 = {}
    OBVIOUS
  <2> QED BY <2>1
<1>2. 0 \in S
  BY <1>1
<1>3. ASSUME NEW k \in Nat, k \in S PROVE k + 1 \in S
  <2> SUFFICES ASSUME k + 1 <= n PROVE it[1 .. (k + 1)] \in Good
    OBVIOUS
  <2>1. k + 1 \in 1 .. n /\ (k + 1) - 1 = k
    OBVIOUS
  <2>2. it[1 .. k] \in Good
    BY <1>3
  <2>3. it[1 .. (k + 1)] = F[<<k + 1, it[1 .. k]>>]
    BY <2>1, <2>2
  <2> QED BY <2>1, <2>2, <2>3
<1>4. Nat \subseteq S
  <2> HIDE DEF S
  <2> QED BY <1>2, <1>3, Induction
<1>5. ASSUME NEW k \in 0 .. n PROVE it[1 .. k] \in Good
  <2>1. k \in Nat /\ k <= n
    OBVIOUS
  <2>2. k \in S
    <3> HIDE DEF S
    <3> QED BY <2>1, <1>4
  <2> QED BY <2>1, <2>2
<1>6. h \in [0 .. n -> Good] /\ h[0] = base /\ h[n] = it[1 .. n]
  BY <1>1, <1>5
<1>7. ASSUME NEW k \in 1 .. n PROVE h[k] = F[<<k, h[k - 1]>>]
  <2>1. k \in 0 .. n /\ k - 1 \in 0 .. n
    OBVIOUS
  <2>2. h[k] = it[1 .. k] /\ h[k - 1] = it[1 .. (k - 1)]
    BY <2>1
  <2> HIDE DEF h
  <2> QED BY <2>1, <2>2, <1>5
<1> HIDE DEF h
<1> QED BY <1>6, <1>7 DEF FoldRunTo

\* The events of an overlay, with elements of any set.
EventsOf(Ids) == [type : {"SHOW", "HIDE", "UPDATE"}, id : Ids]

\* What may be drawn.
Pictures(Ids) == SUBSET Ids

\* What one event makes of what is drawn.
Draw(drawn, e) ==
  CASE e.type = "SHOW"   -> drawn \cup {e.id}
    [] e.type = "HIDE"   -> drawn \ {e.id}
    [] e.type = "UPDATE" -> drawn

\* Each of the pictures h follows from the one before by one event.
PlayRun(h, before, events, Ids) ==
  /\ h \in [0 .. Len(events) -> SUBSET Ids]
  /\ h[0] = before
  /\ \A k \in 1 .. Len(events) : h[k] = Draw(h[k - 1], events[k])
  /\ h[Len(events)] = Overlay!Played(before, events)

\* Events are played one by one.
LEMMA PlayedRuns ==
  ASSUME NEW Ids, NEW before \in SUBSET Ids, NEW events \in Seq(EventsOf(Ids))
  PROVE  \E h : PlayRun(h, before, events, Ids)
<1> DEFINE n == Len(events)
           Good == SUBSET Ids
           P(f) == f = [r \in SUBSET (DOMAIN events) |->
                          IF r = {} THEN before
                          ELSE Draw(f[r \ {Max(r)}], events[Max(r)])]
           it == CHOOSE f : P(f)
           played == Overlay!Played(before, events)
<1>1. n \in Nat /\ DOMAIN events = 1 .. n /\ \A k \in 1 .. n : events[k] \in EventsOf(Ids)
  OBVIOUS
<1>2. played = it[1 .. n]
  <2> HIDE DEF n
  <2> QED BY <1>1 DEF Overlay!Played, Overlay!FoldLeft, Overlay!MapThenFoldSet,
                    Overlay!Max, Max, Draw
<1>3. ASSUME NEW x \in Good, NEW i \in 1 .. n PROVE Draw(x, events[i]) \in Good
  <2>1. events[i] \in EventsOf(Ids)
    BY <1>1
  <2> QED BY <2>1 DEF Draw, EventsOf
<1> DEFINE F == [p \in (1 .. n) \X Good |-> Draw(p[2], events[p[1]])]
<1>5. F \in [(1 .. n) \X Good -> Good]
  <2> HIDE DEF Good
  <2> QED BY <1>3
<1>6. ASSUME NEW i \in 1 .. n, NEW x \in Good PROVE F[<<i, x>>] = Draw(x, events[i])
  OBVIOUS
<1>0. before \in Good
  OBVIOUS
<1> HIDE DEF F, n, Good, played
<1>7. PICK f : FoldSolution(f, n, Good, before, F)
  BY <1>0, <1>1, <1>5, FoldSolved
<1>8. ASSUME NEW r \in SUBSET (1 .. n), r # {}
      PROVE  Max(r) \in 1 .. n /\ f[r \ {Max(r)}] \in Good
  <2>1. Max(r) \in r
    BY <1>1, <1>8, MaxFacts
  <2> QED BY <2>1, <1>7 DEF FoldSolution
<1>9. P(f)
  <2>1. ASSUME NEW r \in SUBSET (1 .. n)
        PROVE  f[r] = IF r = {} THEN before ELSE Draw(f[r \ {Max(r)}], events[Max(r)])
    BY <1>6, <1>7, <1>8 DEF FoldSolution
  <2>2. f = [r \in SUBSET (1 .. n) |->
               IF r = {} THEN before ELSE Draw(f[r \ {Max(r)}], events[Max(r)])]
    BY <2>1, <1>7 DEF FoldSolution
  <2> QED BY <2>2, <1>1
<1>10. P(it)
  BY <1>9
<1>11. \A r \in SUBSET (1 .. n) :
         it[r] = IF r = {} THEN before ELSE Draw(it[r \ {Max(r)}], events[Max(r)])
  BY <1>10, <1>1
<1> HIDE DEF it
<1>12. it[{}] = before
  BY <1>11
<1>13. ASSUME NEW k \in 1 .. n, it[1 .. (k - 1)] \in Good
       PROVE  it[1 .. k] = F[<<k, it[1 .. (k - 1)]>>]
  <2>1. 1 .. k # {} /\ Max(1 .. k) = k /\ (1 .. k) \ {k} = 1 .. (k - 1)
    BY <1>1, k \in Nat \ {0}, MaxOfTurns
  <2>2. 1 .. k \in SUBSET (1 .. n)
    BY <1>1
  <2>3. it[1 .. k] = Draw(it[1 .. (k - 1)], events[k])
    BY <2>1, <2>2, <1>11
  <2> QED BY <2>3, <1>6, <1>13
<1>14. PICK h : FoldRunTo(h, n, Good, before, F, it[1 .. n])
  BY <1>0, <1>1, <1>5, <1>12, <1>13, FoldRuns
<1>15. /\ h \in [0 .. n -> Good] /\ h[0] = before /\ h[n] = played
       /\ \A k \in 1 .. n : h[k] = Draw(h[k - 1], events[k])
  <2>1. \A k \in 1 .. n : k - 1 \in 0 .. n
    BY <1>1
  <2> QED BY <2>1, <1>2, <1>6, <1>14 DEF FoldRunTo
<1> QED BY <1>15 DEF PlayRun, n, Good, played

\* Nothing is changed by no event.
LEMMA PlayedNothing ==
  ASSUME NEW Ids, NEW before \in SUBSET Ids
  PROVE  Overlay!Played(before, <<>>) = before
<1>1. PICK h : PlayRun(h, before, <<>>, Ids)
  <2>1. <<>> \in Seq(EventsOf(Ids))
    OBVIOUS
  <2> QED BY <2>1, PlayedRuns
<1> QED BY <1>1 DEF PlayRun

\* One event more is played on what the others have drawn.
LEMMA PlayedMore ==
  ASSUME NEW Ids, NEW before \in Pictures(Ids), NEW events \in Seq(EventsOf(Ids)),
         NEW e \in EventsOf(Ids)
  PROVE  /\ Overlay!Played(before, events) \in Pictures(Ids)
         /\ Overlay!Played(before, Append(events, e))
              = Draw(Overlay!Played(before, events), e)
<1> USE DEF Pictures
<1> DEFINE n == Len(events)
           more == Append(events, e)
<1>1. n \in Nat /\ more \in Seq(EventsOf(Ids)) /\ Len(more) = n + 1 /\ more[n + 1] = e
      /\ \A k \in 1 .. n : more[k] = events[k]
  OBVIOUS
<1>2. PICK h : PlayRun(h, before, events, Ids)
  BY PlayedRuns
<1>3. PICK g : PlayRun(g, before, more, Ids)
  BY <1>1, PlayedRuns
<1> HIDE DEF more
<1>4. /\ h[0] = before /\ h[n] = Overlay!Played(before, events) /\ h[n] \in SUBSET Ids
      /\ \A k \in 1 .. n : h[k] = Draw(h[k - 1], events[k])
  BY <1>1, <1>2 DEF PlayRun
<1>5. /\ g[0] = before /\ g[n + 1] = Overlay!Played(before, more)
      /\ g[n + 1] = Draw(g[n], e)
      /\ \A k \in 1 .. n : g[k] = Draw(g[k - 1], events[k])
  <2>1. n + 1 \in 1 .. (n + 1) /\ (n + 1) - 1 = n /\ \A k \in 1 .. n : k \in 1 .. (n + 1)
    BY <1>1
  <2> QED BY <2>1, <1>1, <1>3 DEF PlayRun
<1> DEFINE S == {k \in Nat : k <= n => g[k] = h[k]}
<1>6. 0 \in S
  BY <1>4, <1>5
<1>7. ASSUME NEW k \in Nat, k \in S PROVE k + 1 \in S
  <2> SUFFICES ASSUME k + 1 <= n PROVE g[k + 1] = h[k + 1]
    OBVIOUS
  <2>1. k + 1 \in 1 .. n /\ (k + 1) - 1 = k /\ g[k] = h[k]
    BY <1>1, <1>7
  <2> QED BY <2>1, <1>4, <1>5
<1>8. Nat \subseteq S
  <2> HIDE DEF S
  <2> QED BY <1>6, <1>7, Induction
<1>9. g[n] = h[n]
  BY <1>1, <1>8
<1> QED BY <1>4, <1>5, <1>9 DEF more

\* Whether events may be raised in this order, one event more included.
LEMMA LegalMore ==
  ASSUME NEW Ids, NEW before, NEW events \in Seq(EventsOf(Ids)), NEW e \in EventsOf(Ids)
  PROVE  Overlay!Legal(before, Append(events, e)) <=>
           /\ Overlay!Legal(before, events)
           /\ e.type = "SHOW" <=> e.id \notin Overlay!Played(before, events)
<1> DEFINE n == Len(events)
           more == Append(events, e)
           P(es) == Overlay!Played(before, es)
<1>1. /\ n \in Nat /\ DOMAIN events = 1 .. n /\ DOMAIN more = 1 .. (n + 1)
      /\ more[n + 1] = e /\ \A k \in 1 .. n : more[k] = events[k]
  OBVIOUS
<1>2. ASSUME NEW i \in 1 .. n PROVE SubSeq(more, 1, i - 1) = SubSeq(events, 1, i - 1)
  BY <1>1
<1>3. SubSeq(more, 1, (n + 1) - 1) = events
  BY <1>1
<1> HIDE DEF more, n, P
<1>4. Overlay!Legal(before, more) <=>
        \A i \in 1 .. (n + 1) :
          more[i].type = "SHOW" <=> more[i].id \notin P(SubSeq(more, 1, i - 1))
  BY <1>1 DEF Overlay!Legal, P
<1>5. Overlay!Legal(before, events) <=>
        \A i \in 1 .. n :
          events[i].type = "SHOW" <=> events[i].id \notin P(SubSeq(events, 1, i - 1))
  BY <1>1 DEF Overlay!Legal, P
<1>6. \A i : i \in 1 .. (n + 1) <=> i \in 1 .. n \/ i = n + 1
  BY <1>1
<1>7. \A i \in 1 .. n :
        (more[i].type = "SHOW" <=> more[i].id \notin P(SubSeq(more, 1, i - 1))) <=>
        (events[i].type = "SHOW" <=> events[i].id \notin P(SubSeq(events, 1, i - 1)))
  BY <1>1, <1>2
<1>8. (more[n + 1].type = "SHOW" <=> more[n + 1].id \notin P(SubSeq(more, 1, (n + 1) - 1))) <=>
        (e.type = "SHOW" <=> e.id \notin P(events))
  BY <1>1, <1>3
<1>9. Overlay!Legal(before, more) <=>
        /\ \A i \in 1 .. n :
             events[i].type = "SHOW" <=> events[i].id \notin P(SubSeq(events, 1, i - 1))
        /\ e.type = "SHOW" <=> e.id \notin P(events)
  BY <1>4, <1>6, <1>7, <1>8
<1> QED BY <1>5, <1>9 DEF more, P

\* No event is in order.
LEMMA LegalNothing ==
  ASSUME NEW before
  PROVE  Overlay!Legal(before, <<>>)
BY DEF Overlay!Legal

\* At most one event for each of n trackers.
Kinds(n) == [1 .. n -> {"none", "SHOW", "HIDE", "UPDATE"}]

\* Each of the sequences h has what the one before has, and the event of the next.
OrderRun(h, kinds, n) ==
  /\ h \in [0 .. n -> Seq(EventsOf(Leaderboards))]
  /\ h[0] = <<>>
  /\ \A k \in 1 .. n :
       h[k] = IF kinds[k] = "none" THEN h[k - 1]
              ELSE Append(h[k - 1], [type |-> kinds[k], id |-> k])
  /\ h[n] = InOrder(kinds)

\* There are such sequences.
LEMMA InOrderRuns ==
  ASSUME NEW n \in 0 .. Count, NEW kinds \in Kinds(n)
  PROVE  \E h : OrderRun(h, kinds, n)
<1> DEFINE Good == Seq(EventsOf(Leaderboards))
           Op(x, a) == IF kinds[a] = "none" THEN x
                       ELSE Append(x, [type |-> kinds[a], id |-> a])
           ids == [i \in DOMAIN kinds |-> i]
           P(f) == f = [r \in SUBSET (DOMAIN ids) |->
                          IF r = {} THEN <<>> ELSE Op(f[r \ {Max(r)}], ids[Max(r)])]
           it == CHOOSE f : P(f)
<1>1. n \in Nat /\ DOMAIN ids = 1 .. n /\ \A i \in 1 .. n : ids[i] = i
  BY LeaderboardAssumption DEF Kinds
<1>2. InOrder(kinds) = it[1 .. n]
  BY <1>1 DEF InOrder, FoldLeftDomain, FoldLeft, MapThenFoldSet
<1>3. ASSUME NEW x \in Good, NEW i \in 1 .. n PROVE Op(x, i) \in Good
  <2>1. kinds[i] \in {"none", "SHOW", "HIDE", "UPDATE"} /\ i \in Leaderboards
    BY LeaderboardAssumption DEF Kinds, Leaderboards
  <2>2. kinds[i] # "none" => [type |-> kinds[i], id |-> i] \in EventsOf(Leaderboards)
    BY <2>1 DEF EventsOf
  <2> QED BY <2>2
<1> DEFINE F == [p \in (1 .. n) \X Good |-> Op(p[2], p[1])]
<1>0. <<>> \in Good
  OBVIOUS
<1> HIDE DEF Good, Op
<1>5. F \in [(1 .. n) \X Good -> Good]
  BY <1>3
<1>6. ASSUME NEW i \in 1 .. n, NEW x \in Good PROVE F[<<i, x>>] = Op(x, i)
  OBVIOUS
<1> HIDE DEF F
<1>7. PICK f : FoldSolution(f, n, Good, <<>>, F)
  BY <1>0, <1>1, <1>5, FoldSolved
<1>8. ASSUME NEW r \in SUBSET (1 .. n), r # {}
      PROVE  Max(r) \in 1 .. n /\ f[r \ {Max(r)}] \in Good
  <2>1. Max(r) \in r
    BY <1>1, <1>8, MaxFacts
  <2> QED BY <2>1, <1>7 DEF FoldSolution
<1>9. P(f)
  <2>1. ASSUME NEW r \in SUBSET (1 .. n)
        PROVE  f[r] = IF r = {} THEN <<>> ELSE Op(f[r \ {Max(r)}], ids[Max(r)])
    BY <1>1, <1>6, <1>7, <1>8 DEF FoldSolution
  <2>2. f = [r \in SUBSET (1 .. n) |->
               IF r = {} THEN <<>> ELSE Op(f[r \ {Max(r)}], ids[Max(r)])]
    BY <2>1, <1>7 DEF FoldSolution
  <2> QED BY <2>2, <1>1
<1>10. P(it)
  BY <1>9
<1>11. \A r \in SUBSET (1 .. n) :
         it[r] = IF r = {} THEN <<>> ELSE Op(it[r \ {Max(r)}], ids[Max(r)])
  BY <1>10, <1>1
<1> HIDE DEF it, ids
<1>12. it[{}] = <<>>
  BY <1>11
<1>13. ASSUME NEW k \in 1 .. n, it[1 .. (k - 1)] \in Good
       PROVE  it[1 .. k] = F[<<k, it[1 .. (k - 1)]>>]
  <2>1. 1 .. k # {} /\ Max(1 .. k) = k /\ (1 .. k) \ {k} = 1 .. (k - 1)
    BY <1>1, k \in Nat \ {0}, MaxOfTurns
  <2>2. 1 .. k \in SUBSET (1 .. n)
    BY <1>1
  <2>3. it[1 .. k] = Op(it[1 .. (k - 1)], ids[k])
    BY <2>1, <2>2, <1>11
  <2> QED BY <2>3, <1>1, <1>6, <1>13
<1>14. PICK h : FoldRunTo(h, n, Good, <<>>, F, it[1 .. n])
  BY <1>0, <1>1, <1>5, <1>12, <1>13, FoldRuns
<1>15. /\ h \in [0 .. n -> Good] /\ h[0] = <<>> /\ h[n] = InOrder(kinds)
       /\ \A k \in 1 .. n : h[k] = Op(h[k - 1], k)
  <2>1. \A k \in 1 .. n : k - 1 \in 0 .. n
    BY <1>1
  <2> QED BY <2>1, <1>2, <1>6, <1>14 DEF FoldRunTo
<1> QED BY <1>15 DEF OrderRun, Good, Op

\* If what is shown was hidden, and what is hidden or updated was shown, the events are
\* legal, and draw what they say.
LEMMA InOrderDraws ==
  ASSUME NEW n \in 0 .. Count, NEW kinds \in Kinds(n), NEW before \in SUBSET (1 .. n),
         \A a \in 1 .. n : /\ kinds[a] = "SHOW" => a \notin before
                           /\ kinds[a] \in {"HIDE", "UPDATE"} => a \in before
  PROVE  /\ InOrder(kinds) \in Seq(EventsOf(Leaderboards))
         /\ Overlay!Legal(before, InOrder(kinds))
         /\ Overlay!Played(before, InOrder(kinds))
              = {a \in 1 .. n : kinds[a] = "SHOW" \/ (a \in before /\ kinds[a] # "HIDE")}
<1> DEFINE Drawn(k) ==
             {a \in 1 .. n : IF a <= k
                             THEN kinds[a] = "SHOW" \/ (a \in before /\ kinds[a] # "HIDE")
                             ELSE a \in before}
           P(es) == Overlay!Played(before, es)
<1>1. PICK h : OrderRun(h, kinds, n)
  BY InOrderRuns
<1>2. n \in Nat /\ 1 .. n \subseteq Leaderboards
  BY LeaderboardAssumption DEF Leaderboards
<1> DEFINE Done(k) == Overlay!Legal(before, h[k]) /\ P(h[k]) = Drawn(k)
           S == {k \in Nat : k <= n => Done(k)}
<1>3. 0 \in S
  <2>1. Drawn(0) = before
    <3>1. \A a \in 1 .. n : ~(a <= 0)
      BY <1>2
    <3> QED BY <3>1
  <2>2. P(<<>>) = before
    <3>1. before \in SUBSET Leaderboards
      BY <1>2
    <3> QED BY <3>1, PlayedNothing
  <2> QED BY <1>1, <2>1, <2>2, LegalNothing DEF OrderRun
<1>4. ASSUME NEW k \in Nat, k \in S PROVE k + 1 \in S
  <2> SUFFICES ASSUME k + 1 <= n PROVE Done(k + 1)
    <3> HIDE DEF Done
    <3> QED OBVIOUS
  <2>1. Done(k)
    <3> HIDE DEF Done
    <3> QED BY <1>2, <1>4
  <2> DEFINE a == k + 1
             e == [type |-> kinds[k + 1], id |-> k + 1]
  <2>2. /\ k + 1 \in 1 .. n /\ k + 1 \in Leaderboards /\ (k + 1) - 1 = k /\ k \in 0 .. n
        /\ kinds[k + 1] \in {"none", "SHOW", "HIDE", "UPDATE"}
    BY <1>2 DEF Kinds
  <2>3. h[k] \in Seq(EventsOf(Leaderboards))
    BY <2>2, <1>1 DEF OrderRun
  <2>4. k + 1 \in Drawn(k) <=> k + 1 \in before
    BY <2>2
  <2>5. CASE kinds[k + 1] = "none"
    <3>1. h[k + 1] = h[k]
      BY <2>2, <2>5, <1>1 DEF OrderRun
    <3>2. Drawn(k + 1) = Drawn(k)
      BY <2>5, <1>2
    <3> HIDE DEF Drawn
    <3> QED BY <2>1, <3>1, <3>2
  <2>6. CASE kinds[k + 1] # "none"
    <3>1. h[k + 1] = Append(h[k], e)
      BY <2>2, <2>6, <1>1 DEF OrderRun
    <3>2. e \in EventsOf(Leaderboards) /\ e.type = kinds[k + 1] /\ e.id = k + 1
      BY <2>2, <2>6 DEF EventsOf
    <3> HIDE DEF e
    <3>3. P(Append(h[k], e)) = Draw(Drawn(k), e)
      <4>1. P(Append(h[k], e)) = Draw(P(h[k]), e)
        <5> HIDE DEF Drawn
        <5>1. before \in Pictures(Leaderboards)
          BY <1>2 DEF Pictures
        <5> HIDE DEF P
        <5>2. Overlay!Played(before, Append(h[k], e))
                = Draw(Overlay!Played(before, h[k]), e)
          BY <2>3, <3>2, <5>1, PlayedMore
        <5> QED BY <5>2 DEF P
      <4> HIDE DEF Drawn, P
      <4> QED BY <2>1, <4>1
    <3>4. Overlay!Legal(before, Append(h[k], e))
      <4>1. e.type = "SHOW" <=> e.id \notin Drawn(k)
        BY <2>2, <2>4, <2>6, <3>2
      <4> HIDE DEF Drawn
      <4> QED BY <2>1, <2>3, <3>2, <4>1, LegalMore
    <3>5. Draw(Drawn(k), e) = Drawn(k + 1)
      <4>1. CASE kinds[k + 1] = "SHOW"
        <5>1. Draw(Drawn(k), e) = Drawn(k) \cup {k + 1}
          BY <3>2, <4>1 DEF Draw
        <5> QED BY <5>1, <2>2, <4>1, <1>2
      <4>2. CASE kinds[k + 1] = "HIDE"
        <5>1. Draw(Drawn(k), e) = Drawn(k) \ {k + 1}
          BY <3>2, <4>2 DEF Draw
        <5> QED BY <5>1, <2>2, <4>2, <1>2
      <4>3. CASE kinds[k + 1] = "UPDATE"
        <5>1. Draw(Drawn(k), e) = Drawn(k)
          BY <3>2, <4>3 DEF Draw
        <5> QED BY <5>1, <2>2, <4>3, <1>2
      <4> QED BY <4>1, <4>2, <4>3, <2>2, <2>6
    <3> HIDE DEF Drawn
    <3> QED BY <3>1, <3>3, <3>4, <3>5
  <2> QED BY <2>5, <2>6
<1>5. Nat \subseteq S
  <2> HIDE DEF S
  <2> QED BY <1>3, <1>4, Induction
<1>6. Done(n)
  <2> HIDE DEF Done
  <2> QED BY <1>2, <1>5
<1>7. Drawn(n) = {a \in 1 .. n : kinds[a] = "SHOW" \/ (a \in before /\ kinds[a] # "HIDE")}
  BY <1>2
<1>8. h[n] = InOrder(kinds) /\ h[n] \in Seq(EventsOf(Leaderboards))
  BY <1>1, <1>2 DEF OrderRun
<1> HIDE DEF Drawn
<1> QED BY <1>6, <1>7, <1>8

-----------------------------------------------------------------------------
(* The trackers on screen are what the events say.                           *)

\* The event for what is pending.
TrackerKind(p) ==
  CASE "HIDE" \in p /\ "SHOW" \notin p    -> "HIDE"
    [] "SHOW" \in p /\ "HIDE" \notin p    -> "SHOW"
    [] p = {"UPDATE"}                     -> "UPDATE"
    [] OTHER                              -> "none"

\* What is pending for a tracker makes it drawn if it is in use.
LEMMA FitsKind ==
  ASSUME NEW i, NEW t, t.pending \in SUBSET {"SHOW", "HIDE", "UPDATE"}, Fits(i, t)
  PROVE  LET kind == TrackerKind(t.pending)
         IN /\ kind \in {"none", "SHOW", "HIDE", "UPDATE"}
            /\ kind = "SHOW" => i \notin Shown
            /\ kind \in {"HIDE", "UPDATE"} => i \in Shown
            /\ t.refs > 0 <=> kind = "SHOW" \/ (i \in Shown /\ kind # "HIDE")
<1> DEFINE p == t.pending
           kind == TrackerKind(t.pending)
           out == "HIDE" \in p
           in == "SHOW" \in p
<1>1. /\ kind = "HIDE" <=> out /\ ~in
      /\ kind = "SHOW" <=> in /\ ~out
      /\ kind = "UPDATE" <=> p = {"UPDATE"}
      /\ kind \in {"none", "SHOW", "HIDE", "UPDATE"}
  BY DEF TrackerKind
<1>2. CASE t.refs > 0
  <2>1. ~out /\ (in <=> i \notin Shown)
    BY <1>2 DEF Fits
  <2>2. p = {"UPDATE"} => ~in
    OBVIOUS
  <2> HIDE DEF kind, out, in
  <2> QED BY <1>1, <1>2, <2>1, <2>2 DEF kind
<1>3. CASE ~(t.refs > 0) /\ i \in Shown
  <2>1. out /\ ~in
    BY <1>3 DEF Fits
  <2> HIDE DEF kind, out, in
  <2> QED BY <1>1, <1>3, <2>1 DEF kind
<1>4. CASE ~(t.refs > 0) /\ i \notin Shown
  <2>1. (in <=> out) /\ p # {"UPDATE"}
    BY <1>4 DEF Fits
  <2> HIDE DEF kind, out, in
  <2> QED BY <1>1, <1>4, <2>1 DEF kind
<1> QED BY <1>2, <1>3, <1>4

\* Drawing the events of a call shows the trackers in use.
LEMMA TrackersDrawn ==
  ASSUME NEW c, NEW done, Core(c, done), Drawable(c)
  PROVE  /\ TrackerEvents(c) \in Seq(EventsOf(Leaderboards))
         /\ Overlay!Legal(Shown, TrackerEvents(c))
         /\ Overlay!Played(Shown, TrackerEvents(c))
              = {i \in DOMAIN c.trackers : c.trackers[i].refs > 0}
<1> DEFINE n == Len(c.trackers)
           kinds == [i \in DOMAIN c.trackers |-> TrackerKind(c.trackers[i].pending)]
<1>1. /\ n \in 0 .. Count /\ DOMAIN c.trackers = 1 .. n
      /\ \A i \in 1 .. n : c.trackers[i] \in Tracker
  BY LeaderboardAssumption, LenProperties, ElementOfSeq DEF Core, Typed
<1>2. TrackerEvents(c) = InOrder(kinds)
  BY DEF TrackerEvents, TrackerKind
<1>3. Shown \in SUBSET (1 .. n)
  BY <1>1 DEF Drawable
<1>4. ASSUME NEW i \in 1 .. n
      PROVE  /\ kinds[i] \in {"none", "SHOW", "HIDE", "UPDATE"}
             /\ kinds[i] = "SHOW" => i \notin Shown
             /\ kinds[i] \in {"HIDE", "UPDATE"} => i \in Shown
             /\ c.trackers[i].refs > 0 <=> kinds[i] = "SHOW" \/ (i \in Shown /\ kinds[i] # "HIDE")
  <2>1. Fits(i, c.trackers[i])
    BY <1>1 DEF Drawable
  <2>2. c.trackers[i].pending \in SUBSET {"SHOW", "HIDE", "UPDATE"}
    BY <1>1 DEF Tracker
  <2>3. kinds[i] = TrackerKind(c.trackers[i].pending)
    BY <1>1
  <2> HIDE DEF kinds
  <2> QED BY <2>1, <2>2, <2>3, FitsKind
<1>5. kinds \in Kinds(n)
  <2>1. kinds = [i \in 1 .. n |-> kinds[i]]
    BY <1>1
  <2> HIDE DEF kinds, n
  <2> QED BY <1>4, <2>1 DEF Kinds
<1> HIDE DEF kinds, n
<1>6. /\ InOrder(kinds) \in Seq(EventsOf(Leaderboards))
      /\ Overlay!Legal(Shown, InOrder(kinds))
      /\ Overlay!Played(Shown, InOrder(kinds))
           = {i \in 1 .. n : kinds[i] = "SHOW" \/ (i \in Shown /\ kinds[i] # "HIDE")}
  BY <1>1, <1>3, <1>4, <1>5, InOrderDraws
<1> QED BY <1>1, <1>2, <1>4, <1>6

\* A call that raises the events of c, and leaves the trackers of c in use.
LEMMA OverlayCall ==
  ASSUME ~host.fails, host' = host, raised = <<>>, NEW c, NEW done, Core(c, done),
         Drawable(c), raised' = TrackerEvents(c),
         {i \in DOMAIN trackers' : trackers'[i].refs > 0}
           = {i \in DOMAIN c.trackers : c.trackers[i].refs > 0}
  PROVE  Overlay!Call
<1>1. /\ raised' \in Seq(EventsOf(Leaderboards))
      /\ Overlay!Legal(Shown, raised')
      /\ Overlay!Played(Shown, raised') = {i \in DOMAIN trackers' : trackers'[i].refs > 0}
  BY TrackersDrawn
<1>2. /\ (IF host.fails THEN {} ELSE {i \in DOMAIN trackers : trackers[i].refs > 0}) = Shown
      /\ (IF host.fails THEN {} ELSE {i \in DOMAIN trackers : trackers[i].refs > 0})'
           = {i \in DOMAIN trackers' : trackers'[i].refs > 0}
      /\ (IF host.fails THEN <<>> ELSE raised) = <<>>
      /\ (IF host.fails THEN <<>> ELSE raised)' = raised'
  BY DEF Shown
<1>3. Overlay!Events = EventsOf(Leaderboards)
  BY DEF Overlay!Events, EventsOf
<1> QED BY <1>1, <1>2, <1>3 DEF Overlay!Call

\* What a call does to the overlay, where memory can be read.
Draws == raised = <<>> /\ ~host.fails => Overlay!Call

\* A call that ends well tells which trackers are in use.
LEMMA CallDraws ==
  ASSUME NEW c, EndsWell(c), RaisePendingEvents(c), host' = host
  PROVE  Draws
<1> SUFFICES ASSUME raised = <<>>, ~host.fails PROVE Overlay!Call
  BY DEF Draws
<1>1. PICK done : Core(c, done)
  BY DEF EndsWell
<1>2. Drawable(c) /\ raised' = TrackerEvents(c)
  BY DEF EndsWell, RaisePendingEvents
<1>3. /\ DOMAIN trackers' = DOMAIN c.trackers
      /\ \A i \in DOMAIN c.trackers : trackers'[i].refs = c.trackers[i].refs
  <2>1. \A i \in DOMAIN c.trackers : c.trackers[i] \in Tracker
    BY <1>1, ElementOfSeq, LenProperties DEF Core, Typed
  <2>2. trackers' = [i \in DOMAIN c.trackers |-> [c.trackers[i] EXCEPT !.pending = {}]]
    BY DEF RaisePendingEvents
  <2>3. ASSUME NEW t \in Tracker PROVE [t EXCEPT !.pending = {}].refs = t.refs
    BY DEF Tracker
  <2> QED BY <2>1, <2>2, <2>3
<1> QED BY <1>1, <1>2, <1>3, OverlayCall

\* Nothing is left on screen of a game that is unloaded.
LEMMA UnloadEnds ==
  ASSUME IInv, ~host.fails, NEW c, c = Unloaded(game)
  PROVE  /\ Core(c, Leaderboards) /\ Drawable(c)
         /\ \A i \in DOMAIN c.trackers : ~(c.trackers[i].refs > 0)
<1>1. /\ host \in Hosts /\ Intact
      /\ game.board = board
      /\ Core(game, Leaderboards) /\ Drawable(game)
      /\ \A l \in Leaderboards : OwnFormula(game, l) /\ Wired(board[l])
  BY GameAtRest DEF IInv
<1>2. UnloadAt(game, 0)
  <2>1. \A l \in Leaderboards : l > 0 /\ (board[l].tracker # 0 => board[l].public = "TRACKING")
    BY <1>1 DEF Leaderboards, Intact, Wired
  <2> QED BY <1>1, <2>1 DEF UnloadAt
<1>3. UnloadAt(c, Count)
  BY <1>1, <1>2, UnloadTurns
<1>4. \A l \in Leaderboards : ~(l > Count)
  BY LeaderboardAssumption DEF Leaderboards
<1>5. /\ Core(c, Leaderboards) /\ Drawable(c)
      /\ \A l \in Leaderboards : c.board[l].tracker = 0
  BY <1>3, <1>4 DEF UnloadAt
<1>6. ASSUME NEW i \in DOMAIN c.trackers PROVE c.trackers[i].refs = 0
  <2>1. i # 0
    BY <1>5, LenProperties DEF Core, Typed
  <2>2. Users(c, i) = {}
    BY <1>5, <2>1 DEF Users
  <2>3. c.trackers[i].refs = Cardinality(Users(c, i))
    BY <1>5 DEF Core
  <2> QED BY <2>2, <2>3, FS_EmptySet
<1> QED BY <1>5, <1>6

-----------------------------------------------------------------------------
(* The steps.                                                                *)

\* The state when the events have been raised.
Quieted(c, r) ==
  /\ Shaped(r)
  /\ r.board = [l \in Leaderboards |-> [c.board[l] EXCEPT !.pending = {}]]
  /\ r.trackers = [i \in DOMAIN c.trackers |-> [c.trackers[i] EXCEPT !.pending = {}]]

\* A call that ends well leaves the game at rest.
LEMMA RaisedRests ==
  ASSUME host \in Hosts, NEW c, EndsWell(c), NEW r, Quieted(c, r)
  PROVE  /\ Rested(r)
         /\ \A l \in Leaderboards : /\ r.board[l].public = c.board[l].public
                                    /\ r.board[l].state = c.board[l].state
<1>1. PICK done : Core(c, done)
  BY DEF EndsWell
<1>2. /\ Agree(c)
      /\ \A l \in Leaderboards :
           /\ OwnFormula(c, l) /\ Wired(c.board[l]) /\ Matched(c.board[l])
           /\ Current(c, l, c.board[l].value)
  BY DEF EndsWell
<1>3. /\ c.board \in [Leaderboards -> BoardRecord]
      /\ c.trackers \in Seq(Tracker) /\ DOMAIN c.trackers = 1 .. Len(c.trackers)
      /\ Len(c.trackers) \in Nat /\ \A i \in DOMAIN c.trackers : c.trackers[i] \in Tracker
      /\ Len(c.trackers) <= Count
      /\ \A l \in Leaderboards : c.board[l].tracker <= Len(c.trackers)
      /\ \A i \in DOMAIN c.trackers : c.trackers[i].refs = Cardinality(Users(c, i))
  BY <1>1, LenProperties, ElementOfSeq DEF Core, Typed
<1>4. ASSUME NEW b \in BoardRecord, NEW n, n = [b EXCEPT !.pending = {}]
      PROVE  /\ n \in BoardRecord /\ n.pending = {}
             /\ n.public = b.public /\ n.state = b.state /\ n.value = b.value
             /\ n.tracker = b.tracker
  BY <1>4 DEF BoardRecord
<1>5. ASSUME NEW t \in Tracker, NEW n, n = [t EXCEPT !.pending = {}]
      PROVE  /\ n \in Tracker /\ n.pending = {}
             /\ n.refs = t.refs /\ n.formula = t.formula /\ n.raw = t.raw
  BY <1>5 DEF Tracker
<1>6. ASSUME NEW l \in Leaderboards
      PROVE  /\ r.board[l] \in BoardRecord /\ r.board[l].pending = {}
             /\ r.board[l].public = c.board[l].public /\ r.board[l].state = c.board[l].state
             /\ r.board[l].value = c.board[l].value /\ r.board[l].tracker = c.board[l].tracker
  <2>1. r.board[l] = [c.board[l] EXCEPT !.pending = {}] /\ c.board[l] \in BoardRecord
    BY <1>3 DEF Quieted
  <2> QED BY <1>4, <2>1
<1>7. ASSUME NEW i \in DOMAIN c.trackers
      PROVE  /\ r.trackers[i] \in Tracker /\ r.trackers[i].pending = {}
             /\ r.trackers[i].refs = c.trackers[i].refs
             /\ r.trackers[i].formula = c.trackers[i].formula
             /\ r.trackers[i].raw = c.trackers[i].raw
  <2>1. r.trackers[i] = [c.trackers[i] EXCEPT !.pending = {}] /\ c.trackers[i] \in Tracker
    BY <1>3 DEF Quieted
  <2> QED BY <1>5, <2>1
<1>8. /\ r.trackers \in Seq(Tracker) /\ Len(r.trackers) = Len(c.trackers)
      /\ DOMAIN r.trackers = DOMAIN c.trackers
  <2>1. r.trackers = [i \in 1 .. Len(c.trackers) |-> r.trackers[i]]
    BY <1>3 DEF Quieted
  <2>2. DOMAIN r.trackers = 1 .. Len(c.trackers)
    BY <1>3 DEF Quieted
  <2>3. r.trackers \in [1 .. Len(c.trackers) -> Tracker]
    BY <1>3, <1>7, <2>1
  <2>4. r.trackers \in Seq(Tracker)
    BY <1>3, <2>3
  <2> QED BY <1>3, <2>2, <2>4, LenProperties
<1>9. r.board \in [Leaderboards -> BoardRecord]
  <2>1. r.board = [l \in Leaderboards |-> r.board[l]]
    BY DEF Quieted
  <2> QED BY <1>6, <2>1
<1>10. Core(r, {})
  <2>1. Typed(r)
    BY <1>8, <1>9 DEF Typed, Quieted, Shaped
  <2>2. \A i : Users(r, i) = Users(c, i)
    BY <1>6 DEF Users
  <2>3. Returners(r, {})
    <3>1. [l \in Leaderboards |-> 0] \in [Leaderboards -> Nat]
      OBVIOUS
    <3>2. \A i \in DOMAIN r.trackers : ~(r.trackers[i].pending # {})
      BY <1>7, <1>8
    <3> QED BY <3>1, <3>2 DEF Returners
  <2>4. \A l \in Leaderboards : r.board[l].tracker <= Len(r.trackers)
    BY <1>3, <1>6, <1>8
  <2>5. \A i \in DOMAIN r.trackers : r.trackers[i].refs = Cardinality(Users(r, i))
    BY <1>3, <1>7, <1>8, <2>2
  <2> QED BY <1>3, <1>8, <2>1, <2>3, <2>4, <2>5 DEF Core
<1>11. ASSUME NEW l \in Leaderboards
       PROVE  /\ OwnFormula(r, l) /\ Wired(r.board[l]) /\ Matched(r.board[l])
              /\ Current(r, l, r.board[l].value)
  <2>1. c.board[l].tracker # 0 => c.board[l].tracker \in DOMAIN c.trackers
    BY <1>1, Pointing
  <2>2. OwnFormula(r, l)
    BY <1>2, <1>6, <1>7, <2>1 DEF OwnFormula
  <2>3. Wired(r.board[l]) /\ Matched(r.board[l])
    BY <1>2, <1>6 DEF Wired, Matched
  <2>4. Current(r, l, r.board[l].value)
    <3> SUFFICES ASSUME r.board[l].public = "TRACKING", host.formula[l] \notin FromHits
                 PROVE  r.trackers[r.board[l].tracker].raw = r.board[l].value
      BY DEF Current
    <3>1. /\ c.board[l].public = "TRACKING" /\ r.board[l].tracker = c.board[l].tracker
          /\ r.board[l].value = c.board[l].value
      BY <1>6
    <3>2. c.board[l].tracker # 0 /\ c.trackers[c.board[l].tracker].raw = c.board[l].value
      BY <1>2, <3>1 DEF Current, Wired
    <3> QED BY <1>7, <2>1, <3>1, <3>2
  <2> QED BY <2>2, <2>3, <2>4
<1>12. Agree(r)
  <2>1. \A l \in Leaderboards : /\ InAttempt(r.board[l]) => InAttempt(c.board[l])
                                /\ r.board[l].value = c.board[l].value
    BY <1>6 DEF InAttempt
  <2> QED BY <1>2, <2>1 DEF Agree
<1>13. \A i \in DOMAIN r.trackers : r.trackers[i].pending = {}
  BY <1>7, <1>8
<1>14. Rested(r)
  BY <1>6, <1>10, <1>11, <1>12, <1>13 DEF Rested
<1> QED BY <1>6, <1>14

\* What has been announced of a leaderboard.
Heard(l) == {e.type : e \in {f \in announced' : f.id = l}}

Kind(p) ==
  CASE "FAILED" \in p                         -> "FAILED"
    [] "FAILED" \notin p /\ "SUBMITTED" \in p -> "SUBMITTED"
    [] OTHER                                  -> "STARTED"

\* One event at most is pending, so the host hears what is pending.
LEMMA EventsHeard ==
  ASSUME NEW c, announced' = BoardEvents(c), NEW l \in Leaderboards,
         c.board[l].pending \in {{}, {"STARTED"}, {"FAILED"}, {"SUBMITTED"}}
  PROVE  Heard(l) = c.board[l].pending
<1> DEFINE p == c.board[l].pending
           e == [type |-> Kind(p), id |-> l]
<1>1. announced' = {[type |-> Kind(c.board[k].pending), id |-> k] :
                      k \in {m \in Leaderboards : c.board[m].pending # {}}}
  BY Zenon DEF BoardEvents, Kind
<1>2. CASE p = {}
  <2>1. {f \in announced' : f.id = l} = {}
    BY <1>1, <1>2
  <2> QED BY <1>2, <2>1 DEF Heard
<1>3. CASE p # {}
  <2>1. p = {Kind(p)}
    BY <1>3 DEF Kind
  <2>2. {f \in announced' : f.id = l} = {e}
    BY <1>1, <1>3
  <2>3. e.type = Kind(p)
    OBVIOUS
  <2> HIDE DEF e
  <2>4. Heard(l) = {e.type}
    BY <2>2 DEF Heard
  <2> QED BY <2>1, <2>3, <2>4
<1> QED BY <1>2, <1>3

\* Nothing is announced of what has nothing pending, and nothing else is.
LEMMA EventsPending ==
  ASSUME NEW c, announced' = BoardEvents(c)
  PROVE  /\ (\A l \in Leaderboards : c.board[l].pending = {}) => announced' = {}
         /\ (\A l \in Leaderboards : "SUBMITTED" \notin c.board[l].pending)
              => \A e \in announced' : e.type # "SUBMITTED"
BY DEF BoardEvents

\* The host is the same in the next state, so what has been found of r is true there.
LEMMA NextRests ==
  ASSUME host' = host, NEW r, Rested(r), Shaped(r), r.board = board', r.trackers = trackers'
  PROVE  Rested(game)'
<1>1. game'.board = r.board /\ game'.trackers = r.trackers /\ game' = r
  BY DEF game, Shaped
<1>2. Core(game, {})'
  <2>1. Core(r, {})
    BY DEF Rested
  <2>2. Typed(game)'
    BY <1>1, <2>1 DEF Core, Typed, BoardRecord, Tracker
  <2>3. (Len(game.trackers) <= Count)'
        /\ (\A l \in Leaderboards : game.board[l].tracker <= Len(game.trackers))'
    BY <1>1, <2>1 DEF Core
  <2>4. (\A i \in DOMAIN game.trackers : game.trackers[i].refs = Cardinality(Users(game, i)))'
    BY <1>1, <2>1 DEF Core, Users
  <2>5. Returners(game, {})'
    BY <1>1, <2>1 DEF Core, Returners
  <2> QED BY <2>2, <2>3, <2>4, <2>5 DEF Core
<1>3. ASSUME NEW l \in Leaderboards
      PROVE  (/\ OwnFormula(game, l) /\ Wired(game.board[l]) /\ Matched(game.board[l])
              /\ Current(game, l, game.board[l].value)
              /\ game.board[l].pending = {})'
  BY <1>1 DEF Rested, OwnFormula, Wired, Matched, Current
<1>4. Agree(game)'
  BY <1>1 DEF Rested, Agree, InAttempt
<1>5. (\A i \in DOMAIN game.trackers : game.trackers[i].pending = {})'
  BY <1>1 DEF Rested
<1> QED BY <1>2, <1>3, <1>4, <1>5 DEF Rested

\* Every call that raises events, and takes nothing out of play but for good.
LEMMA Raises ==
  ASSUME IInv, NEW c, EndsWell(c), RaisePendingEvents(c), host' = host
  PROVE  /\ Rested(game)' /\ Draws
         /\ announced' = BoardEvents(c)
         /\ \A l \in Leaderboards : /\ board'[l].public = c.board[l].public
                                    /\ board'[l].state = c.board[l].state
                                    /\ c.board[l].public \in {"INACTIVE", "ACTIVE",
                                                              "TRACKING", "DISABLED"}
         /\ (\A l \in Leaderboards : c.board[l].pending = {}) => announced' = {}
         /\ (\A l \in Leaderboards : "SUBMITTED" \notin c.board[l].pending)
              => \A e \in announced' : e.type # "SUBMITTED"
<1> DEFINE r == [board |-> board', trackers |-> trackers']
<1>1. host \in Hosts
  BY DEF IInv
<1>2. Quieted(c, r) /\ Shaped(r) /\ r.board = board' /\ r.trackers = trackers'
  BY DEF RaisePendingEvents, Quieted, Shaped
<1> HIDE DEF r
<1>3. /\ Rested(r)
      /\ \A l \in Leaderboards : /\ r.board[l].public = c.board[l].public
                                 /\ r.board[l].state = c.board[l].state
  BY <1>1, <1>2, RaisedRests
<1>4. Rested(game)'
  BY <1>2, <1>3, NextRests
<1>5. announced' = BoardEvents(c)
  BY DEF RaisePendingEvents
<1>6. /\ (\A l \in Leaderboards : c.board[l].pending = {}) => announced' = {}
      /\ (\A l \in Leaderboards : "SUBMITTED" \notin c.board[l].pending)
           => \A e \in announced' : e.type # "SUBMITTED"
  BY <1>5, EventsPending
<1>7. ASSUME NEW l \in Leaderboards
      PROVE  c.board[l].public \in {"INACTIVE", "ACTIVE", "TRACKING", "DISABLED"}
  <2>1. PICK done : Core(c, done)
    BY DEF EndsWell
  <2>2. c.board[l] \in BoardRecord
    BY <2>1, Pointing
  <2> QED BY <2>2 DEF BoardRecord
<1>8. Draws
  BY CallDraws
<1> QED BY <1>2, <1>3, <1>4, <1>5, <1>6, <1>7, <1>8

\* What has been saved remains: no leaderboard comes back that has been disabled.
LEMMA SavedRemains ==
  ASSUME SavedAgree, host' = host, saved' = saved,
         \A l \in Leaderboards : board'[l].public # "DISABLED" => board[l].public # "DISABLED"
  PROVE  SavedAgree'
BY DEF SavedAgree

\* What is listed remains, and no leaderboard comes back.
LEMMA ListedRemains ==
  ASSUME ListedPlayed, listed' = listed, NEW c,
         \A l \in Leaderboards : /\ board'[l].public = c.board[l].public
                                 /\ Follows(board[l], c.board[l])
  PROVE  ListedPlayed'
BY DEF ListedPlayed, Follows

\* A call that ends well and activates nothing.
LEMMA Continues ==
  ASSUME IInv, NEW c, EndsWell(c), RaisePendingEvents(c),
         \A l \in Leaderboards : Follows(board[l], c.board[l]),
         ~Allowed(hardcore) => \A l \in Leaderboards : "SUBMITTED" \notin c.board[l].pending,
         UNCHANGED <<host, listed, hardcore, saved>>
  PROVE  /\ IInv' /\ Draws
         /\ announced' = BoardEvents(c)
         /\ \A l \in Leaderboards : /\ board'[l].public = c.board[l].public
                                    /\ board'[l].state = c.board[l].state
         /\ (\A l \in Leaderboards : c.board[l].pending = {}) => announced' = {}
<1>1. /\ Rested(game)' /\ Draws
      /\ announced' = BoardEvents(c)
      /\ \A l \in Leaderboards : board'[l].state = c.board[l].state
      /\ (\A l \in Leaderboards : c.board[l].pending = {}) => announced' = {}
      /\ \A l \in Leaderboards : /\ board'[l].public = c.board[l].public
                                 /\ c.board[l].public \in {"INACTIVE", "ACTIVE",
                                                           "TRACKING", "DISABLED"}
      /\ (\A l \in Leaderboards : "SUBMITTED" \notin c.board[l].pending)
           => \A e \in announced' : e.type # "SUBMITTED"
  BY Raises
<1>2. /\ host \in Hosts /\ hardcore \in BOOLEAN
      /\ ListedPlayed /\ SavedAgree /\ SoftcoreQuiet /\ Intact
  BY DEF IInv
<1>3. ListedPlayed'
  BY <1>1, <1>2, ListedRemains
<1>4. SavedAgree'
  <2>1. \A l \in Leaderboards : board'[l].public # "DISABLED" => board[l].public # "DISABLED"
    BY <1>1 DEF Follows
  <2> QED BY <1>2, <2>1, SavedRemains
<1>5. SoftcoreQuiet'
  <2> SUFFICES ASSUME ~Allowed(hardcore)
               PROVE  /\ \A l \in Leaderboards : board'[l].public \in {"INACTIVE", "DISABLED"}
                      /\ \A e \in announced' : e.type # "SUBMITTED"
    BY DEF SoftcoreQuiet, Allowed
  <2>1. \A l \in Leaderboards : board[l].public \in {"INACTIVE", "DISABLED"}
    BY <1>2 DEF SoftcoreQuiet
  <2>2. \A l \in Leaderboards : board'[l].public \in {"INACTIVE", "DISABLED"}
    BY <1>1, <2>1 DEF Follows
  <2> QED BY <1>1, <2>2
<1>6. Intact'
  BY <1>1, <1>2 DEF Intact, Follows
<1> QED BY <1>1, <1>2, <1>3, <1>4, <1>5, <1>6 DEF IInv

\* rc_client_do_frame.
LEMMA FrameStep ==
  ASSUME IInv, DoFrame
  PROVE  /\ IInv' /\ Draws
         /\ \A l \in Leaderboards :
              /\ Heard(l) = News(board[l], board'[l])
              /\ Heard(l) # {} =>
                   board[l].state = IF board[l].public = "TRACKING" THEN "STARTED" ELSE "ACTIVE"
<1>1. PICK failing \in IF host.fails THEN SUBSET Leaderboards ELSE {{}},
           true \in [Leaderboards -> SUBSET {"start", "cancel", "submit"}],
           memory \in [Range(host.formula) -> 0 .. host.values] :
        RaisePendingEvents(IF Allowed(hardcore)
                           THEN Played(Invalidated(game, failing), true, memory)
                           ELSE Invalidated(game, failing))
  BY Zenon DEF DoFrame, Played
<1> DEFINE c == Invalidated(game, failing)
           r == IF Allowed(hardcore) THEN Played(c, true, memory) ELSE c
<1>2. /\ EndsWell(r)
      /\ \A l \in Leaderboards : Follows(board[l], r.board[l])
      /\ \A l \in Leaderboards : Tells(board[l], r.board[l])
      /\ ~Allowed(hardcore) => \A l \in Leaderboards : r.board[l].pending = {}
  <2> HIDE DEF c
  <2>1. c = Invalidated(game, failing)
    BY DEF c
  <2>2. host.fails \/ failing = {}
    OBVIOUS
  <2> QED BY <2>1, <2>2, FrameEnds
<1>3. RaisePendingEvents(r) /\ UNCHANGED <<host, listed, hardcore, saved>>
  BY <1>1 DEF DoFrame
<1> HIDE DEF r
<1>4. ~Allowed(hardcore) => \A l \in Leaderboards : "SUBMITTED" \notin r.board[l].pending
  BY <1>2
<1>5. /\ IInv' /\ Draws
      /\ announced' = BoardEvents(r)
      /\ \A l \in Leaderboards : /\ board'[l].public = r.board[l].public
                                 /\ board'[l].state = r.board[l].state
  BY <1>2, <1>3, <1>4, Continues
<1>6. ASSUME NEW l \in Leaderboards
      PROVE  /\ Heard(l) = News(board[l], board'[l])
             /\ Heard(l) # {} =>
                  board[l].state = IF board[l].public = "TRACKING" THEN "STARTED" ELSE "ACTIVE"
  <2>1. News(board[l], board'[l]) = News(board[l], r.board[l])
    BY <1>5 DEF News
  <2>2. Tells(board[l], r.board[l])
    BY <1>2
  <2>3. r.board[l].pending \in {{}, {"STARTED"}, {"FAILED"}, {"SUBMITTED"}}
    BY <2>2 DEF Tells, News
  <2>4. Heard(l) = r.board[l].pending
    BY <1>5, <2>3, EventsHeard
  <2> QED BY <2>1, <2>2, <2>4 DEF Tells
<1> QED BY <1>5, <1>6

\* rc_client_reset, with its events.
LEMMA ResetStep ==
  ASSUME IInv, Reset
  PROVE  IInv' /\ Draws /\ announced' = {}
<1> DEFINE r == ResetBoards(game)
<1>1. /\ EndsWell(r)
      /\ \A l \in Leaderboards : Follows(board[l], r.board[l]) /\ r.board[l].pending = {}
  BY ResetEnds
<1>2. RaisePendingEvents(r) /\ UNCHANGED <<host, listed, hardcore, saved>>
  BY DEF Reset
<1> HIDE DEF r
<1>3. \A l \in Leaderboards : "SUBMITTED" \notin r.board[l].pending
  BY <1>1
<1> QED BY <1>1, <1>2, <1>3, Continues

\* rc_client_deserialize_progress.
LEMMA DeserializeStep ==
  ASSUME IInv, Deserialize
  PROVE  IInv' /\ Draws /\ announced' = {}
<1> DEFINE c == BeforeDeserialize(game)
<1>1. PICK r : RaisePendingEvents(AfterDeserialize(r)) /\ RestoreAt(r, 0)
  <2>1. c = BeforeDeserialize(game)
    OBVIOUS
  <2>2. \/ RaisePendingEvents(AfterDeserialize(ResetBoards(c)))
        \/ RaisePendingEvents(AfterDeserialize(RuntimeReset(c)))
        \/ \E s \in saved : RaisePendingEvents(AfterDeserialize(Restored(c, s)))
    BY Zenon DEF Deserialize
  <2> HIDE DEF c
  <2>3. CASE RaisePendingEvents(AfterDeserialize(ResetBoards(c)))
    BY <2>1, <2>3, ResetRestores
  <2>4. CASE RaisePendingEvents(AfterDeserialize(RuntimeReset(c)))
    BY <2>1, <2>4, RuntimeResetRestores
  <2>5. CASE \E s \in saved : RaisePendingEvents(AfterDeserialize(Restored(c, s)))
    BY <2>1, <2>5, SavedRestores
  <2> QED BY <2>2, <2>3, <2>4, <2>5
<1>2. /\ EndsWell(AfterDeserialize(r))
      /\ \A l \in Leaderboards : /\ Follows(board[l], AfterDeserialize(r).board[l])
                                 /\ AfterDeserialize(r).board[l].pending = {}
  <2>1. host \in Hosts
    BY DEF IInv
  <2> QED BY <1>1, <2>1, RestoreEnds
<1>3. \A l \in Leaderboards : "SUBMITTED" \notin AfterDeserialize(r).board[l].pending
  BY <1>2
<1>4. UNCHANGED <<host, listed, hardcore, saved>>
  BY DEF Deserialize
<1> QED BY <1>1, <1>2, <1>3, <1>4, Continues

\* rc_client_disable_hardcore, with its events.
LEMMA DisableStep ==
  ASSUME IInv, DisableHardcore
  PROVE  IInv' /\ Draws /\ announced' = {}
<1>1. /\ hardcore' = FALSE /\ host' = host /\ saved' = saved
      /\ listed' = IF host.softcore THEN listed ELSE {}
      /\ RaisePendingEvents(IF host.softcore THEN game ELSE Deactivated(game))
  BY DEF DisableHardcore
<1>2. /\ host \in Hosts /\ ListedPlayed /\ SavedAgree /\ Intact
  BY DEF IInv
<1>3. CASE host.softcore
  <2>1. EndsWell(game) /\ RaisePendingEvents(game)
    BY <1>1, <1>3, RestEnds
  <2>2. /\ game.board = board
        /\ \A l \in Leaderboards : board[l].pending = {}
    BY GameAtRest
  <2>3. /\ Rested(game)' /\ Draws
        /\ announced' = {}
        /\ \A l \in Leaderboards : board'[l].public = game.board[l].public
    BY <1>1, <2>1, <2>2, Raises
  <2>4. \A l \in Leaderboards : Follows(board[l], game.board[l])
    BY <2>2 DEF Follows
  <2>5. ListedPlayed'
    BY <1>1, <1>2, <1>3, <2>3, <2>4, ListedRemains
  <2>6. SavedAgree'
    BY <1>1, <1>2, <2>2, <2>3, SavedRemains
  <2>7. SoftcoreQuiet'
    BY <1>1, <1>3 DEF SoftcoreQuiet, Allowed
  <2>8. Intact'
    BY <1>1, <1>2, <2>2, <2>3 DEF Intact
  <2> QED BY <1>1, <1>2, <2>3, <2>5, <2>6, <2>7, <2>8 DEF IInv
<1>4. CASE ~host.softcore
  <2> DEFINE r == Deactivated(game)
  <2>1. RaisePendingEvents(r)
    BY <1>1, <1>4
  <2>2. /\ EndsWell(r)
        /\ \A l \in Leaderboards :
             /\ r.board[l].public \in {"INACTIVE", "DISABLED"}
             /\ r.board[l].public = "DISABLED" <=> board[l].public = "DISABLED"
             /\ r.board[l].pending = {}
    BY StopEnds
  <2> HIDE DEF r
  <2>3. /\ Rested(game)' /\ Draws
        /\ announced' = {}
        /\ \A l \in Leaderboards : board'[l].public = r.board[l].public
        /\ (\A l \in Leaderboards : "SUBMITTED" \notin r.board[l].pending)
             => \A e \in announced' : e.type # "SUBMITTED"
    BY <1>1, <2>1, <2>2, Raises
  <2>4. listed' = {}
    BY <1>1, <1>4
  <2>5. ListedPlayed'
    BY <2>2, <2>3, <2>4 DEF ListedPlayed
  <2>6. SavedAgree'
    BY <1>1, <1>2, <2>2, <2>3, SavedRemains
  <2>7. \A e \in announced' : e.type # "SUBMITTED"
    BY <2>2, <2>3
  <2>8. SoftcoreQuiet'
    BY <2>2, <2>3, <2>7 DEF SoftcoreQuiet
  <2>9. Intact'
    BY <1>1, <1>2, <2>2, <2>3 DEF Intact
  <2> QED BY <1>1, <1>2, <2>3, <2>5, <2>6, <2>8, <2>9 DEF IInv
<1> QED BY <1>3, <1>4

\* rc_client_enable_hardcore: what was inactive waits, and attempts go on.
LEMMA EnableStep ==
  ASSUME IInv, EnableHardcore
  PROVE  IInv'
<1> DEFINE fresh(b) == [ResetBoard(b) EXCEPT !.public = "ACTIVE"]
           r == [board |-> board', trackers |-> trackers']
<1>1. /\ host' = host /\ trackers' = trackers /\ saved' = saved /\ announced' = announced
      /\ hardcore' = TRUE
      /\ board' = [l \in Leaderboards |->
                     IF board[l].public = "INACTIVE" THEN fresh(board[l]) ELSE board[l]]
      /\ listed' = {l \in Leaderboards : board'[l].public \in {"ACTIVE", "TRACKING"}}
  BY DEF EnableHardcore
<1>2. /\ host \in Hosts /\ game.board = board /\ game.trackers = trackers
      /\ Core(game, {}) /\ Agree(game)
      /\ \A l \in Leaderboards :
              /\ OwnFormula(game, l) /\ Wired(board[l]) /\ Matched(board[l])
              /\ Current(game, l, board[l].value)
              /\ board[l].pending = {} /\ board[l] \in BoardRecord
  BY GameAtRest
<1>3. \A i \in DOMAIN trackers : trackers[i].pending = {}
  BY <1>2 DEF IInv, Rested
<1>4. Shaped(r) /\ r.board = board' /\ r.trackers = trackers'
  BY DEF Shaped
<1> HIDE DEF r
<1>5. ASSUME NEW b \in BoardRecord
      PROVE  /\ fresh(b) \in BoardRecord /\ fresh(b).public = "ACTIVE"
             /\ fresh(b).state = "WAITING" /\ fresh(b).tracker = b.tracker
             /\ fresh(b).pending = b.pending
  <2>1. fresh(b) \in BoardRecord
    BY <1>2, ResetRecord
  <2> QED BY <2>1 DEF ResetBoard, BoardRecord
<1> HIDE DEF fresh
<1>6. ASSUME NEW l \in Leaderboards
      PROVE  /\ r.board[l] \in BoardRecord /\ r.board[l].tracker = board[l].tracker
             /\ r.board[l].pending = {}
             /\ \/ r.board[l] = board[l] /\ board[l].public # "INACTIVE"
                \/ /\ board[l].public = "INACTIVE"
                   /\ r.board[l].public = "ACTIVE" /\ r.board[l].state = "WAITING"
  <2>1. CASE board[l].public = "INACTIVE"
    <3>1. r.board[l] = fresh(board[l])
      BY <1>1, <1>4, <2>1
    <3> QED BY <1>2, <1>5, <2>1, <3>1
  <2>2. CASE board[l].public # "INACTIVE"
    <3>1. r.board[l] = board[l]
      BY <1>1, <1>4, <2>2
    <3> QED BY <1>2, <2>2, <3>1
  <2> QED BY <2>1, <2>2
<1>7. r.board \in [Leaderboards -> BoardRecord]
  BY <1>1, <1>4, <1>6
<1>8. Core(r, {}) /\ \A l \in Leaderboards : OwnFormula(r, l)
  BY <1>1, <1>2, <1>4, <1>6, <1>7, Kept
<1>9. ASSUME NEW l \in Leaderboards
      PROVE  /\ Wired(r.board[l]) /\ Matched(r.board[l]) /\ Current(r, l, r.board[l].value)
  <2>1. Wired(board[l]) /\ Matched(board[l]) /\ Current(game, l, board[l].value)
    BY <1>2
  <2>2. CASE r.board[l] = board[l]
    BY <1>1, <1>2, <1>4, <2>1, <2>2 DEF Current
  <2>3. CASE board[l].public = "INACTIVE" /\ r.board[l].public = "ACTIVE"
             /\ r.board[l].state = "WAITING"
    BY <1>6, <2>1, <2>3 DEF Wired, Matched, Current, Live
  <2> QED BY <1>6, <2>2, <2>3
<1>10. Agree(r)
  <2>1. \A l \in Leaderboards : InAttempt(r.board[l]) => r.board[l] = game.board[l]
    BY <1>2, <1>6 DEF InAttempt
  <2> QED BY <1>2, <2>1 DEF Agree
<1>11. Rested(r)
  BY <1>1, <1>3, <1>4, <1>6, <1>8, <1>9, <1>10 DEF Rested
<1>12. Rested(game)'
  BY <1>1, <1>4, <1>11, NextRests
<1>13. ListedPlayed'
  <2>1. \A l \in Leaderboards : board'[l].public # "INACTIVE"
    BY <1>4, <1>6
  <2> QED BY <1>1, <2>1 DEF ListedPlayed
<1>14. SavedAgree'
  <2>1. SavedAgree /\ \A l \in Leaderboards :
                        board'[l].public # "DISABLED" => board[l].public # "DISABLED"
    BY <1>4, <1>6 DEF IInv
  <2> QED BY <1>1, <2>1, SavedRemains
<1>15. SoftcoreQuiet'
  BY <1>1 DEF SoftcoreQuiet, Allowed
<1>16. Intact'
  <2>1. Intact /\ \A l \in Leaderboards :
                   board'[l].public = "DISABLED" => board[l].public = "DISABLED"
    BY <1>4, <1>6 DEF IInv
  <2> QED BY <1>1, <2>1 DEF Intact
<1> QED BY <1>1, <1>2, <1>12, <1>13, <1>14, <1>15, <1>16 DEF IInv

\* What is saved are attempts that agree.
LEMMA SerializeStep ==
  ASSUME IInv, Serialize
  PROVE  IInv'
<1>1. /\ host' = host /\ board' = board /\ trackers' = trackers /\ listed' = listed
      /\ hardcore' = hardcore /\ announced' = announced
      /\ saved' = {[l \in {k \in listed : LboardActive(board[k].state)} |->
                      [state |-> board[l].state, value |-> board[l].value]]}
  BY DEF Serialize
<1>2. /\ host \in Hosts /\ hardcore \in BOOLEAN /\ ListedPlayed /\ SoftcoreQuiet /\ Intact
      /\ game.board = board /\ Rested(game) /\ Agree(game)
      /\ \A l \in Leaderboards : board[l] \in BoardRecord
  BY GameAtRest DEF IInv
<1>3. Rested(game)' /\ ListedPlayed' /\ SoftcoreQuiet' /\ Intact'
  <2>1. Shaped(game) /\ game.board = board /\ game.trackers = trackers
    BY DEF game, Shaped
  <2>2. Rested(game)'
    BY <1>1, <1>2, <2>1, NextRests
  <2>3. ListedPlayed'
    BY <1>1, <1>2 DEF ListedPlayed
  <2>4. SoftcoreQuiet'
    BY <1>1, <1>2 DEF SoftcoreQuiet, Allowed
  <2>5. Intact'
    BY <1>1, <1>2 DEF Intact
  <2> QED BY <2>2, <2>3, <2>4, <2>5
<1>4. ASSUME NEW s \in saved'
      PROVE  /\ DOMAIN s \subseteq Leaderboards
             /\ \A l \in DOMAIN s :
                  /\ l \in listed /\ s[l].state = board[l].state /\ s[l].value = board[l].value
                  /\ LboardActive(board[l].state)
  BY <1>1, <1>2 DEF ListedPlayed
<1>5. ASSUME NEW s \in saved', NEW l \in DOMAIN s
      PROVE  /\ l \in Leaderboards /\ s[l].state \in Live /\ s[l].value \in 0 .. host.values
             /\ s[l].state = "STARTED" /\ board[l].public # "DISABLED" => InAttempt(board[l])
  <2>1. /\ l \in Leaderboards /\ l \in listed /\ LboardActive(board[l].state)
        /\ s[l].state = board[l].state /\ s[l].value = board[l].value
    BY <1>4
  <2>2. /\ board[l].state \in LboardStates /\ board[l].value \in 0 .. host.values
        /\ board[l].public \in {"INACTIVE", "ACTIVE", "TRACKING", "DISABLED"}
    BY <1>2, <2>1 DEF BoardRecord
  <2>3. board[l].public # "INACTIVE"
    BY <1>2, <2>1 DEF ListedPlayed
  <2> QED BY <2>1, <2>2, <2>3 DEF LboardActive, LboardStates, Live, InAttempt
<1>6. ASSUME NEW s \in saved', NEW l \in DOMAIN s, NEW m \in DOMAIN s,
             s[l].state = "STARTED", s[m].state = "STARTED",
             board[l].public # "DISABLED", board[m].public # "DISABLED",
             host.formula[l] = host.formula[m], host.formula[l] \notin FromHits
      PROVE  s[l].value = s[m].value
  <2>1. /\ l \in Leaderboards /\ m \in Leaderboards
        /\ InAttempt(board[l]) /\ InAttempt(board[m])
    BY <1>5, <1>6
  <2>2. board[l].value = board[m].value
    BY <1>2, <1>6, <2>1 DEF Agree
  <2> QED BY <1>4, <2>2
<1>7. SavedAgree'
  <2>1. \A s \in saved' : \A l \in DOMAIN s :
          l \in Leaderboards /\ s[l].state \in Live /\ s[l].value \in 0 .. host.values
    BY <1>5
  <2>2. \A s \in saved' : \A l \in DOMAIN s, m \in DOMAIN s :
          /\ s[l].state = "STARTED" /\ s[m].state = "STARTED"
          /\ board[l].public # "DISABLED" /\ board[m].public # "DISABLED"
          /\ host.formula[l] = host.formula[m] /\ host.formula[l] \notin FromHits
          => s[l].value = s[m].value
    BY <1>6
  <2>3. /\ (\A s \in saved : \A l \in DOMAIN s :
          l \in Leaderboards /\ s[l].state \in Live /\ s[l].value \in 0 .. host.values)'
        /\ (\A s \in saved : \A l \in DOMAIN s, m \in DOMAIN s :
          /\ s[l].state = "STARTED" /\ s[m].state = "STARTED"
          /\ board[l].public # "DISABLED" /\ board[m].public # "DISABLED"
          /\ host.formula[l] = host.formula[m] /\ host.formula[l] \notin FromHits
          => s[l].value = s[m].value)'
    BY <1>1, <2>1, <2>2
  <2> QED BY <2>3 DEF SavedAgree
<1> QED BY <1>1, <1>2, <1>3, <1>7 DEF IInv

\* A game that has just been loaded.
LEMMA LoadedRests ==
  ASSUME host \in Hosts, NEW h \in BOOLEAN, NEW r, Shaped(r), r.board = Loaded(h),
         r.trackers = <<>>
  PROVE  Rested(r)
<1>1. /\ r.board \in [Leaderboards -> BoardRecord]
      /\ \A l \in Leaderboards :
           /\ r.board[l].tracker = 0 /\ r.board[l].state = "WAITING" /\ r.board[l].pending = {}
           /\ r.board[l].public \in {"INACTIVE", "ACTIVE"}
  <2>1. 0 \in 0 .. host.values /\ 0 \in 0 .. Count /\ "WAITING" \in LboardStates
    BY HostTyped, LeaderboardAssumption DEF LboardStates
  <2> QED BY <2>1 DEF Loaded, NewBoard, BoardRecord
<1>2. Core(r, {})
  <2>3. r.trackers \in Seq(Tracker) /\ Len(r.trackers) = 0
    OBVIOUS
  <2>4. DOMAIN r.trackers = 1 .. 0
    BY <2>3, LenProperties
  <2>5. DOMAIN r.trackers = {} /\ Count \in Nat
    BY <2>4, LeaderboardAssumption
  <2>6. Typed(r)
    BY <1>1, <2>3 DEF Typed, Shaped
  <2>1. Typed(r) /\ Len(r.trackers) = 0 /\ DOMAIN r.trackers = {} /\ Count \in Nat
    BY <2>3, <2>5, <2>6
  <2>2. Returners(r, {})
    <3>1. [l \in Leaderboards |-> 0] \in [Leaderboards -> Nat]
      OBVIOUS
    <3> QED BY <2>1, <3>1 DEF Returners
  <2> QED BY <1>1, <2>1, <2>2 DEF Core
<1>3. \A l \in Leaderboards :
        /\ OwnFormula(r, l) /\ Wired(r.board[l]) /\ Matched(r.board[l])
        /\ Current(r, l, r.board[l].value) /\ ~InAttempt(r.board[l])
  BY <1>1 DEF OwnFormula, Wired, Matched, Current, InAttempt, Live
<1>4. Agree(r)
  BY <1>3 DEF Agree
<1> QED BY <1>1, <1>2, <1>3, <1>4 DEF Rested

\* A game that has just been loaded waits, or is inactive in softcore.
LEMMA LoadedListed ==
  ASSUME host \in Hosts, NEW h \in BOOLEAN, NEW l \in Leaderboards
  PROVE  /\ Allowed(h) => Loaded(h)[l].public = "ACTIVE"
         /\ ~Allowed(h) => Loaded(h)[l].public = "INACTIVE"
BY DEF Loaded, NewBoard

\* rc_client_unload_game.
LEMMA UnloadStep ==
  ASSUME IInv, Unload
  PROVE  IInv' /\ Draws
<1> DEFINE r == [board |-> Loaded(hardcore), trackers |-> <<>>]
<1>1. /\ host' = host /\ hardcore' = hardcore /\ announced' = announced /\ announced = {}
      /\ board' = Loaded(hardcore) /\ trackers' = <<>> /\ saved' = {}
      /\ listed' = IF Allowed(hardcore) THEN Leaderboards ELSE {}
  BY DEF Unload
<1>2. host \in Hosts /\ hardcore \in BOOLEAN
  BY DEF IInv
<1>3. Shaped(r) /\ r.board = board' /\ r.trackers = trackers'
      /\ r.board = Loaded(hardcore) /\ r.trackers = <<>>
  BY <1>1 DEF Shaped
<1> HIDE DEF r
<1>4. Rested(game)'
  <2>1. Rested(r)
    BY <1>2, <1>3, LoadedRests
  <2> QED BY <1>1, <1>3, <2>1, NextRests
<1>5. \A l \in Leaderboards :
         /\ Allowed(hardcore) => board'[l].public = "ACTIVE"
         /\ ~Allowed(hardcore) => board'[l].public = "INACTIVE"
  BY <1>1, <1>2, LoadedListed
<1>6. ListedPlayed'
  <2>1. CASE Allowed(hardcore)
    BY <1>1, <1>5, <2>1 DEF ListedPlayed
  <2>2. CASE ~Allowed(hardcore)
    BY <1>1, <1>5, <2>2 DEF ListedPlayed
  <2> QED BY <2>1, <2>2
<1>7. SavedAgree'
  BY <1>1 DEF SavedAgree
<1>8. SoftcoreQuiet'
  BY <1>1, <1>5 DEF SoftcoreQuiet, Allowed
<1>9. Intact'
  BY <1>5 DEF Intact
<1>10. Draws
  <2> SUFFICES ASSUME raised = <<>>, ~host.fails PROVE Overlay!Call
    BY DEF Draws
  <2> DEFINE c == Unloaded(game)
  <2>1. raised' = TrackerEvents(c)
    BY Zenon DEF Unload, Unloaded
  <2>2. /\ Core(c, Leaderboards) /\ Drawable(c)
        /\ \A i \in DOMAIN c.trackers : ~(c.trackers[i].refs > 0)
    BY UnloadEnds
  <2> HIDE DEF c
  <2>3. {i \in DOMAIN trackers' : trackers'[i].refs > 0}
          = {i \in DOMAIN c.trackers : c.trackers[i].refs > 0}
    BY <1>1, <2>2
  <2> QED BY <1>1, <2>1, <2>2, <2>3, OverlayCall
<1> QED BY <1>1, <1>2, <1>4, <1>6, <1>7, <1>8, <1>9, <1>10 DEF IInv

\* The game that is loaded first.
LEMMA Begins ==
  ASSUME Init
  PROVE  IInv
<1>1. /\ host \in Hosts /\ hardcore \in BOOLEAN
      /\ board = Loaded(hardcore) /\ trackers = <<>> /\ saved = {} /\ announced = {}
      /\ listed = IF Allowed(hardcore) THEN Leaderboards ELSE {}
  BY DEF Init
<1>2. Rested(game)
  <2>1. Shaped(game) /\ game.board = Loaded(hardcore) /\ game.trackers = <<>>
    BY <1>1 DEF Shaped, game
  <2> QED BY <1>1, <2>1, LoadedRests
<1>3. \A l \in Leaderboards :
         /\ Allowed(hardcore) => board[l].public = "ACTIVE"
         /\ ~Allowed(hardcore) => board[l].public = "INACTIVE"
  BY <1>1, LoadedListed
<1>4. ListedPlayed
  <2>1. CASE Allowed(hardcore)
    BY <1>1, <1>3, <2>1 DEF ListedPlayed
  <2>2. CASE ~Allowed(hardcore)
    BY <1>1, <1>3, <2>2 DEF ListedPlayed
  <2> QED BY <2>1, <2>2
<1>5. SavedAgree
  BY <1>1 DEF SavedAgree
<1>6. SoftcoreQuiet
  BY <1>1, <1>3 DEF SoftcoreQuiet, Allowed
<1>7. Intact
  BY <1>1, <1>3 DEF Intact
<1> QED BY <1>1, <1>2, <1>4, <1>5, <1>6, <1>7 DEF IInv

\* The events are handled, or nothing happens.
LEMMA QuietStep ==
  ASSUME IInv, Handled \/ UNCHANGED vars
  PROVE  IInv'
<1>1. /\ host' = host /\ board' = board /\ trackers' = trackers /\ listed' = listed
      /\ hardcore' = hardcore /\ saved' = saved /\ announced' \subseteq announced
  BY DEF Handled, vars
<1>2. /\ host \in Hosts /\ hardcore \in BOOLEAN
      /\ ListedPlayed /\ SoftcoreQuiet /\ SavedAgree /\ Intact
      /\ Rested(game)
  BY DEF IInv
<1>3. Rested(game)'
  <2>1. Shaped(game) /\ game.board = board /\ game.trackers = trackers
    BY DEF game, Shaped
  <2> QED BY <1>1, <1>2, <2>1, NextRests
<1>4. ListedPlayed'
  BY <1>1, <1>2 DEF ListedPlayed
<1>5. SavedAgree'
  BY <1>1, <1>2, SavedRemains
<1>6. SoftcoreQuiet'
  BY <1>1, <1>2 DEF SoftcoreQuiet, Allowed
<1>7. Intact'
  BY <1>1, <1>2 DEF Intact
<1> QED BY <1>1, <1>2, <1>3, <1>4, <1>5, <1>6, <1>7 DEF IInv

-----------------------------------------------------------------------------
(* The theorems.                                                             *)

\* The invariant holds in every state.
LEMMA Inductive ==
  Spec => []IInv
<1>1. IInv /\ [Next]_vars => IInv'
  <2> SUFFICES ASSUME IInv, [Next]_vars PROVE IInv'
    OBVIOUS
  <2>1. CASE DoFrame
    BY <2>1, FrameStep
  <2>2. CASE Reset
    BY <2>2, ResetStep
  <2>3. CASE EnableHardcore
    BY <2>3, EnableStep
  <2>4. CASE DisableHardcore
    BY <2>4, DisableStep
  <2>5. CASE Serialize
    BY <2>5, SerializeStep
  <2>6. CASE Deserialize
    BY <2>6, DeserializeStep
  <2>7. CASE Unload
    BY <2>7, UnloadStep
  <2>8. CASE Handled \/ UNCHANGED vars
    BY <2>8, QuietStep
  <2> QED BY <2>1, <2>2, <2>3, <2>4, <2>5, <2>6, <2>7, <2>8 DEF Next
<1> QED BY <1>1, Begins, PTL DEF Spec

\* The variables have their types, whatever is shared, released and claimed.
THEOREM TypeInvariant == Spec => []TypeOK
<1>1. IInv => TypeOK
  <2> SUFFICES ASSUME IInv PROVE TypeOK
    OBVIOUS
  <2>1. host \in Hosts /\ listed \subseteq Leaderboards
    BY DEF IInv, ListedPlayed
  <2>2. board \in [Leaderboards -> BoardRecord] /\ trackers \in Seq(Tracker)
    BY GameAtRest DEF States
  <2> QED BY <2>1, <2>2 DEF TypeOK, BoardRecord
<1> QED BY <1>1, Inductive, PTL

\* A tracker is referred to as often as it is counted, an attempt in progress has one,
\* no other leaderboard has (except one disabled in the middle of an attempt), and there
\* are never more trackers than leaderboards.
THEOREM ReferencesAreCounted == Spec => []ReferencesCounted
<1>1. IInv /\ TypeOK => ReferencesCounted
  <2> SUFFICES ASSUME IInv, TypeOK PROVE ReferencesCounted
    OBVIOUS
  <2>1. /\ game.board = board /\ game.trackers = trackers /\ Core(game, {})
        /\ \A l \in Leaderboards : Wired(board[l]) /\ Matched(board[l])
    BY GameAtRest
  <2>2. /\ Len(trackers) <= Count
        /\ \A i \in DOMAIN trackers : trackers[i].refs = Cardinality(Users(game, i))
    BY <2>1 DEF Core
  <2>3. \A i : Users(game, i) = {l \in Leaderboards : board[l].tracker = i}
    BY <2>1 DEF Users
  <2>4. \A i \in DOMAIN trackers :
          trackers[i].refs = Cardinality({l \in Leaderboards : board[l].tracker = i})
    BY <2>2, <2>3
  <2>5. ASSUME NEW l \in Leaderboards
        PROVE  /\ board[l].public = "TRACKING" => board[l].tracker # 0
               /\ board[l].tracker # 0 => board[l].public \in {"TRACKING", "DISABLED"}
               /\ board[l].public \in {"ACTIVE", "TRACKING"} =>
                    (board[l].public = "TRACKING" <=> board[l].state = "STARTED")
    BY <2>1 DEF Wired, Matched
  <2> QED BY <2>2, <2>4, <2>5 DEF ReferencesCounted
<1> QED BY <1>1, Inductive, TypeInvariant, PTL

\* The tracker of an attempt shows its value, whoever shares it, unless the value
\* counts hits.
ReadingsShown ==
  \A l \in Leaderboards :
    board[l].public = "TRACKING" /\ host.formula[l] \notin FromHits =>
      trackers[board[l].tracker].raw = board[l].value

\* What is read from memory is what the tracker of an attempt shows.
THEOREM ReadingsAreShown == Spec => []ReadingsShown
<1>1. IInv => ReadingsShown
  <2> SUFFICES ASSUME IInv, NEW l \in Leaderboards,
                      board[l].public = "TRACKING", host.formula[l] \notin FromHits
               PROVE  trackers[board[l].tracker].raw = board[l].value
    BY DEF ReadingsShown
  <2>1. game.board = board /\ game.trackers = trackers /\ Current(game, l, board[l].value)
    BY GameAtRest
  <2> QED BY <2>1 DEF Current
<1> QED BY <1>1, Inductive, PTL

\* In a game where no value counts hits, every tracker shows the value of its attempts.
THEOREM TrackersShowValues ==
  ASSUME FromHits = {}
  PROVE  Spec => []TrackerShowsValue
<1>1. ReadingsShown => TrackerShowsValue
  BY DEF ReadingsShown, TrackerShowsValue
<1> QED BY <1>1, ReadingsAreShown, PTL

\* In softcore no leaderboard is attempted or submitted, unless the host allows it.
THEOREM SoftcoreIsIdle == Spec => []SoftcoreIdle
<1>1. IInv => SoftcoreIdle
  BY DEF IInv, SoftcoreQuiet, SoftcoreIdle
<1> QED BY <1>1, Inductive, PTL

\* A frame tells of every attempt that begins, fails or is submitted in it, and of
\* nothing else; no other call announces anything.
THEOREM AttemptsAreAnnounced == Spec => AttemptsAnnounced
<1> DEFINE Announced ==
      LET told(l) == {e.type : e \in {f \in announced' : f.id = l}}
      IN IF BetweenFrames THEN announced' \subseteq announced
         ELSE \A l \in Leaderboards :
                /\ told(l) = News(board[l], board'[l])
                /\ told(l) # {} =>
                     board[l].state = IF board[l].public = "TRACKING" THEN "STARTED"
                                                                      ELSE "ACTIVE"
<1>1. IInv /\ [Next]_vars => [Announced]_vars
  <2> SUFFICES ASSUME IInv, Next PROVE Announced
    OBVIOUS
  <2>1. BetweenFrames => announced' \subseteq announced
    <3>1. CASE Reset \/ DisableHardcore \/ Deserialize
      BY <3>1, ResetStep, DisableStep, DeserializeStep
    <3>2. CASE EnableHardcore \/ Serialize \/ Unload \/ Handled
      BY <3>2 DEF EnableHardcore, Serialize, Unload, Handled
    <3> QED BY <3>1, <3>2 DEF BetweenFrames
  <2>2. ~BetweenFrames => DoFrame
    BY DEF Next, BetweenFrames
  <2> QED BY <2>1, <2>2, FrameStep DEF Heard
<1> QED BY <1>1, Inductive, PTL DEF Spec, AttemptsAnnounced

\* Each call shows and hides the trackers it claims and gives up.
LEMMA OverlayStep ==
  ASSUME IInv, [Next]_vars
  PROVE  [Overlay!Next]_(Overlay!vars)
<1> DEFINE used == IF host.fails THEN {} ELSE {i \in DOMAIN trackers : trackers[i].refs > 0}
           told == IF host.fails THEN <<>> ELSE raised
           Stutter == used' = used /\ told' = told
<1>1. Stutter => [Overlay!Next]_(Overlay!vars)
  BY DEF Overlay!vars
<1>2. host' = host
  BY DEF Next, vars, DoFrame, Handled, Reset, EnableHardcore, DisableHardcore, Serialize,
         Deserialize, Unload
<1>3. CASE host.fails
  <2>1. Stutter
    BY <1>2, <1>3
  <2> HIDE DEF Stutter
  <2> QED BY <1>1, <2>1
<1>4. CASE ~host.fails
  <2>1. CASE UNCHANGED <<trackers, raised>>
    <3>1. Stutter
      BY <1>2, <2>1
    <3> HIDE DEF Stutter
    <3> QED BY <1>1, <3>1
  <2>2. CASE Handled
    <3>1. told' = <<>> /\ used' = used
      BY <1>2, <1>4, <2>2 DEF Handled
    <3>2. Overlay!Handled
      BY <3>1 DEF Overlay!Handled
    <3> QED BY <3>2 DEF Overlay!Next
  <2>3. ASSUME raised = <<>>, Draws PROVE [Overlay!Next]_(Overlay!vars)
    BY <1>4, <2>3 DEF Draws, Overlay!Next
  <2>4. CASE DoFrame
    BY <2>3, <2>4, FrameStep DEF DoFrame
  <2>5. CASE Reset
    BY <2>3, <2>5, ResetStep DEF Reset
  <2>6. CASE DisableHardcore
    BY <2>3, <2>6, DisableStep DEF DisableHardcore
  <2>7. CASE Deserialize
    BY <2>3, <2>7, DeserializeStep DEF Deserialize
  <2>8. CASE Unload
    BY <2>3, <2>8, UnloadStep DEF Unload
  <2>9. CASE EnableHardcore \/ Serialize \/ UNCHANGED vars
    <3>1. UNCHANGED <<trackers, raised>>
      BY <2>9 DEF EnableHardcore, Serialize, vars
    <3> QED BY <2>1, <3>1
  <2> QED BY <2>2, <2>4, <2>5, <2>6, <2>7, <2>8, <2>9 DEF Next
<1> QED BY <1>3, <1>4

\* The tracker events of every call are those of a host's overlay: what is shown was
\* hidden, what is hidden or updated was shown, and a host that handles them in order
\* has on screen the trackers in use, where memory can be read.
THEOREM ImplementsOverlay == Spec => RefinesOverlay
<1>1. Init => Overlay!Init
  <2> SUFFICES ASSUME Init PROVE Overlay!Init
    OBVIOUS
  <2>1. trackers = <<>> /\ raised = <<>>
    BY DEF Init
  <2>2. {i \in DOMAIN trackers : trackers[i].refs > 0} = {}
    BY <2>1
  <2> QED BY <2>1, <2>2 DEF Overlay!Init
<1>2. IInv /\ [Next]_vars => [Overlay!Next]_(Overlay!vars)
  BY OverlayStep
<1> QED BY <1>1, <1>2, Inductive, PTL DEF Spec, RefinesOverlay, Overlay!Spec
=============================================================================
