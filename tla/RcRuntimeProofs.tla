---------------------------- MODULE RcRuntimeProofs ----------------------------
(***************************************************************************)
(* What is proved of RcRuntime, for every host it may have and any number  *)
(* of frames and calls: each frame looks at every item that stays once,    *)
(* its events tell the states, the size that was told suffices for a save, *)
(* and a restore brings back what was saved.                               *)
(*                                                                         *)
(* The inductive invariant RInv says what the lists are, where in them a   *)
(* frame is, that the size told still covers what a save would write, and  *)
(* that the last save is that of the snapshot.  A turn of do_frame, with   *)
(* the deactivations of its handlers, is described once (TurnDone); what a *)
(* step leaves of a list is compared by an injection into the list it was, *)
(* along which sums of sizes do not grow.                                  *)
(***************************************************************************)
EXTENDS RcRuntime, FiniteSetTheorems, SequenceTheorems, WellFoundedInduction, TLAPS

-----------------------------------------------------------------------------
(* The inductive invariant.                                                *)

TriggerStates == {"WAITING", "ACTIVE", "PAUSED", "PRIMED", "TRIGGERED", "DISABLED"}
BoardStates   == {"INACTIVE", "WAITING", "ACTIVE", "STARTED", "CANCELED", "TRIGGERED", "DISABLED"}

\* Events, and the states they tell.
Words == {"WAITING", "ACTIVE", "PAUSED", "PRIMED", "TRIGGERED", "DISABLED", "INACTIVE",
          "STARTED", "CANCELED", "RESET", "PROGRESS_UPDATED", "UPDATED", "UNPRIMED",
          "ACTIVATED"}

AllData == (UNION {d.data : d \in Definitions}) \cup {0}

\* An item of one of some definitions, with the data that definition may have.
Records(defs, states) ==
  [def : defs, state : states, data : AllData, announced : AllData,
   invalid : BOOLEAN, size : Nat]

IsItem(item) == item.data \in item.def.data /\ item.size \in {0, item.def.size}

SameMark(item, other) == item.invalid <=> other.invalid

ItemsOf(defs, states) == {item \in Records(defs, states) : IsItem(item)}

\* A list has one item with an id.
Distinct(items) ==
  \A i, j \in DOMAIN items : items[i].def.id = items[j].def.id => i = j

IsList(items, defs, states) == items \in Seq(ItemsOf(defs, states)) /\ Distinct(items)

IdsOf(items) == {items[i].def.id : i \in DOMAIN items}

\* What the host has followed of a list: each state, or which attempts run.
FollowsTriggers(known, items) ==
  \A i \in DOMAIN items : known[items[i].def.id] = items[i].state

SameAttempt(state, other) == (state = "STARTED") <=> (other = "STARTED")

FollowsBoards(known, items) ==
  \A i \in DOMAIN items : /\ known[items[i].def.id] \in Words
                          /\ SameAttempt(known[items[i].def.id], items[i].state)

Synced(known, ts, bs) ==
  /\ DOMAIN known = IdsOf(ts) \cup IdsOf(bs)
  /\ FollowsTriggers(known, ts)
  /\ FollowsBoards(known, bs)

\* The items above an index have been looked at in this frame, the others not yet.
Seen(seen, items, index) ==
  \A i \in DOMAIN items :
    IF i > index THEN seen[items[i].def.id] = 1 /\ ~items[i].invalid
    ELSE seen[items[i].def.id] = 0

\* What the host was told of the attempts above an index is their value.
ToldAbove(items, index) ==
  \A i \in DOMAIN items :
    i > index /\ items[i].state = "STARTED" => items[i].announced = items[i].data

\* Where a frame is.
Walk ==
  /\ visits \in [Ids -> 0 .. 1]
  /\ loop = "triggers" =>
       at \in 0 .. Len(triggers) /\ Seen(visits, triggers, at) /\ Seen(visits, lboards, Len(lboards))
  /\ loop = "lboards" =>
       at \in 0 .. Len(lboards) /\ Seen(visits, triggers, 0) /\ Seen(visits, lboards, at)
       /\ ToldAbove(lboards, at)
  /\ loop = "richpresence" =>
       Seen(visits, triggers, 0) /\ Seen(visits, lboards, 0) /\ ToldAbove(lboards, 0)

IsScript(rp, scripts) ==
  \/ rp = NoScript
  \/ /\ rp = [script |-> rp.script, values |-> rp.values, conditions |-> rp.conditions]
     /\ rp.script \in scripts
     /\ DOMAIN rp.values = Range(rp.script.names)
     /\ rp.values = [n \in DOMAIN rp.values |-> rp.values[n]]
     /\ rp.script.conditional \/ rp.conditions = 0

\* A list without the items that are not stored, as chunks.
TriggerChunks(items) ==
  {Chunk(s) : s \in {s \in items : s.def \in host.achievements /\ TriggerActive(s.state)}}
BoardChunks(items) ==
  {Chunk(s) : s \in {s \in items : s.def \in host.leaderboards /\ Board!LboardActive(s.state)}}

\* The last save is that of the snapshot.
SavedIsSnapshot ==
  saved = NoSave \/
  /\ snapshot.items \subseteq ItemsOf(host.achievements, TriggerStates)
                              \cup ItemsOf(host.leaderboards, BoardStates)
  /\ \A s, t \in snapshot.items : s.def.id = t.def.id => s = t
  /\ IsScript(snapshot.richpresence, host.scripts)
  /\ saved.items = TriggerChunks(snapshot.items) \cup BoardChunks(snapshot.items)
  /\ LET rp == snapshot.richpresence
     IN  /\ rp # NoScript => saved.names = rp.script.names /\ saved.values = rp.values
         /\ saved.conditions = IF rp # NoScript /\ rp.script.conditional
                               THEN <<rp.script.md5, rp.conditions>> ELSE <<>>

\* What a save would take of the chunks of a list.
TriggerSizes(items) ==
  SumOf([i \in {i \in DOMAIN items : TriggerActive(items[i].state)} |-> items[i].def.size])
BoardSizes(items) ==
  SumOf([i \in {i \in DOMAIN items : Board!LboardActive(items[i].state)} |-> items[i].def.size])

SizeHolds ==
  /\ asked \in Nat
  /\ asked # Unasked =>
       MinSize + ScriptSize(richpresence) + TriggerSizes(triggers) + BoardSizes(lboards) <= asked

Lists ==
  /\ host \in Hosts
  /\ IsList(triggers, host.achievements, TriggerStates)
  /\ IsList(lboards, host.leaderboards, BoardStates)
  /\ IsScript(richpresence, host.scripts)
  /\ loop \in {"idle", "triggers", "lboards", "richpresence"}
  /\ Synced(view, triggers, lboards)

RInv == Lists /\ Walk /\ SizeHolds /\ SavedIsSnapshot
-----------------------------------------------------------------------------
(* Folds, one turn after the other.                                        *)

\* A set of numbers that has 0, and with each number the next, has them all.
LEMMA Induction ==
  ASSUME NEW S, 0 \in S, \A n \in Nat : n \in S => n + 1 \in S
  PROVE  Nat \subseteq S
<1> DEFINE W == {1 .. n : n \in Nat \ S}
           R == StrictSubsetOrdering(Nat)
<1> SUFFICES ASSUME NEW k \in Nat \ S PROVE FALSE
  OBVIOUS
<1>1. W \subseteq FiniteSubsetsOf(Nat)
  <2> SUFFICES ASSUME NEW n \in Nat PROVE 1 .. n \in FiniteSubsetsOf(Nat)
    OBVIOUS
  <2>1. IsFiniteSet(1 .. n)
    BY FS_Interval
  <2> QED BY <2>1 DEF FiniteSubsetsOf
<1>2. IsWellFoundedOn(R, FiniteSubsetsOf(Nat))
  BY FS_StrictSubsetOrderingWellFounded
<1>3. W # {}
  OBVIOUS
<1>4. PICK x \in W : \A y \in W : ~(<<y, x>> \in R)
  <2> HIDE DEF W, R
  <2> QED BY <1>1, <1>2, <1>3, WFMin
<1>5. PICK n \in Nat \ S : x = 1 .. n
  OBVIOUS
<1>6. n - 1 \in Nat \ S
  <2>1. n # 0 /\ n - 1 \in Nat
    BY <1>5
  <2>2. n - 1 \in S => n - 1 + 1 \in S
    BY <2>1
  <2> QED BY <2>1, <2>2, <1>5
<1>7. <<1 .. (n - 1), 1 .. n>> \in R
  <2>1. n \in 1 .. n /\ n \notin 1 .. (n - 1) /\ 1 .. (n - 1) \subseteq 1 .. n
    BY <1>6
  <2>2. 1 .. n \in SUBSET Nat /\ 1 .. (n - 1) \in SUBSET Nat
    OBVIOUS
  <2>3. 1 .. n # 1 .. (n - 1)
    BY <2>1
  <2> QED BY <2>1, <2>2, <2>3 DEF StrictSubsetOrdering
<1>8. 1 .. (n - 1) \in W
  BY <1>6
<1> QED BY <1>4, <1>5, <1>7, <1>8

\* A set of numbers up to n has a largest one.
LEMMA MaxFacts ==
  ASSUME NEW n \in Nat, NEW s \in SUBSET (1 .. n), s # {}
  PROVE  Max(s) \in s /\ \A y \in s : Max(s) >= y
<1> DEFINE Has(k) == \A t \in SUBSET (1 .. k) :
                       t # {} => \E x \in t : \A y \in t : x >= y
           S == {k \in Nat : Has(k)}
<1>1. 0 \in S
  <2>1. 1 .. 0 = {}
    OBVIOUS
  <2> QED BY <2>1
<1>2. ASSUME NEW k \in Nat, k \in S PROVE k + 1 \in S
  <2> SUFFICES ASSUME NEW t \in SUBSET (1 .. (k + 1)), t # {}
               PROVE  \E x \in t : \A y \in t : x >= y
    OBVIOUS
  <2>1. CASE k + 1 \in t
    BY <2>1
  <2>2. CASE k + 1 \notin t
    <3>1. t \in SUBSET (1 .. k)
      BY <2>2
    <3> QED BY <3>1, <1>2
  <2> QED BY <2>1, <2>2
<1>3. Nat \subseteq S
  <2> HIDE DEF S
  <2> QED BY <1>1, <1>2, Induction
<1> QED BY <1>3 DEF Max

\* The largest number up to k is k, and without it there are those up to k - 1.
LEMMA MaxOfTurns ==
  ASSUME NEW k \in Nat \ {0}
  PROVE  /\ 1 .. k # {}
         /\ Max(1 .. k) = k
         /\ (1 .. k) \ {k} = 1 .. (k - 1)
<1>1. 1 .. k # {} /\ k \in 1 .. k
  OBVIOUS
<1>2. Max(1 .. k) \in 1 .. k /\ Max(1 .. k) >= k
  BY <1>1, MaxFacts
<1> QED BY <1>1, <1>2

\* A solution of the recursion of a fold over n turns, F being what a turn does.
FoldSolution(it, n, Good, base, F) ==
  /\ it \in [SUBSET (1 .. n) -> Good]
  /\ \A s \in SUBSET (1 .. n) :
       it[s] = IF s = {} THEN base ELSE F[<<Max(s), it[s \ {Max(s)}]>>]

\* There is one.
LEMMA FoldExists ==
  ASSUME NEW n \in Nat, NEW Good, NEW base \in Good,
         NEW F \in [(1 .. n) \X Good -> Good]
  PROVE  \E it : FoldSolution(it, n, Good, base, F)
<1> DEFINE Turn(it, s) == IF s = {} THEN base ELSE F[<<Max(s), it[s \ {Max(s)}]>>]
           Done(k) == \E it \in [SUBSET (1 .. k) -> Good] :
                        \A s \in SUBSET (1 .. k) : it[s] = Turn(it, s)
           S == {k \in Nat : k <= n => Done(k)}
<1>1. 0 \in S
  <2> DEFINE it == [s \in SUBSET (1 .. 0) |-> base]
  <2>1. it \in [SUBSET (1 .. 0) -> Good]
    OBVIOUS
  <2>2. ASSUME NEW s \in SUBSET (1 .. 0) PROVE it[s] = Turn(it, s)
    OBVIOUS
  <2> QED BY <2>1, <2>2
<1>2. ASSUME NEW k \in Nat, k \in S PROVE k + 1 \in S
  <2> SUFFICES ASSUME k + 1 <= n PROVE Done(k + 1)
    <3> HIDE DEF Done
    <3> QED OBVIOUS
  <2> k <= n
    OBVIOUS
  <2>0. Done(k)
    <3> HIDE DEF Done
    <3> QED BY <1>2
  <2>1. PICK it \in [SUBSET (1 .. k) -> Good] :
          \A s \in SUBSET (1 .. k) : it[s] = Turn(it, s)
    BY <2>0
  <2> DEFINE more == [s \in SUBSET (1 .. (k + 1)) |->
                        IF k + 1 \in s THEN F[<<k + 1, it[s \ {k + 1}]>>] ELSE it[s]]
  <2>2. ASSUME NEW s \in SUBSET (1 .. (k + 1))
        PROVE  more[s] \in Good /\ more[s] = Turn(more, s)
    <3>1. CASE k + 1 \in s
      <4>1. Max(s) = k + 1
        <5>1. Max(s) \in s /\ Max(s) >= k + 1
          BY <3>1, MaxFacts, k + 1 \in Nat
        <5>2. Max(s) \in 1 .. (k + 1)
          BY <5>1
        <5> QED BY <5>1, <5>2
      <4>2. s \ {k + 1} \in SUBSET (1 .. k)
        OBVIOUS
      <4>3. more[s \ {k + 1}] = it[s \ {k + 1}] /\ it[s \ {k + 1}] \in Good
        BY <4>2
      <4>4. more[s] = F[<<k + 1, it[s \ {k + 1}]>>]
        BY <3>1
      <4>5. <<k + 1, it[s \ {k + 1}]>> \in (1 .. n) \X Good
        BY <4>3
      <4> HIDE DEF more
      <4> QED BY <3>1, <4>1, <4>3, <4>4, <4>5
    <3>2. CASE k + 1 \notin s
      <4>1. s \in SUBSET (1 .. k)
        BY <3>2
      <4>2. more[s] = it[s] /\ it[s] \in Good /\ it[s] = Turn(it, s)
        BY <3>2, <4>1, <2>1
      <4>3. CASE s = {}
        BY <4>2, <4>3
      <4>4. CASE s # {}
        <5>1. s \ {Max(s)} \in SUBSET (1 .. k) /\ k + 1 \notin s \ {Max(s)}
          BY <4>1, <3>2
        <5>2. more[s \ {Max(s)}] = it[s \ {Max(s)}]
          BY <5>1
        <5> HIDE DEF more
        <5> QED BY <4>2, <4>4, <5>2
      <4> QED BY <4>3, <4>4
    <3> QED BY <3>1, <3>2
  <2>3. more \in [SUBSET (1 .. (k + 1)) -> Good]
    BY <2>2
  <2> HIDE DEF more
  <2> QED BY <2>2, <2>3
<1>3. Nat \subseteq S
  <2> HIDE DEF S
  <2> QED BY <1>1, <1>2, Induction
<1>4. Done(n)
  <2> HIDE DEF Done
  <2> QED BY <1>3
<1> QED BY <1>4 DEF FoldSolution

\* The values h of a fold over n turns, after each of them, the last being r.
FoldRunTo(h, n, Good, base, F, r) ==
  /\ h \in [0 .. n -> Good]
  /\ h[0] = base
  /\ \A k \in 1 .. n : h[k] = F[<<k, h[k - 1]>>]
  /\ h[n] = r

\* What does the turns in order on the sets 1 .. k leaves such values.
LEMMA FoldRuns ==
  ASSUME NEW n \in Nat, NEW Good, NEW base \in Good,
         NEW F \in [(1 .. n) \X Good -> Good], NEW it, it[{}] = base,
         \A k \in 1 .. n : it[1 .. (k - 1)] \in Good
                            => it[1 .. k] = F[<<k, it[1 .. (k - 1)]>>]
  PROVE  \E h : FoldRunTo(h, n, Good, base, F, it[1 .. n])
<1> DEFINE S == {k \in Nat : k <= n => it[1 .. k] \in Good}
           h == [k \in 0 .. n |-> it[1 .. k]]
<1>1. it[1 .. 0] = base
  <2>1. 1 .. 0 = {}
    OBVIOUS
  <2> QED BY <2>1
<1>2. 0 \in S
  BY <1>1
<1>3. ASSUME NEW k \in Nat, k \in S PROVE k + 1 \in S
  <2> SUFFICES ASSUME k + 1 <= n PROVE it[1 .. (k + 1)] \in Good
    OBVIOUS
  <2>1. k + 1 \in 1 .. n /\ (k + 1) - 1 = k
    OBVIOUS
  <2>2. it[1 .. k] \in Good
    BY <1>3
  <2>3. it[1 .. (k + 1)] = F[<<k + 1, it[1 .. k]>>]
    BY <2>1, <2>2
  <2> QED BY <2>1, <2>2, <2>3
<1>4. Nat \subseteq S
  <2> HIDE DEF S
  <2> QED BY <1>2, <1>3, Induction
<1>5. ASSUME NEW k \in 0 .. n PROVE it[1 .. k] \in Good
  <2>1. k \in Nat /\ k <= n
    OBVIOUS
  <2>2. k \in S
    <3> HIDE DEF S
    <3> QED BY <2>1, <1>4
  <2> QED BY <2>1, <2>2
<1>6. h \in [0 .. n -> Good] /\ h[0] = base /\ h[n] = it[1 .. n]
  BY <1>1, <1>5
<1>7. ASSUME NEW k \in 1 .. n PROVE h[k] = F[<<k, h[k - 1]>>]
  <2>1. k \in 0 .. n /\ k - 1 \in 0 .. n
    OBVIOUS
  <2>2. h[k] = it[1 .. k] /\ h[k - 1] = it[1 .. (k - 1)]
    BY <2>1
  <2> HIDE DEF h
  <2> QED BY <2>1, <2>2, <1>5
<1> HIDE DEF h
<1> QED BY <1>6, <1>7 DEF FoldRunTo

-----------------------------------------------------------------------------
(* What a sequence of events tells of a state.                             *)

\* Each of the states h follows from the one before by one event.
FollowRun(h, state, events) ==
  /\ h \in [0 .. Len(events) -> Words]
  /\ h[0] = state
  /\ \A k \in 1 .. Len(events) : h[k] = Follow(h[k - 1], events[k])

\* Events that tell that a state became another.
Tells(events, state, became) ==
  /\ events \in Seq(Words) /\ state \in Words
  /\ \A h : FollowRun(h, state, events) => h[Len(events)] = became

LEMMA FollowWords ==
  ASSUME NEW state \in Words, NEW event \in Words
  PROVE  Follow(state, event) \in Words
BY DEF Follow, Words

\* Events are followed one by one.
LEMMA FollowedRuns ==
  ASSUME NEW state \in Words, NEW events \in Seq(Words)
  PROVE  \E h : FollowRun(h, state, events)
                /\ h[Len(events)] = FoldLeft(Follow, state, events)
<1> DEFINE n == Len(events)
           P(f) == f = [r \in SUBSET (DOMAIN events) |->
                          IF r = {} THEN state
                          ELSE Follow(f[r \ {Max(r)}], events[Max(r)])]
           it == CHOOSE f : P(f)
           last == FoldLeft(Follow, state, events)
<1>1. n \in Nat /\ DOMAIN events = 1 .. n /\ \A k \in 1 .. n : events[k] \in Words
  OBVIOUS
<1>2. last = it[1 .. n]
  <2> HIDE DEF n
  <2> QED BY <1>1 DEF FoldLeft, MapThenFoldSet
<1>3. ASSUME NEW x \in Words, NEW i \in 1 .. n PROVE Follow(x, events[i]) \in Words
  BY <1>1, FollowWords
<1> DEFINE F == [p \in (1 .. n) \X Words |-> Follow(p[2], events[p[1]])]
<1>5. F \in [(1 .. n) \X Words -> Words]
  <2> HIDE DEF Words, n
  <2> QED BY <1>3
<1>6. ASSUME NEW i \in 1 .. n, NEW x \in Words PROVE F[<<i, x>>] = Follow(x, events[i])
  OBVIOUS
<1> HIDE DEF F, n, last
<1>7. PICK f : FoldSolution(f, n, Words, state, F)
  BY <1>1, <1>5, FoldExists
<1>8. ASSUME NEW r \in SUBSET (1 .. n), r # {}
      PROVE  Max(r) \in 1 .. n /\ f[r \ {Max(r)}] \in Words
  <2>1. Max(r) \in r
    BY <1>1, <1>8, MaxFacts
  <2> QED BY <2>1, <1>7 DEF FoldSolution
<1>9. P(f)
  <2>1. ASSUME NEW r \in SUBSET (1 .. n)
        PROVE  f[r] = IF r = {} THEN state ELSE Follow(f[r \ {Max(r)}], events[Max(r)])
    BY <1>6, <1>7, <1>8 DEF FoldSolution
  <2>2. f = [r \in SUBSET (1 .. n) |->
               IF r = {} THEN state ELSE Follow(f[r \ {Max(r)}], events[Max(r)])]
    BY <2>1, <1>7 DEF FoldSolution
  <2> QED BY <2>2, <1>1
<1>10. P(it)
  BY <1>9
<1>11. \A r \in SUBSET (1 .. n) :
         it[r] = IF r = {} THEN state ELSE Follow(it[r \ {Max(r)}], events[Max(r)])
  BY <1>10, <1>1
<1> HIDE DEF it
<1>12. it[{}] = state
  BY <1>11
<1>13. ASSUME NEW k \in 1 .. n, it[1 .. (k - 1)] \in Words
       PROVE  it[1 .. k] = F[<<k, it[1 .. (k - 1)]>>]
  <2>1. 1 .. k # {} /\ Max(1 .. k) = k /\ (1 .. k) \ {k} = 1 .. (k - 1)
    BY <1>1, k \in Nat \ {0}, MaxOfTurns
  <2>2. 1 .. k \in SUBSET (1 .. n)
    BY <1>1
  <2>3. it[1 .. k] = Follow(it[1 .. (k - 1)], events[k])
    BY <2>1, <2>2, <1>11
  <2> QED BY <2>3, <1>6, <1>13
<1>14. PICK h : FoldRunTo(h, n, Words, state, F, it[1 .. n])
  BY <1>1, <1>5, <1>12, <1>13, FoldRuns
<1>15. /\ h \in [0 .. n -> Words] /\ h[0] = state /\ h[n] = last
       /\ \A k \in 1 .. n : h[k] = Follow(h[k - 1], events[k])
  <2>1. \A k \in 1 .. n : k - 1 \in 0 .. n
    BY <1>1
  <2> QED BY <2>1, <1>2, <1>6, <1>14 DEF FoldRunTo
<1> QED BY <1>15 DEF FollowRun, n, last

LEMMA TellsFold ==
  ASSUME NEW events, NEW state, NEW became, Tells(events, state, became)
  PROVE  FoldLeft(Follow, state, events) = became
<1>1. PICK h : FollowRun(h, state, events)
               /\ h[Len(events)] = FoldLeft(Follow, state, events)
  BY FollowedRuns DEF Tells
<1> QED BY <1>1 DEF Tells

\* No event tells nothing.
LEMMA TellsNothing ==
  ASSUME NEW state \in Words
  PROVE  Tells(<<>>, state, state)
BY DEF Tells, FollowRun

\* One event more is followed from what the others told.
LEMMA TellsMore ==
  ASSUME NEW events, NEW state, NEW became, Tells(events, state, became), NEW e \in Words
  PROVE  Tells(events \o <<e>>, state, Follow(became, e))
<1> DEFINE more == events \o <<e>>
           n == Len(events)
<1>1. events \in Seq(Words) /\ state \in Words
  BY DEF Tells
<1>2. /\ more \in Seq(Words) /\ n \in Nat /\ Len(more) = n + 1 /\ more[n + 1] = e
      /\ \A k \in 1 .. n : more[k] = events[k]
  BY <1>1
<1>3. ASSUME NEW h, FollowRun(h, state, more) PROVE h[n + 1] = Follow(became, e)
  <2> DEFINE g == [k \in 0 .. n |-> h[k]]
  <2>0. h \in [0 .. (n + 1) -> Words] /\ h[0] = state
        /\ \A k \in 1 .. (n + 1) : h[k] = Follow(h[k - 1], more[k])
    <3> HIDE DEF more, n
    <3> QED BY <1>2, <1>3 DEF FollowRun
  <2> HIDE DEF more
  <2>1. g \in [0 .. n -> Words] /\ g[0] = state /\ g[n] = h[n]
    BY <2>0, <1>2
  <2>2. ASSUME NEW k \in 1 .. n PROVE g[k] = Follow(g[k - 1], events[k])
    <3>1. k \in 0 .. n /\ k - 1 \in 0 .. n /\ k \in 1 .. (n + 1) /\ more[k] = events[k]
      BY <1>2
    <3>2. g[k] = h[k] /\ g[k - 1] = h[k - 1]
      BY <3>1
    <3> HIDE DEF g
    <3> QED BY <3>1, <3>2, <2>0
  <2>3. FollowRun(g, state, events)
    <3> HIDE DEF g
    <3> QED BY <2>1, <2>2 DEF FollowRun
  <2>4. h[n] = became
    <3> HIDE DEF g
    <3> QED BY <2>1, <2>3 DEF Tells
  <2>5. n + 1 \in 1 .. (n + 1) /\ (n + 1) - 1 = n
    BY <1>2
  <2> QED BY <2>0, <2>4, <2>5, <1>2
<1>4. Tells(more, state, Follow(became, e))
  <2> HIDE DEF more, n
  <2> QED BY <1>1, <1>2, <1>3 DEF Tells
<1> QED BY <1>4

\* An event that may be left out.
LEMMA TellsPerhaps ==
  ASSUME NEW events, NEW state, NEW became, Tells(events, state, became), NEW e \in Words,
         NEW c \in BOOLEAN
  PROVE  Tells(events \o (IF c THEN <<e>> ELSE <<>>), state,
               IF c THEN Follow(became, e) ELSE became)
<1>1. CASE c
  BY <1>1, TellsMore
<1>2. CASE ~c
  <2>1. events \o <<>> = events
    BY DEF Tells
  <2> QED BY <1>2, <2>1
<1> QED BY <1>1, <1>2
-----------------------------------------------------------------------------
(* What the events of an evaluation tell.                                  *)

\* The events of an achievement tell the state the evaluation left it in, also when
\* it returned that it was reset.
LEMMA TriggerEventsTell ==
  ASSUME NEW old, NEW item, NEW returned,
         old.state \in TriggerStates, item.state \in TriggerStates,
         item.def = old.def,
         \/ TriggerActive(old.state) /\ returned \in {"RESET", item.state}
         \/ returned = "INACTIVE" /\ ~TriggerActive(old.state) /\ item = old,
         \/ item.state = old.state
         \/ item.state \in {"ACTIVE", "PAUSED", "PRIMED"}
         \/ item.state = "TRIGGERED" /\ returned = "TRIGGERED"
  PROVE  Tells(TriggerEvents(old, item, returned), old.state, item.state)
<1> DEFINE became == IF returned = "RESET" THEN item.state ELSE returned
           p1 == IF returned = "RESET" THEN <<"RESET">> ELSE <<>>
           c2 == ProgressMade(old, item)
           p2 == IF c2 THEN <<"PROGRESS_UPDATED">> ELSE <<>>
           c3 == became # old.state /\ old.state = "PRIMED"
           p3 == IF c3 THEN <<"UNPRIMED">> ELSE <<>>
           c4 == became # old.state /\ became \in {"TRIGGERED", "PAUSED", "PRIMED"}
           p4 == IF c4 THEN <<became>> ELSE <<>>
           c5 == became = "ACTIVE" /\ old.state \in {"WAITING", "PAUSED"}
           p5 == IF c5 THEN <<"ACTIVATED">> ELSE <<>>
           s == old.state
           s3 == IF c3 THEN "ACTIVE" ELSE s
           s4 == IF c4 THEN became ELSE s3
           s5 == IF c5 THEN "ACTIVE" ELSE s4
<1>1. s \in Words /\ became \in Words
  BY DEF TriggerStates, Words
<1>2. Tells(p1, s, s)
  <2>1. <<>> \in Seq(Words) /\ <<>> \o p1 = p1 /\ "RESET" \in Words
    BY DEF Words
  <2>2. Tells(<<>> \o p1, s, IF returned = "RESET" THEN Follow(s, "RESET") ELSE s)
    BY <1>1, <2>1, TellsNothing, TellsPerhaps, (returned = "RESET") \in BOOLEAN
  <2>3. Follow(s, "RESET") = s
    BY DEF Follow
  <2> HIDE DEF p1, s
  <2> QED BY <2>1, <2>2, <2>3
<1>3. Tells(p1 \o p2, s, s)
  <2>1. Tells(p1 \o p2, s, IF c2 THEN Follow(s, "PROGRESS_UPDATED") ELSE s)
    <3>1. c2 \in BOOLEAN /\ "PROGRESS_UPDATED" \in Words
      BY DEF Words, ProgressMade
    <3> HIDE DEF p1, s, c2
    <3> QED BY <1>2, <3>1, TellsPerhaps
  <2>2. Follow(s, "PROGRESS_UPDATED") = s
    BY DEF Follow
  <2> HIDE DEF p1, p2, s, c2
  <2> QED BY <2>1, <2>2
<1>4. Tells(p1 \o p2 \o p3, s, s3)
  <2>1. Tells(p1 \o p2 \o p3, s, IF c3 THEN Follow(s, "UNPRIMED") ELSE s)
    <3>1. c3 \in BOOLEAN /\ "UNPRIMED" \in Words
      BY DEF Words
    <3> HIDE DEF p1, p2, s, c3
    <3> QED BY <1>3, <3>1, TellsPerhaps
  <2>2. Follow(s, "UNPRIMED") = "ACTIVE"
    BY DEF Follow
  <2> HIDE DEF p1, p2, p3, s, c3
  <2> QED BY <2>1, <2>2
<1>5. Tells(p1 \o p2 \o p3 \o p4, s, s4)
  <2>1. Tells(p1 \o p2 \o p3 \o p4, s, IF c4 THEN Follow(s3, became) ELSE s3)
    <3>1. c4 \in BOOLEAN
      OBVIOUS
    <3> HIDE DEF p1, p2, p3, s, s3, c4, became
    <3> QED BY <1>1, <1>4, <3>1, TellsPerhaps
  <2>2. c4 => Follow(s3, became) = became
    BY DEF Follow
  <2> HIDE DEF p1, p2, p3, p4, s, s3, c4, became
  <2> QED BY <2>1, <2>2
<1>6. Tells(p1 \o p2 \o p3 \o p4 \o p5, s, s5)
  <2>1. Tells(p1 \o p2 \o p3 \o p4 \o p5, s, IF c5 THEN Follow(s4, "ACTIVATED") ELSE s4)
    <3>1. c5 \in BOOLEAN /\ "ACTIVATED" \in Words
      BY DEF Words
    <3> HIDE DEF p1, p2, p3, p4, s, s4, c5
    <3> QED BY <1>5, <3>1, TellsPerhaps
  <2>2. Follow(s4, "ACTIVATED") = "ACTIVE"
    BY DEF Follow
  <2> HIDE DEF p1, p2, p3, p4, p5, s, s4, c5
  <2> QED BY <2>1, <2>2
<1>7. s5 = item.state
  BY DEF TriggerStates, TriggerActive
<1>8. TriggerEvents(old, item, returned) = p1 \o p2 \o p3 \o p4 \o p5
  <2> HIDE DEF c2
  <2> QED BY DEF TriggerEvents, c2
<1> HIDE DEF s, s5, p1, p2, p3, p4, p5
<1>9. Tells(p1 \o p2 \o p3 \o p4 \o p5, s, item.state)
  BY <1>6, <1>7
<1> QED BY <1>8, <1>9 DEF s

\* The events of a leaderboard tell whether an attempt runs.
LEMMA BoardEventsTell ==
  ASSUME NEW old, NEW item, NEW returned,
         old.state \in BoardStates, item.state \in BoardStates,
         old.state = "STARTED" => item.state \in {"STARTED", "CANCELED", "TRIGGERED"},
         \/ returned = item.state
         \/ returned = "INACTIVE" /\ item.state = old.state,
         NEW known \in Words, SameAttempt(known, old.state)
  PROVE  \E became : /\ Tells(BoardEvents(old, item, returned), known, became)
                     /\ SameAttempt(became, item.state)
<1> DEFINE events == BoardEvents(old, item, returned)
<1>1. ASSUME NEW e \in Words, events = <<e>>
      PROVE  Tells(events, known, Follow(known, e))
  <2>1. <<>> \o <<e>> = <<e>>
    OBVIOUS
  <2>2. Tells(<<>> \o <<e>>, known, Follow(known, e))
    BY TellsNothing, TellsMore
  <2> HIDE DEF events
  <2> QED BY <1>1, <2>1, <2>2
<1>2. CASE returned = "STARTED" /\ old.state # "STARTED"
  <2>1. events = <<"STARTED">> /\ "STARTED" \in Words /\ Follow(known, "STARTED") = "STARTED"
    BY <1>2 DEF BoardEvents, Words, Follow
  <2>2. item.state = "STARTED"
    BY <1>2
  <2> HIDE DEF events
  <2> QED BY <1>1, <2>1, <2>2 DEF SameAttempt, events
<1>3. CASE returned = "STARTED" /\ old.state = "STARTED" /\ item.data # old.announced
  <2>1. events = <<"UPDATED">> /\ "UPDATED" \in Words /\ Follow(known, "UPDATED") = known
    BY <1>3 DEF BoardEvents, Words, Follow
  <2>2. item.state = "STARTED" /\ known = "STARTED"
    BY <1>3 DEF SameAttempt
  <2> HIDE DEF events
  <2> QED BY <1>1, <2>1, <2>2 DEF SameAttempt, events
<1>4. CASE returned = "CANCELED" /\ old.state # "CANCELED"
  <2>1. events = <<"CANCELED">> /\ "CANCELED" \in Words /\ Follow(known, "CANCELED") = "CANCELED"
    BY <1>4 DEF BoardEvents, Words, Follow
  <2>2. item.state = "CANCELED"
    BY <1>4
  <2> HIDE DEF events
  <2> QED BY <1>1, <2>1, <2>2 DEF SameAttempt, events
<1>5. CASE returned = "TRIGGERED"
  <2>1. events = <<"TRIGGERED">> /\ "TRIGGERED" \in Words /\ Follow(known, "TRIGGERED") = "TRIGGERED"
    BY <1>5 DEF BoardEvents, Words, Follow
  <2>2. item.state = "TRIGGERED"
    BY <1>5
  <2> HIDE DEF events
  <2> QED BY <1>1, <2>1, <2>2 DEF SameAttempt, events
<1>6. CASE ~(returned = "STARTED" /\ old.state # "STARTED")
           /\ ~(returned = "STARTED" /\ old.state = "STARTED" /\ item.data # old.announced)
           /\ ~(returned = "CANCELED" /\ old.state # "CANCELED") /\ returned # "TRIGGERED"
  <2>1. events = <<>>
    BY <1>6 DEF BoardEvents
  <2>2. SameAttempt(known, item.state)
    BY <1>6 DEF SameAttempt, BoardStates
  <2> HIDE DEF events
  <2> QED BY <2>1, <2>2, TellsNothing DEF events
<1> QED BY <1>2, <1>3, <1>4, <1>5, <1>6
-----------------------------------------------------------------------------
(* Items.                                                                  *)

Known(defs) == defs \subseteq Definitions

LEMMA DefinitionFacts ==
  ASSUME NEW d \in Definitions
  PROVE  /\ d.fresh \in d.data /\ d.fresh \in AllData /\ 0 \in AllData
         /\ d.size \in Nat \ {0}
         /\ d.target # 0 => 0 \in d.data
         /\ \A x \in d.data : x \in AllData
<1>1. d.fresh \in d.data /\ d.size \in Nat \ {0} /\ (d.target # 0 => 0 \in d.data)
  BY RuntimeAssumption
<1>2. 0 \in AllData
  BY DEF AllData
<1>3. ASSUME NEW x \in d.data PROVE x \in AllData
  <2>1. d.data \in {e.data : e \in Definitions}
    OBVIOUS
  <2> QED BY <2>1 DEF AllData
<1> QED BY <1>1, <1>2, <1>3

LEMMA HostFacts ==
  ASSUME NEW h \in Hosts
  PROVE  /\ Known(h.achievements) /\ Known(h.leaderboards)
         /\ \A a \in h.achievements, b \in h.leaderboards : a.id # b.id
         /\ \A d \in h.achievements \cup h.leaderboards : d.id \in Ids
         /\ ListOf(h.loaded, h.achievements) /\ ListOf(h.boards, h.leaderboards)
<1>1. Known(h.achievements) /\ Known(h.leaderboards)
  BY DEF Known, Definitions
<1>2. \A d \in h.achievements \cup h.leaderboards : d.id \in Ids
  BY DEF Ids, Definitions
<1> QED BY <1>1, <1>2, RuntimeAssumption

\* What is read of an item.
LEMMA ItemFacts ==
  ASSUME NEW defs, Known(defs), NEW states, NEW item \in ItemsOf(defs, states)
  PROVE  /\ item.def \in defs /\ item.def \in Definitions /\ item.state \in states
         /\ item.data \in item.def.data /\ item.data \in AllData
         /\ item.announced \in AllData
         /\ item.invalid \in BOOLEAN /\ item.size \in {0, item.def.size}
         /\ item.def.id \in Ids
<1>1. item \in Records(defs, states) /\ IsItem(item)
  BY DEF ItemsOf
<1>2. /\ item.def \in defs /\ item.state \in states /\ item.data \in AllData
      /\ item.announced \in AllData
  BY <1>1 DEF Records
<1>3. item.invalid \in BOOLEAN
  BY <1>1 DEF Records
<1>4. item.def \in Definitions /\ item.def.id \in Ids
  BY <1>2 DEF Known, Ids
<1> QED BY <1>1, <1>2, <1>3, <1>4 DEF IsItem

LEMMA MakeItem ==
  ASSUME NEW defs, Known(defs), NEW states, NEW d \in defs, NEW s \in states,
         NEW x \in d.data, NEW a \in AllData, NEW v \in BOOLEAN, NEW z \in {0, d.size}
  PROVE  [def |-> d, state |-> s, data |-> x, announced |-> a, invalid |-> v, size |-> z]
           \in ItemsOf(defs, states)
<1> DEFINE r == [def |-> d, state |-> s, data |-> x, announced |-> a, invalid |-> v, size |-> z]
<1>1. d \in Definitions
  BY DEF Known
<1>2. x \in AllData /\ z \in Nat
  BY <1>1, DefinitionFacts
<1>3. r \in Records(defs, states)
  BY <1>2 DEF Records
<1>4. r.data = x /\ r.def = d /\ r.size = z
  OBVIOUS
<1>5. IsItem(r)
  <2> HIDE DEF r
  <2> QED BY <1>4 DEF IsItem
<1> QED BY <1>3, <1>5 DEF ItemsOf

\* An item as a record of its fields.
LEMMA ItemRecord ==
  ASSUME NEW defs, NEW states, NEW item \in ItemsOf(defs, states)
  PROVE  item = [def |-> item.def, state |-> item.state, data |-> item.data,
                 announced |-> item.announced, invalid |-> item.invalid, size |-> item.size]
<1>1. item \in Records(defs, states)
  BY DEF ItemsOf
<1> QED BY <1>1 DEF Records

LEMMA FreshItem ==
  ASSUME NEW defs, Known(defs), NEW states, "WAITING" \in states, NEW d \in defs
  PROVE  /\ Fresh(d) \in ItemsOf(defs, states)
         /\ Fresh(d).def = d /\ Fresh(d).state = "WAITING"
<1>1. d \in Definitions
  BY DEF Known
<1>2. d.fresh \in d.data /\ 0 \in AllData /\ FALSE \in BOOLEAN
  BY <1>1, DefinitionFacts
<1>3. Fresh(d) \in ItemsOf(defs, states)
  BY <1>2, MakeItem DEF Fresh
<1> QED BY <1>3 DEF Fresh

Moves(moved, item, s, x) == moved = [item EXCEPT !.state = s, !.data = x]

\* Another state and other data.
LEMMA MovedItem ==
  ASSUME NEW defs, Known(defs), NEW states, NEW item \in ItemsOf(defs, states),
         NEW s \in states, NEW x \in item.def.data,
         NEW moved, Moves(moved, item, s, x)
  PROVE  /\ moved \in ItemsOf(defs, states)
         /\ moved.def = item.def /\ moved.state = s /\ moved.data = x
         /\ moved.announced = item.announced /\ SameMark(moved, item)
<1> DEFINE r == [def |-> item.def, state |-> s, data |-> x, announced |-> item.announced,
                 invalid |-> item.invalid, size |-> item.size]
<1>1. r \in ItemsOf(defs, states)
  <2>1. /\ item.def \in defs /\ item.state \in states /\ item.data \in item.def.data
        /\ item.data \in AllData /\ item.announced \in AllData
        /\ item.invalid \in BOOLEAN /\ item.size \in {0, item.def.size}
    BY ItemFacts
  <2> QED BY <2>1, MakeItem
<1>2. moved = r
  <2> DEFINE i == item.invalid
             q == [def |-> item.def, state |-> item.state, data |-> item.data,
                   announced |-> item.announced, invalid |-> i, size |-> item.size]
  <2>1. item = q
    BY ItemRecord
  <2> HIDE DEF i
  <2> DEFINE p == [def |-> item.def, state |-> s, data |-> item.data,
                   announced |-> item.announced, invalid |-> i, size |-> item.size]
  <2>2. [q EXCEPT !.state = s] = p
    OBVIOUS
  <2>3. [p EXCEPT !.data = x]
          = [def |-> item.def, state |-> s, data |-> x, announced |-> item.announced,
             invalid |-> i, size |-> item.size]
    OBVIOUS
  <2>4. moved = [[item EXCEPT !.state = s] EXCEPT !.data = x]
    BY DEF Moves
  <2> HIDE DEF q, p
  <2> QED BY <2>1, <2>2, <2>3, <2>4 DEF i
<1>3. r.def = item.def /\ r.state = s /\ r.data = x /\ r.announced = item.announced
  OBVIOUS
<1>4. SameMark(r, item)
  BY DEF SameMark
<1> HIDE DEF r
<1> QED BY <1>1, <1>2, <1>3, <1>4

LEMMA ResetFacts ==
  ASSUME NEW defs, Known(defs), NEW states, "WAITING" \in states,
         NEW item \in ItemsOf(defs, states)
  PROVE  /\ ResetItem(item) \in ItemsOf(defs, states)
         /\ ResetItem(item).def = item.def /\ ResetItem(item).state = "WAITING"
         /\ SameMark(ResetItem(item), item)
<1>1. item.def.fresh \in item.def.data
  BY ItemFacts, DefinitionFacts
<1> DEFINE reset == ResetItem(item)
<1>2. reset = [item EXCEPT !.state = "WAITING", !.data = item.def.fresh]
  BY DEF ResetItem
<1> HIDE DEF reset
<1>3. /\ reset \in ItemsOf(defs, states) /\ reset.def = item.def /\ reset.state = "WAITING"
      /\ SameMark(reset, item)
  <2> DEFINE x == item.def.fresh
             s == "WAITING"
  <2>1. x \in item.def.data /\ s \in states /\ Moves(reset, item, s, x)
    BY <1>1, <1>2 DEF Moves
  <2> HIDE DEF x, s
  <2>2. /\ reset \in ItemsOf(defs, states) /\ reset.def = item.def /\ reset.state = s
        /\ SameMark(reset, item)
    BY <2>1, MovedItem
  <2> QED BY <2>2 DEF s
<1> QED BY <1>3 DEF reset

\* Whether an address turned out not to be valid.
LEMMA MarkedItem ==
  ASSUME NEW defs, Known(defs), NEW states, NEW item \in ItemsOf(defs, states),
         NEW v \in BOOLEAN, NEW marked, marked = [item EXCEPT !.invalid = v]
  PROVE  /\ marked \in ItemsOf(defs, states)
         /\ marked.def = item.def /\ marked.state = item.state /\ marked.data = item.data
         /\ marked.announced = item.announced
<1> DEFINE r == [def |-> item.def, state |-> item.state, data |-> item.data,
                 announced |-> item.announced, invalid |-> v, size |-> item.size]
<1>1. r \in ItemsOf(defs, states)
  <2>1. /\ item.def \in defs /\ item.state \in states /\ item.data \in item.def.data
        /\ item.data \in AllData /\ item.announced \in AllData
        /\ item.invalid \in BOOLEAN /\ item.size \in {0, item.def.size}
    BY ItemFacts
  <2> QED BY <2>1, MakeItem
<1>2. marked = r
  <2> DEFINE i == item.invalid
             q == [def |-> item.def, state |-> item.state, data |-> item.data,
                   announced |-> item.announced, invalid |-> i, size |-> item.size]
  <2>1. item = q
    BY ItemRecord
  <2> HIDE DEF i
  <2>2. [q EXCEPT !.invalid = v]
          = [def |-> q.def, state |-> q.state, data |-> q.data, announced |-> q.announced,
             invalid |-> v, size |-> q.size]
    OBVIOUS
  <2> HIDE DEF q
  <2> QED BY <2>1, <2>2
<1>3. r.def = item.def /\ r.state = item.state /\ r.data = item.data
      /\ r.announced = item.announced
  OBVIOUS
<1> HIDE DEF r
<1> QED BY <1>1, <1>2, <1>3

LEMMA DisabledItem ==
  ASSUME NEW defs, Known(defs), NEW states, "DISABLED" \in states,
         NEW item \in ItemsOf(defs, states)
  PROVE  /\ Disabled(item) \in ItemsOf(defs, states)
         /\ Disabled(item).def = item.def /\ Disabled(item).state = "DISABLED"
         /\ ~Disabled(item).invalid
<1> DEFINE r == [def |-> item.def, state |-> "DISABLED", data |-> item.data,
                 announced |-> item.announced, invalid |-> FALSE, size |-> item.size]
<1>1. r \in ItemsOf(defs, states)
  <2>1. /\ item.def \in defs /\ item.state \in states /\ item.data \in item.def.data
        /\ item.data \in AllData /\ item.announced \in AllData
        /\ item.invalid \in BOOLEAN /\ item.size \in {0, item.def.size}
    BY ItemFacts
  <2> QED BY <2>1, MakeItem
<1>2. Disabled(item) = r
  <2> DEFINE i == item.invalid
             q == [def |-> item.def, state |-> item.state, data |-> item.data,
                   announced |-> item.announced, invalid |-> i, size |-> item.size]
  <2>1. item = q
    BY ItemRecord
  <2> HIDE DEF i
  <2> DEFINE p == [def |-> item.def, state |-> "DISABLED", data |-> item.data,
                   announced |-> item.announced, invalid |-> i, size |-> item.size]
  <2>2. [q EXCEPT !.state = "DISABLED"] = p
    OBVIOUS
  <2> DEFINE v == FALSE
  <2>4. Disabled(item) = [[item EXCEPT !.state = "DISABLED"] EXCEPT !.invalid = v]
    BY DEF Disabled
  <2>5. r = [def |-> item.def, state |-> "DISABLED", data |-> item.data,
             announced |-> item.announced, invalid |-> v, size |-> item.size]
    OBVIOUS
  <2> HIDE DEF v, r
  <2>3. [p EXCEPT !.invalid = v]
          = [def |-> item.def, state |-> "DISABLED", data |-> item.data,
             announced |-> item.announced, invalid |-> v, size |-> item.size]
    OBVIOUS
  <2> HIDE DEF q, p
  <2> QED BY <2>1, <2>2, <2>3, <2>4, <2>5
<1>3. r.def = item.def /\ r.state = "DISABLED"
  OBVIOUS
<1>4. ~r.invalid
  OBVIOUS
<1> HIDE DEF r
<1> QED BY <1>1, <1>2, <1>3, <1>4

LEMMA AnnouncedItem ==
  ASSUME NEW defs, Known(defs), NEW states, NEW item \in ItemsOf(defs, states), NEW events
  PROVE  /\ Announced(item, events) \in ItemsOf(defs, states)
         /\ Announced(item, events).def = item.def
         /\ Announced(item, events).state = item.state
         /\ Announced(item, events).data = item.data
         /\ SameMark(Announced(item, events), item)
         /\ Announced(item, events).announced =
              IF Range(events) \cap {"STARTED", "UPDATED"} # {} THEN item.data ELSE item.announced
<1> DEFINE r == [def |-> item.def, state |-> item.state, data |-> item.data,
                 announced |-> item.data, invalid |-> item.invalid, size |-> item.size]
           told == Range(events) \cap {"STARTED", "UPDATED"} # {}
<1>1. r \in ItemsOf(defs, states)
  <2>1. /\ item.def \in defs /\ item.state \in states /\ item.data \in item.def.data
        /\ item.data \in AllData /\ item.announced \in AllData
        /\ item.invalid \in BOOLEAN /\ item.size \in {0, item.def.size}
    BY ItemFacts
  <2> QED BY <2>1, MakeItem
<1>2. [item EXCEPT !.announced = item.data] = r
  <2> DEFINE i == item.invalid
             q == [def |-> item.def, state |-> item.state, data |-> item.data,
                   announced |-> item.announced, invalid |-> i, size |-> item.size]
  <2>1. item = q
    BY ItemRecord
  <2> HIDE DEF i
  <2>2. [q EXCEPT !.announced = q.data]
          = [def |-> q.def, state |-> q.state, data |-> q.data, announced |-> q.data,
             invalid |-> q.invalid, size |-> q.size]
    OBVIOUS
  <2> HIDE DEF q
  <2> QED BY <2>1, <2>2
<1>3. r.def = item.def /\ r.state = item.state /\ r.data = item.data
      /\ r.announced = item.data
  OBVIOUS
<1>4. SameMark(r, item)
  BY DEF SameMark
<1>5. Announced(item, events) = IF told THEN r ELSE item
  <2> HIDE DEF r
  <2> QED BY <1>2 DEF Announced
<1> HIDE DEF r, told
<1>6. CASE told
  BY <1>1, <1>3, <1>4, <1>5, <1>6 DEF told
<1>7. CASE ~told
  BY <1>5, <1>7 DEF told, SameMark
<1> QED BY <1>6, <1>7

Sizes(sized, item) == sized = [item EXCEPT !.size = SizeOf(item)]

\* A size that was asked is remembered.
LEMMA SizedItem ==
  ASSUME NEW defs, Known(defs), NEW states, NEW item \in ItemsOf(defs, states),
         NEW sized, Sizes(sized, item)
  PROVE  /\ sized \in ItemsOf(defs, states)
         /\ sized.def = item.def /\ sized.state = item.state /\ sized.data = item.data
         /\ sized.size = item.def.size
<1> DEFINE r == [def |-> item.def, state |-> item.state, data |-> item.data,
                 announced |-> item.announced, invalid |-> item.invalid, size |-> item.def.size]
<1>0. SizeOf(item) = item.def.size
  BY ItemFacts DEF SizeOf
<1>1. r \in ItemsOf(defs, states)
  <2>1. /\ item.def \in defs /\ item.state \in states /\ item.data \in item.def.data
        /\ item.data \in AllData /\ item.announced \in AllData
        /\ item.invalid \in BOOLEAN /\ item.size \in {0, item.def.size}
    BY ItemFacts
  <2> QED BY <2>1, MakeItem
<1>2. sized = r
  <2> DEFINE i == item.invalid
             q == [def |-> item.def, state |-> item.state, data |-> item.data,
                   announced |-> item.announced, invalid |-> i, size |-> item.size]
  <2>1. item = q
    BY ItemRecord
  <2> HIDE DEF i
  <2>2. [q EXCEPT !.size = q.def.size]
          = [def |-> q.def, state |-> q.state, data |-> q.data, announced |-> q.announced,
             invalid |-> q.invalid, size |-> q.def.size]
    OBVIOUS
  <2> HIDE DEF q
  <2> QED BY <1>0, <2>1, <2>2 DEF Sizes
<1>3. r.def = item.def /\ r.state = item.state /\ r.data = item.data /\ r.size = item.def.size
  OBVIOUS
<1> HIDE DEF r
<1> QED BY <1>1, <1>2, <1>3
-----------------------------------------------------------------------------
(* Lists.                                                                  *)

LEMMA ListFacts ==
  ASSUME NEW defs, NEW states, NEW items, IsList(items, defs, states)
  PROVE  /\ Len(items) \in Nat /\ DOMAIN items = 1 .. Len(items)
         /\ \A i \in DOMAIN items : items[i] \in ItemsOf(defs, states)
         /\ items \in Seq(ItemsOf(defs, states)) /\ Distinct(items)
         /\ items = [i \in DOMAIN items |-> items[i]]
BY DEF IsList

\* A function of the same turns is a list.
LEMMA MakeList ==
  ASSUME NEW defs, NEW states, NEW n \in Nat, NEW items,
         items = [i \in 1 .. n |-> items[i]],
         \A i \in 1 .. n : items[i] \in ItemsOf(defs, states),
         \A i, j \in 1 .. n : items[i].def.id = items[j].def.id => i = j
  PROVE  IsList(items, defs, states) /\ Len(items) = n /\ DOMAIN items = 1 .. n
<1>1. items \in [1 .. n -> ItemsOf(defs, states)]
  OBVIOUS
<1>2. items \in Seq(ItemsOf(defs, states)) /\ Len(items) = n /\ DOMAIN items = 1 .. n
  BY <1>1
<1> QED BY <1>2 DEF IsList, Distinct

\* Items in the places of others of their definitions.
Mapped(mapped, items, defs, states) ==
  /\ mapped = [i \in DOMAIN items |-> mapped[i]]
  /\ \A i \in DOMAIN items : mapped[i] \in ItemsOf(defs, states)
                             /\ mapped[i].def = items[i].def

LEMMA MappedList ==
  ASSUME NEW defs, NEW states, NEW items, IsList(items, defs, states),
         NEW mapped, Mapped(mapped, items, defs, states)
  PROVE  /\ IsList(mapped, defs, states) /\ DOMAIN mapped = DOMAIN items
         /\ Len(mapped) = Len(items) /\ IdsOf(mapped) = IdsOf(items)
<1> DEFINE n == Len(items)
<1>1. n \in Nat /\ DOMAIN items = 1 .. n /\ Distinct(items)
  BY ListFacts
<1>5. /\ mapped = [i \in 1 .. n |-> mapped[i]]
      /\ \A i \in 1 .. n : mapped[i] \in ItemsOf(defs, states)
                           /\ mapped[i].def = items[i].def
  BY <1>1 DEF Mapped
<1>2. \A i, j \in 1 .. n : mapped[i].def.id = mapped[j].def.id => i = j
  BY <1>1, <1>5 DEF Distinct
<1>3. IsList(mapped, defs, states) /\ Len(mapped) = n /\ DOMAIN mapped = 1 .. n
  BY <1>1, <1>2, <1>5, MakeList
<1>4. IdsOf(mapped) = IdsOf(items)
  BY <1>1, <1>3, <1>5 DEF IdsOf
<1> QED BY <1>1, <1>3, <1>4

\* One item in the place of another of its definition.
LEMMA ReplacedList ==
  ASSUME NEW defs, NEW states, NEW items, IsList(items, defs, states),
         NEW k \in DOMAIN items, NEW item \in ItemsOf(defs, states),
         item.def = items[k].def,
         NEW replaced, replaced = [items EXCEPT ![k] = item]
  PROVE  /\ IsList(replaced, defs, states) /\ DOMAIN replaced = DOMAIN items
         /\ Len(replaced) = Len(items) /\ IdsOf(replaced) = IdsOf(items)
         /\ replaced[k] = item
         /\ \A i \in DOMAIN items : i # k => replaced[i] = items[i]
<1>1. /\ DOMAIN replaced = DOMAIN items /\ replaced[k] = item
      /\ \A i \in DOMAIN items : i # k => replaced[i] = items[i]
      /\ replaced = [i \in DOMAIN items |-> replaced[i]]
  OBVIOUS
<1>2. Mapped(replaced, items, defs, states)
  BY <1>1, ListFacts DEF Mapped
<1>3. /\ IsList(replaced, defs, states) /\ DOMAIN replaced = DOMAIN items
      /\ Len(replaced) = Len(items) /\ IdsOf(replaced) = IdsOf(items)
  BY <1>1, <1>2, MappedList
<1> QED BY <1>1, <1>3

\* The index of an item is the only one with its id.
LEMMA OnlyIndex ==
  ASSUME NEW items, Distinct(items), NEW k \in DOMAIN items, k \in Nat
  PROVE  IndexOfId(items, items[k].def.id) = {k} /\ Min({k}) = k
<1>2. IndexOfId(items, items[k].def.id) = {k}
  BY DEF Distinct, IndexOfId
<1>4. Min({k}) = k
  BY DEF Min
<1> QED BY <1>2, <1>4

\* What is left when the item at an index is gone: the last one is in its place.
Without(left, items, k) ==
  /\ Len(left) = Len(items) - 1 /\ DOMAIN left = 1 .. Len(items) - 1
  /\ \A i \in DOMAIN left : left[i] = IF i = k THEN items[Len(items)] ELSE items[i]

LEMMA WithoutFacts ==
  ASSUME NEW defs, NEW states, NEW items, IsList(items, defs, states), NEW k \in DOMAIN items,
         NEW left, left = Deactivated(items, items[k].def.id)
  PROVE  /\ IsList(left, defs, states) /\ Without(left, items, k)
         /\ IdsOf(left) = IdsOf(items) \ {items[k].def.id}
<1> DEFINE n == Len(items)
<1>1. n \in Nat /\ n # 0 /\ DOMAIN items = 1 .. n /\ Distinct(items)
      /\ \A i \in 1 .. n : items[i] \in ItemsOf(defs, states)
  BY ListFacts
<1>2. left = DeactivatedByIndex(items, k)
  <2>0. k \in Nat /\ Distinct(items)
    BY <1>1
  <2>1. IndexOfId(items, items[k].def.id) = {k} /\ Min({k}) = k
    BY <2>0, OnlyIndex
  <2>2. {k} # {}
    OBVIOUS
  <2> QED BY <2>1, <2>2 DEF Deactivated
<1>3. left = [i \in 1 .. (n - 1) |-> IF i = k THEN items[n] ELSE items[i]]
  BY <1>2 DEF DeactivatedByIndex, Last
<1> HIDE DEF n
<1>4. /\ left = [i \in 1 .. (n - 1) |-> left[i]]
      /\ \A i \in 1 .. (n - 1) : left[i] = IF i = k THEN items[n] ELSE items[i]
  BY <1>3
<1>5. \A i \in 1 .. (n - 1) : left[i] \in ItemsOf(defs, states)
  BY <1>1, <1>4
<1>6. ASSUME NEW i \in 1 .. (n - 1), NEW j \in 1 .. (n - 1), left[i].def.id = left[j].def.id
      PROVE  i = j
  <2>1. i \in 1 .. n /\ j \in 1 .. n /\ n \in 1 .. n /\ i # n /\ j # n
    BY <1>1
  <2> QED BY <1>1, <1>4, <1>6, <2>1 DEF Distinct
<1>7. IsList(left, defs, states) /\ Len(left) = n - 1 /\ DOMAIN left = 1 .. (n - 1)
  <2>1. n - 1 \in Nat
    BY <1>1
  <2> QED BY <1>4, <1>5, <1>6, <2>1, MakeList
<1>8. Without(left, items, k)
  BY <1>4, <1>7 DEF Without, n
<1>9. IdsOf(left) = IdsOf(items) \ {items[k].def.id}
  <2>1. ASSUME NEW i \in 1 .. (n - 1)
        PROVE  left[i].def.id \in IdsOf(items) \ {items[k].def.id}
    <3> DEFINE j == IF i = k THEN n ELSE i
    <3>1. j \in 1 .. n /\ j # k /\ left[i] = items[j]
      BY <1>1, <1>4
    <3> HIDE DEF j
    <3> QED BY <1>1, <3>1 DEF Distinct, IdsOf
  <2>2. ASSUME NEW i \in 1 .. n, i # k
        PROVE  items[i].def.id \in IdsOf(left)
    <3> DEFINE j == IF i = n THEN k ELSE i
    <3>1. j \in 1 .. (n - 1) /\ left[j] = items[i]
      BY <1>1, <1>4, <2>2
    <3> HIDE DEF j
    <3> QED BY <1>7, <3>1 DEF IdsOf
  <2>3. \A x \in IdsOf(left) : x \in IdsOf(items) \ {items[k].def.id}
    BY <2>1, <1>7 DEF IdsOf
  <2>4. \A x \in IdsOf(items) \ {items[k].def.id} : x \in IdsOf(left)
    <3> SUFFICES ASSUME NEW x \in IdsOf(items), x # items[k].def.id PROVE x \in IdsOf(left)
      OBVIOUS
    <3>1. PICK i \in 1 .. n : x = items[i].def.id
      BY <1>1 DEF IdsOf
    <3> QED BY <2>2, <3>1
  <2> QED BY <2>3, <2>4
<1> QED BY <1>7, <1>8, <1>9

\* The items of what is left are some of a list, each at a place of its own.
Kept(left, items, from) ==
  /\ from \in [DOMAIN left -> DOMAIN items]
  /\ \A i, j \in DOMAIN left : from[i] = from[j] => i = j
  /\ \A i \in DOMAIN left : left[i] = items[from[i]]

LEMMA DeactivatedFacts ==
  ASSUME NEW defs, NEW states, NEW items, IsList(items, defs, states), NEW id,
         NEW left, left = Deactivated(items, id)
  PROVE  /\ IsList(left, defs, states)
         /\ IdsOf(left) = IdsOf(items) \ {id}
         /\ \E from : Kept(left, items, from)
<1>0. Len(items) \in Nat /\ DOMAIN items = 1 .. Len(items) /\ Distinct(items)
  BY ListFacts
<1>1. CASE \E k \in DOMAIN items : items[k].def.id = id
  <2>1. PICK k \in DOMAIN items : items[k].def.id = id
    BY <1>1
  <2>2. /\ IsList(left, defs, states) /\ Without(left, items, k)
        /\ IdsOf(left) = IdsOf(items) \ {id}
    BY <2>1, WithoutFacts
  <2> DEFINE from == [i \in DOMAIN left |-> IF i = k THEN Len(items) ELSE i]
  <2>3. DOMAIN left = 1 .. Len(items) - 1
    BY <2>2 DEF Without
  <2>4. from \in [DOMAIN left -> DOMAIN items]
    BY <1>0, <2>3
  <2>5. ASSUME NEW i \in DOMAIN left, NEW j \in DOMAIN left, from[i] = from[j]
        PROVE  i = j
    BY <1>0, <2>3, <2>5
  <2>6. \A i \in DOMAIN left : left[i] = items[from[i]]
    BY <2>2 DEF Without
  <2> HIDE DEF from
  <2> QED BY <2>2, <2>4, <2>5, <2>6 DEF Kept
<1>2. CASE ~\E k \in DOMAIN items : items[k].def.id = id
  <2>1. left = items
    BY <1>2 DEF Deactivated, IndexOfId
  <2>2. id \notin IdsOf(items)
    BY <1>2 DEF IdsOf
  <2> DEFINE from == [i \in DOMAIN left |-> i]
  <2>3. Kept(left, items, from)
    BY <2>1 DEF Kept
  <2> HIDE DEF from
  <2> QED BY <2>1, <2>2, <2>3
<1> QED BY <1>1, <1>2

\* A new item at the end.
LEMMA AppendedList ==
  ASSUME NEW defs, Known(defs), NEW states, "WAITING" \in states,
         NEW items, IsList(items, defs, states), NEW d \in defs, d.id \notin IdsOf(items)
  PROVE  /\ IsList(Append(items, Fresh(d)), defs, states)
         /\ IdsOf(Append(items, Fresh(d))) = IdsOf(items) \cup {d.id}
<1> DEFINE n == Len(items)
           item == Fresh(d)
           more == Append(items, item)
<1>1. n \in Nat /\ DOMAIN items = 1 .. n /\ Distinct(items)
      /\ items \in Seq(ItemsOf(defs, states))
  BY ListFacts
<1>2. item \in ItemsOf(defs, states) /\ item.def = d
  BY FreshItem
<1> HIDE DEF item, n
<1>3. /\ more \in Seq(ItemsOf(defs, states)) /\ DOMAIN more = 1 .. (n + 1)
      /\ more[n + 1] = item /\ \A i \in 1 .. n : more[i] = items[i]
  BY <1>1, <1>2 DEF n
<1> HIDE DEF more
<1>4. \A i \in 1 .. n : items[i].def.id # d.id
  BY <1>1 DEF IdsOf
<1>5. ASSUME NEW i \in 1 .. (n + 1), NEW j \in 1 .. (n + 1), more[i].def.id = more[j].def.id
      PROVE  i = j
  <2>1. i \in 1 .. n \/ i = n + 1
    BY <1>1
  <2>2. j \in 1 .. n \/ j = n + 1
    BY <1>1
  <2> QED BY <1>1, <1>2, <1>3, <1>4, <1>5, <2>1, <2>2 DEF Distinct
<1>6. IsList(more, defs, states)
  BY <1>3, <1>5 DEF IsList, Distinct
<1>7. \A x : x \in IdsOf(more) <=> x \in IdsOf(items) \cup {d.id}
  <2>1. \A i \in 1 .. (n + 1) : i \in 1 .. n \/ i = n + 1
    BY <1>1
  <2>2. n + 1 \in 1 .. (n + 1) /\ \A i \in 1 .. n : i \in 1 .. (n + 1)
    BY <1>1
  <2> QED BY <1>1, <1>2, <1>3, <2>1, <2>2 DEF IdsOf
<1> QED BY <1>6, <1>7 DEF more, item

LEMMA ActivatedFacts ==
  ASSUME NEW defs, Known(defs), NEW states, "WAITING" \in states,
         NEW items, IsList(items, defs, states), NEW d \in defs
  PROVE  /\ IsList(Activated(items, d), defs, states)
         /\ IdsOf(Activated(items, d)) = IdsOf(items) \cup {d.id}
<1>1. CASE \E i \in DOMAIN items : items[i].def = d
  <2> DEFINE mapped == [i \in DOMAIN items |->
                          IF items[i].def = d THEN ResetItem(items[i]) ELSE items[i]]
  <2>1. Activated(items, d) = mapped
    BY <1>1 DEF Activated
  <2>2. Mapped(mapped, items, defs, states)
    BY ListFacts, ResetFacts DEF Mapped
  <2> HIDE DEF mapped
  <2>4. IsList(mapped, defs, states) /\ IdsOf(mapped) = IdsOf(items)
    BY <2>2, MappedList
  <2>5. d.id \in IdsOf(items)
    BY <1>1 DEF IdsOf
  <2> QED BY <2>1, <2>4, <2>5
<1>2. CASE ~\E i \in DOMAIN items : items[i].def = d
  <2> DEFINE left == Deactivated(items, d.id)
  <2>1. Activated(items, d) = Append(left, Fresh(d))
    BY <1>2 DEF Activated
  <2>2. IsList(left, defs, states) /\ IdsOf(left) = IdsOf(items) \ {d.id}
    BY DeactivatedFacts
  <2> HIDE DEF left
  <2>3. d.id \notin IdsOf(left)
    BY <2>2
  <2>4. /\ IsList(Append(left, Fresh(d)), defs, states)
        /\ IdsOf(Append(left, Fresh(d))) = IdsOf(left) \cup {d.id}
    BY <2>2, <2>3, AppendedList
  <2> QED BY <2>1, <2>2, <2>4
<1> QED BY <1>1, <1>2

\* What the host makes of its own calls is what is there.
LEMMA ViewedSynced ==
  ASSUME NEW h \in Hosts, NEW ts, IsList(ts, h.achievements, TriggerStates),
         NEW bs, IsList(bs, h.leaderboards, BoardStates)
  PROVE  Synced(Viewed(ts, bs), ts, bs)
<1> DEFINE v == Viewed(ts, bs)
           n == Len(ts)
           all == ts \o bs
<1>1. /\ n \in Nat /\ DOMAIN ts = 1 .. n /\ Distinct(ts)
      /\ Len(bs) \in Nat /\ DOMAIN bs = 1 .. Len(bs) /\ Distinct(bs)
      /\ ts \in Seq(ItemsOf(h.achievements, TriggerStates))
      /\ bs \in Seq(ItemsOf(h.leaderboards, BoardStates))
  BY ListFacts
<1>2. /\ DOMAIN all = 1 .. (n + Len(bs))
      /\ \A i \in 1 .. n : all[i] = ts[i]
      /\ \A i \in 1 .. Len(bs) : all[n + i] = bs[i]
  <2> DEFINE T == ItemsOf(h.achievements, TriggerStates)
             B == ItemsOf(h.leaderboards, BoardStates)
  <2>1. ts \in Seq(T \cup B) /\ bs \in Seq(T \cup B)
    <3>1. ts \in [1 .. n -> T \cup B] /\ bs \in [1 .. Len(bs) -> T \cup B]
      BY <1>1
    <3> QED BY <1>1, <3>1
  <2> HIDE DEF T, B
  <2> QED BY <2>1
<1> HIDE DEF n, all
<1>3. \A i \in DOMAIN all : i \in 1 .. n \/ \E j \in 1 .. Len(bs) : i = n + j
  <2>1. ASSUME NEW i \in DOMAIN all, i \notin 1 .. n
        PROVE  i - n \in 1 .. Len(bs) /\ i = n + (i - n)
    BY <1>1, <1>2, <2>1
  <2> QED BY <2>1
<1>4. ASSUME NEW i \in DOMAIN ts, NEW j \in DOMAIN bs PROVE ts[i].def.id # bs[j].def.id
  <2>1. ts[i].def \in h.achievements /\ bs[j].def \in h.leaderboards
    BY ListFacts, HostFacts, ItemFacts
  <2> QED BY <2>1, HostFacts
<1>5. Distinct(all)
  <2> SUFFICES ASSUME NEW i \in DOMAIN all, NEW j \in DOMAIN all,
                      all[i].def.id = all[j].def.id
               PROVE  i = j
    BY DEF Distinct
  <2>1. CASE i \in 1 .. n /\ j \in 1 .. n
    BY <1>1, <1>2, <2>1 DEF Distinct
  <2>2. CASE i \in 1 .. n /\ j \notin 1 .. n
    <3>1. PICK b \in 1 .. Len(bs) : j = n + b
      BY <1>3, <2>2
    <3>2. all[i] = ts[i] /\ all[j] = bs[b]
      BY <1>2, <2>2, <3>1
    <3>3. ts[i].def.id # bs[b].def.id
      BY <1>1, <1>4, <2>2
    <3> QED BY <3>2, <3>3
  <2>3. CASE i \notin 1 .. n /\ j \in 1 .. n
    <3>1. PICK b \in 1 .. Len(bs) : i = n + b
      BY <1>3, <2>3
    <3>2. all[j] = ts[j] /\ all[i] = bs[b]
      BY <1>2, <2>3, <3>1
    <3>3. ts[j].def.id # bs[b].def.id
      BY <1>1, <1>4, <2>3
    <3> QED BY <3>2, <3>3
  <2>4. CASE i \notin 1 .. n /\ j \notin 1 .. n
    <3>1. PICK a \in 1 .. Len(bs) : i = n + a
      BY <1>3, <2>4
    <3>2. PICK b \in 1 .. Len(bs) : j = n + b
      BY <1>3, <2>4
    <3>3. bs[a].def.id = bs[b].def.id
      BY <1>2, <3>1, <3>2
    <3> QED BY <1>1, <3>1, <3>2, <3>3 DEF Distinct
  <2> QED BY <2>1, <2>2, <2>3, <2>4
<1>6. DOMAIN v = IdsOf(ts) \cup IdsOf(bs)
  <2>1. DOMAIN v = IdsOf(all)
    BY DEF Viewed, States, IdsOf, all
  <2>2. \A x \in IdsOf(all) : x \in IdsOf(ts) \cup IdsOf(bs)
    BY <1>1, <1>2, <1>3 DEF IdsOf
  <2>3. \A x \in IdsOf(ts) \cup IdsOf(bs) : x \in IdsOf(all)
    <3>1. \A i \in 1 .. n : i \in DOMAIN all
      BY <1>1, <1>2
    <3>2. \A i \in 1 .. Len(bs) : n + i \in DOMAIN all
      BY <1>1, <1>2
    <3>3. \A i \in 1 .. n : ts[i].def.id \in IdsOf(all)
      <4>1. \A i \in 1 .. n : all[i].def.id \in IdsOf(all)
        BY <3>1 DEF IdsOf
      <4> QED BY <1>2, <4>1
    <3>4. \A i \in 1 .. Len(bs) : bs[i].def.id \in IdsOf(all)
      <4>1. \A i \in 1 .. Len(bs) : all[n + i].def.id \in IdsOf(all)
        BY <3>2 DEF IdsOf
      <4> QED BY <1>2, <4>1
    <3> QED BY <1>1, <3>3, <3>4 DEF IdsOf
  <2> HIDE DEF v
  <2> QED BY <2>1, <2>2, <2>3
<1>7. ASSUME NEW i \in DOMAIN all PROVE v[all[i].def.id] = all[i].state
  <2>1. i \in Nat
    BY <1>1, <1>2
  <2>2. IndexOfId(all, all[i].def.id) = {i} /\ Min({i}) = i
    BY <1>5, <2>1, OnlyIndex
  <2> QED BY <2>2 DEF Viewed, States, all
<1> HIDE DEF v
<1>8. FollowsTriggers(v, ts)
  <2> SUFFICES ASSUME NEW i \in DOMAIN ts PROVE v[ts[i].def.id] = ts[i].state
    BY DEF FollowsTriggers
  <2>1. i \in DOMAIN all /\ all[i] = ts[i]
    BY <1>1, <1>2
  <2> QED BY <1>7, <2>1
<1>9. FollowsBoards(v, bs)
  <2> SUFFICES ASSUME NEW i \in DOMAIN bs
               PROVE  v[bs[i].def.id] = bs[i].state /\ bs[i].state \in Words
    BY DEF FollowsBoards, SameAttempt
  <2>0. bs[i].state \in Words
    BY ListFacts, HostFacts, ItemFacts DEF BoardStates, Words
  <2>1. n + i \in DOMAIN all /\ all[n + i] = bs[i]
    BY <1>1, <1>2
  <2> QED BY <1>7, <2>0, <2>1
<1>10. Synced(v, ts, bs)
  BY <1>6, <1>8, <1>9 DEF Synced
<1> QED BY <1>10 DEF v
-----------------------------------------------------------------------------
(* A turn of a loop of do_frame.                                           *)

\* What a turn leaves of a list: "item" is where items[k] was, or nothing of it, and
\* what comes before k is left alone.
TurnLeaves(left, items, k, item, from, gone) ==
  /\ from \in [DOMAIN left -> DOMAIN items]
  /\ \A i, j \in DOMAIN left : from[i] = from[j] => i = j
  /\ \A i \in DOMAIN left : left[i] = IF from[i] = k THEN item ELSE items[from[i]]
  /\ \A i \in DOMAIN left : IF i < k THEN from[i] = i ELSE from[i] >= k
  /\ gone = 1 => \A i \in DOMAIN left : from[i] # k
  /\ k - 1 \in 0 .. Len(left)

\* What the host then knows of its items, "became" being what it was told.
TurnTells(known, id, became, gone) ==
  /\ DOMAIN known = IF gone = 1 THEN DOMAIN view \ {id} ELSE DOMAIN view
  /\ \A x \in DOMAIN view \ {id} : known[x] = view[x]
  /\ gone = 0 => known[id] = became

TurnDone(left, known, items, k, item, became) ==
  \E from : \E gone \in {0, 1} :
    /\ TurnLeaves(left, items, k, item, from, gone)
    /\ TurnTells(known, item.def.id, became, gone)
    /\ IdsOf(left) = IF gone = 1 THEN IdsOf(items) \ {item.def.id} ELSE IdsOf(items)

LEMMA TurnFacts ==
  ASSUME NEW defs, NEW states, NEW items, IsList(items, defs, states),
         NEW k \in DOMAIN items, k = at,
         NEW item \in ItemsOf(defs, states), item.def = items[k].def,
         items[k].def.id \in DOMAIN view,
         NEW events, NEW became, Tells(events, view[items[k].def.id], became),
         NEW v \in Visited(items, item, events)
  PROVE  /\ IsList(v.items, defs, states)
         /\ TurnDone(v.items, v.view, items, k, item, became)
<1> DEFINE updated == [items EXCEPT ![k] = item]
           id == item.def.id
           kept == Told(id, events)
<1>0. Len(items) \in Nat /\ DOMAIN items = 1 .. Len(items) /\ Distinct(items)
  BY ListFacts
<1>1. /\ IsList(updated, defs, states) /\ DOMAIN updated = DOMAIN items
      /\ Len(updated) = Len(items) /\ IdsOf(updated) = IdsOf(items)
      /\ updated[k] = item
      /\ \A i \in DOMAIN items : i # k => updated[i] = items[i]
  <2> HIDE DEF updated
  <2> QED BY ReplacedList DEF updated
<1>2. /\ DOMAIN kept = DOMAIN view /\ kept[id] = became
      /\ \A x \in DOMAIN view \ {id} : kept[x] = view[x]
  <2>1. FoldLeft(Follow, view[id], events) = became
    BY TellsFold
  <2>2. kept = [view EXCEPT ![id] = became]
    BY <2>1 DEF Told
  <2> QED BY <2>2
<1>3. \/ v = [items |-> updated, view |-> kept]
      \/ v = [items |-> Deactivated(updated, id),
              view |-> [i \in DOMAIN kept \ {id} |-> kept[i]]]
  BY DEF Visited
<1> HIDE DEF updated, kept
<1>4. CASE v = [items |-> updated, view |-> kept]
  <2>1. v.items = updated /\ v.view = kept
    BY <1>4
  <2> DEFINE from == [i \in DOMAIN items |-> i]
  <2>2. TurnLeaves(updated, items, k, item, from, 0)
    <3>1. k - 1 \in 0 .. Len(updated)
      BY <1>0, <1>1
    <3>2. \A i \in DOMAIN items : IF i < k THEN from[i] = i ELSE from[i] >= k
      BY <1>0
    <3> QED BY <1>1, <3>1, <3>2 DEF TurnLeaves
  <2>3. TurnTells(kept, id, became, 0)
    BY <1>2 DEF TurnTells
  <2>4. IdsOf(updated) = IF 0 = 1 THEN IdsOf(items) \ {id} ELSE IdsOf(items)
    BY <1>1
  <2> HIDE DEF from, id
  <2>5. TurnDone(updated, kept, items, k, item, became)
    BY <2>2, <2>3, <2>4 DEF id, TurnDone
  <2> QED BY <1>1, <2>1, <2>5
<1>5. CASE v = [items |-> Deactivated(updated, id),
                view |-> [i \in DOMAIN kept \ {id} |-> kept[i]]]
  <2> DEFINE left == Deactivated(updated, id)
             rest == [i \in DOMAIN kept \ {id} |-> kept[i]]
  <2>1. v.items = left /\ v.view = rest
    BY <1>5
  <2>2. /\ IsList(left, defs, states) /\ Without(left, updated, k)
        /\ IdsOf(left) = IdsOf(items) \ {id}
    <3>1. updated[k].def.id = id /\ k \in DOMAIN updated
      BY <1>1
    <3> HIDE DEF id
    <3> QED BY <1>1, <3>1, WithoutFacts
  <2> HIDE DEF left
  <2> DEFINE from == [i \in DOMAIN left |-> IF i = k THEN Len(items) ELSE i]
  <2>3. DOMAIN left = 1 .. Len(items) - 1 /\ Len(left) = Len(items) - 1
    BY <1>1, <2>2 DEF Without
  <2>4. TurnLeaves(left, items, k, item, from, 1)
    <3>1. from \in [DOMAIN left -> DOMAIN items]
      BY <1>0, <2>3
    <3>2. \A i, j \in DOMAIN left : from[i] = from[j] => i = j
      BY <1>0, <2>3
    <3>3. ASSUME NEW i \in DOMAIN left
          PROVE  /\ left[i] = IF from[i] = k THEN item ELSE items[from[i]]
                 /\ from[i] # k
                 /\ IF i < k THEN from[i] = i ELSE from[i] >= k
      <4>1. left[i] = IF i = k THEN updated[Len(items)] ELSE updated[i]
        BY <1>1, <2>2 DEF Without
      <4>2. i \in 1 .. Len(items) - 1
        BY <2>3
      <4>3. CASE i = k
        <5>1. from[i] = Len(items) /\ Len(items) # k /\ Len(items) \in DOMAIN items
          BY <1>0, <4>2, <4>3
        <5>2. updated[Len(items)] = items[Len(items)]
          BY <1>1, <5>1
        <5> QED BY <1>0, <4>1, <4>3, <5>1, <5>2
      <4>4. CASE i # k
        <5>1. from[i] = i /\ i \in DOMAIN items
          BY <1>0, <4>2, <4>4
        <5>2. updated[i] = items[i]
          BY <1>1, <4>4, <5>1
        <5> QED BY <1>0, <4>1, <4>2, <4>4, <5>1, <5>2
      <4> QED BY <4>3, <4>4
    <3>4. k - 1 \in 0 .. Len(left)
      BY <1>0, <2>3
    <3> HIDE DEF from
    <3> QED BY <3>1, <3>2, <3>3, <3>4 DEF TurnLeaves
  <2>5. TurnTells(rest, id, became, 1)
    BY <1>2 DEF TurnTells
  <2>6. IdsOf(left) = IF 1 = 1 THEN IdsOf(items) \ {id} ELSE IdsOf(items)
    BY <2>2
  <2> HIDE DEF from, id, rest
  <2>7. TurnDone(left, rest, items, k, item, became)
    BY <2>4, <2>5, <2>6 DEF id, TurnDone
  <2> QED BY <2>1, <2>2, <2>7
<1> QED BY <1>3, <1>4, <1>5

\* What an evaluation may make of an achievement.
LEMMA EvaluationFacts ==
  ASSUME NEW defs, Known(defs), NEW item \in ItemsOf(defs, TriggerStates),
         NEW o \in Evaluations(item)
  PROVE  /\ o.item \in ItemsOf(defs, TriggerStates) /\ o.item.def = item.def
         /\ SameMark(o.item, item)
         /\ Tells(TriggerEvents(item, o.item, o.returned), item.state, o.item.state)
         /\ TriggerActive(o.item.state) => TriggerActive(item.state)
<1> DEFINE new == o.item
           ret == o.returned
           Good == /\ new \in ItemsOf(defs, TriggerStates) /\ new.def = item.def
                   /\ SameMark(new, item)
           Fits == /\ \/ TriggerActive(item.state) /\ ret \in {"RESET", new.state}
                      \/ ret = "INACTIVE" /\ ~TriggerActive(item.state) /\ new = item
                   /\ \/ new.state = item.state
                      \/ new.state \in {"ACTIVE", "PAUSED", "PRIMED"}
                      \/ new.state = "TRIGGERED" /\ ret = "TRIGGERED"
           unprimed == IF item.state = "PRIMED" THEN "ACTIVE" ELSE item.state
           To(states) == UNION {{s} \X Computed(item, s) : s \in states}
           Moved(states, returned) ==
             {[item |-> [item EXCEPT !.state = to[1], !.data = to[2]],
               returned |-> IF returned = "state" THEN to[1] ELSE returned] : to \in To(states)}
<1>0. /\ item.state \in TriggerStates /\ item.def \in Definitions
      /\ item.data \in item.def.data
  BY ItemFacts
<1>1. \/ o = [item |-> item, returned |-> "INACTIVE"] /\ ~TriggerActive(item.state)
      \/ o \in Moved(Settled, "state") /\ TriggerActive(item.state)
      \/ o \in Moved(Settled \cup {unprimed}, "RESET") /\ TriggerActive(item.state)
      \/ /\ o = [item |-> ResetItem(item), returned |-> "WAITING"]
         /\ item.state = "WAITING" /\ TriggerActive(item.state)
      \/ o \in Moved({"TRIGGERED"}, "state") /\ TriggerActive(item.state)
  <2> DEFINE a == TriggerActive(item.state)
             e1 == Moved(Settled, "state")
             e2 == Moved(Settled \cup {unprimed}, "RESET")
             e3 == {[item |-> ResetItem(item), returned |-> "WAITING"]}
             e4 == Moved({"TRIGGERED"}, "state")
  <2>1. Evaluations(item) =
          IF ~a THEN {[item |-> item, returned |-> "INACTIVE"]}
          ELSE e1 \cup e2 \cup (IF item.state = "WAITING" THEN e3 ELSE e4)
    BY DEF Evaluations
  <2> HIDE DEF a, e1, e2, e4
  <2>2. \/ o = [item |-> item, returned |-> "INACTIVE"] /\ ~a
        \/ o \in e1 /\ a
        \/ o \in e2 /\ a
        \/ /\ o = [item |-> ResetItem(item), returned |-> "WAITING"]
           /\ item.state = "WAITING" /\ a
        \/ o \in e4 /\ a
    BY <2>1
  <2> QED BY <2>2 DEF a, e1, e2, e4
<1>2. ASSUME NEW states, NEW returned, o \in Moved(states, returned),
             \A s \in states : s \in TriggerStates
      PROVE  Good /\ new.state \in states
             /\ ret = IF returned = "state" THEN new.state ELSE returned
  <2>1. PICK to \in To(states) :
          o = [item |-> [item EXCEPT !.state = to[1], !.data = to[2]],
               returned |-> IF returned = "state" THEN to[1] ELSE returned]
    BY <1>2
  <2>2. PICK s \in states : to \in {s} \X Computed(item, s)
    BY <2>1
  <2>3. to[1] = s /\ to[2] \in Computed(item, s)
    BY <2>2
  <2>4. to[2] \in item.def.data
    <3>1. CASE item.def.target # 0 /\ s = "PAUSED"
      BY <1>0, <2>3, <3>1, DefinitionFacts DEF Computed
    <3>2. CASE ~(item.def.target # 0 /\ s = "PAUSED")
      BY <2>3, <3>2 DEF Computed
    <3> QED BY <3>1, <3>2
  <2>5. Moves(new, item, s, to[2]) /\ ret = IF returned = "state" THEN s ELSE returned
    BY <2>1, <2>3 DEF Moves
  <2>6. s \in TriggerStates
    BY <1>2
  <2> HIDE DEF new, ret
  <2>7. Good /\ new.state = s
    BY <2>4, <2>5, <2>6, MovedItem
  <2> QED BY <2>5, <2>7
<1> HIDE DEF Moved
<1>3. Good /\ Fits
  <2>1. CASE o = [item |-> item, returned |-> "INACTIVE"] /\ ~TriggerActive(item.state)
    <3>1. new = item /\ ret = "INACTIVE"
      BY <2>1
    <3> HIDE DEF new, ret
    <3> QED BY <2>1, <3>1 DEF SameMark
  <2>2. CASE o \in Moved(Settled, "state") /\ TriggerActive(item.state)
    <3>1. \A s \in Settled : s \in TriggerStates
      BY DEF Settled, TriggerStates
    <3>2. Good /\ new.state \in Settled
             /\ ret = IF "state" = "state" THEN new.state ELSE "state"
      BY <1>2, <2>2, <3>1
    <3> HIDE DEF new, ret
    <3> QED BY <2>2, <3>2 DEF Settled
  <2>3. CASE o \in Moved(Settled \cup {unprimed}, "RESET") /\ TriggerActive(item.state)
    <3>1. \A s \in Settled \cup {unprimed} : s \in TriggerStates
      BY <1>0 DEF Settled, TriggerStates
    <3>2. Good /\ new.state \in Settled \cup {unprimed}
             /\ ret = IF "RESET" = "state" THEN new.state ELSE "RESET"
      BY <1>2, <2>3, <3>1
    <3> HIDE DEF new, ret
    <3> QED BY <2>3, <3>2 DEF Settled
  <2>4. CASE /\ o = [item |-> ResetItem(item), returned |-> "WAITING"]
             /\ item.state = "WAITING" /\ TriggerActive(item.state)
    <3>1. new = ResetItem(item) /\ ret = "WAITING"
      BY <2>4
    <3>2. "WAITING" \in TriggerStates
      BY DEF TriggerStates
    <3> HIDE DEF new, ret
    <3>3. Good /\ new.state = "WAITING"
      BY <3>1, <3>2, ResetFacts
    <3> QED BY <2>4, <3>1, <3>3
  <2>5. CASE o \in Moved({"TRIGGERED"}, "state") /\ TriggerActive(item.state)
    <3>1. \A s \in {"TRIGGERED"} : s \in TriggerStates
      BY DEF TriggerStates
    <3>2. Good /\ new.state \in {"TRIGGERED"}
             /\ ret = IF "state" = "state" THEN new.state ELSE "state"
      BY <1>2, <2>5, <3>1
    <3> HIDE DEF new, ret
    <3> QED BY <2>5, <3>2
  <2> HIDE DEF Good, Fits, unprimed
  <2> QED BY <1>1, <2>1, <2>2, <2>3, <2>4, <2>5
<1>4. new.state \in TriggerStates
  BY <1>3, ItemFacts
<1> HIDE DEF new, ret
<1>5. Tells(TriggerEvents(item, new, ret), item.state, new.state)
  BY <1>0, <1>3, <1>4, TriggerEventsTell
<1>6. TriggerActive(new.state) => TriggerActive(item.state)
  BY <1>3
<1> QED BY <1>3, <1>5, <1>6 DEF new, ret

\* What the state of a leaderboard may become.
LEMMA EvaluatedFacts ==
  ASSUME NEW state \in BoardStates, Board!LboardActive(state), NEW true
  PROVE  LET became == Board!Evaluated(state, true, FALSE)
             returned == Board!Returned(state, true, FALSE)
         IN  /\ became \in BoardStates
             /\ Board!LboardActive(became)
             /\ state = "STARTED" => became \in {"STARTED", "CANCELED", "TRIGGERED"}
             /\ \/ returned = became
                \/ returned = "INACTIVE" /\ became = state /\ state # "STARTED"
<1> DEFINE became == Board!Evaluated(state, true, FALSE)
           returned == Board!Returned(state, true, FALSE)
           Apt == /\ became \in BoardStates
                  /\ Board!LboardActive(became)
                  /\ state = "STARTED" => became \in {"STARTED", "CANCELED", "TRIGGERED"}
                  /\ \/ returned = became
                     \/ returned = "INACTIVE" /\ became = state /\ state # "STARTED"
<1>1. state \in {"WAITING", "ACTIVE", "STARTED", "CANCELED", "TRIGGERED"}
  BY DEF BoardStates, Board!LboardActive
<1>2. ASSUME state \in Board!Resting PROVE Apt
  <2>1. state # "STARTED"
    BY <1>2 DEF Board!Resting
  <2>2. became = IF "start" \in true THEN state ELSE "ACTIVE"
    BY <1>2 DEF Board!Evaluated, Board!Resting, Board!Starts
  <2>3. returned = IF "start" \in true THEN "INACTIVE" ELSE became
    BY <1>2 DEF Board!Returned
  <2> HIDE DEF became, returned
  <2> QED BY <1>2, <2>1, <2>2, <2>3 DEF BoardStates, Board!LboardActive, Board!Resting
<1>3. ASSUME state \notin Board!Resting PROVE Apt
  <2>1. returned = became
    BY <1>3 DEF Board!Returned
  <2>2. state \in {"ACTIVE", "STARTED"}
    BY <1>1, <1>3 DEF Board!Resting
  <2>3. ASSUME state = "ACTIVE" PROVE Apt
    <3>1. became \in {"ACTIVE", "TRIGGERED", "STARTED"}
      <4>1. CASE Board!Starts(state, true)
        <5>1. became = IF "submit" \in true THEN "TRIGGERED"
                       ELSE IF FALSE THEN "ACTIVE" ELSE "STARTED"
          BY <1>3, <2>3, <4>1 DEF Board!Evaluated
        <5> HIDE DEF became
        <5> QED BY <5>1
      <4>2. CASE ~Board!Starts(state, true)
        <5>1. became = "ACTIVE"
          BY <1>3, <2>3, <4>2 DEF Board!Evaluated
        <5> HIDE DEF became
        <5> QED BY <5>1
      <4> QED BY <4>1, <4>2
    <3> HIDE DEF became, returned
    <3> QED BY <2>1, <2>3, <3>1 DEF BoardStates, Board!LboardActive
  <2>4. ASSUME state = "STARTED" PROVE Apt
    <3>1. became \in {"STARTED", "CANCELED", "TRIGGERED"}
      <4>0. ~Board!Starts(state, true)
        BY <2>4 DEF Board!Starts
      <4>1. CASE "cancel" \in true
        <5>1. became = "CANCELED"
          BY <1>3, <2>4, <4>0, <4>1 DEF Board!Evaluated
        <5> HIDE DEF became
        <5> QED BY <5>1
      <4>2. CASE "cancel" \notin true
        <5>1. became = IF "submit" \in true THEN "TRIGGERED" ELSE "STARTED"
          BY <1>3, <2>4, <4>0, <4>2 DEF Board!Evaluated
        <5> HIDE DEF became
        <5> QED BY <5>1
      <4> QED BY <4>1, <4>2
    <3> HIDE DEF became, returned
    <3> QED BY <2>1, <3>1 DEF BoardStates, Board!LboardActive
  <2> HIDE DEF Apt
  <2> QED BY <2>2, <2>3, <2>4
<1>4. Apt
  <2> HIDE DEF Apt
  <2> QED BY <1>2, <1>3
<1> QED BY <1>4

\* What an evaluation may make of a leaderboard, and what is remembered of it.
LEMMA BoardEvaluationFacts ==
  ASSUME NEW defs, Known(defs), NEW item \in ItemsOf(defs, BoardStates),
         NEW o \in BoardEvaluations(item), NEW known \in Words, SameAttempt(known, item.state),
         NEW events, events = BoardEvents(item, o.item, o.returned),
         NEW told, told = Announced(o.item, events)
  PROVE  /\ told \in ItemsOf(defs, BoardStates) /\ told.def = item.def
         /\ SameMark(told, item)
         /\ \E became : Tells(events, known, became) /\ SameAttempt(became, told.state)
         /\ Board!LboardActive(told.state) => Board!LboardActive(item.state)
         /\ told.state = "STARTED" => told.announced = told.data
<1> DEFINE new == o.item
           ret == o.returned
           Good == /\ new \in ItemsOf(defs, BoardStates) /\ new.def = item.def
                   /\ SameMark(new, item) /\ new.announced = item.announced
           Fits == /\ item.state = "STARTED" => new.state \in {"STARTED", "CANCELED", "TRIGGERED"}
                   /\ \/ ret = new.state
                      \/ ret = "INACTIVE" /\ new.state = item.state /\ item.state # "STARTED"
                   /\ Board!LboardActive(new.state) => Board!LboardActive(item.state)
<1>0. /\ item.state \in BoardStates /\ item.def \in Definitions /\ item.data \in item.def.data
  BY ItemFacts
<1>1. Good /\ Fits
  <2>1. CASE ~Board!LboardActive(item.state)
    <3>1. new = item /\ ret = "INACTIVE"
      BY <2>1 DEF BoardEvaluations
    <3>2. item.state # "STARTED"
      BY <2>1 DEF Board!LboardActive
    <3> HIDE DEF new, ret
    <3> QED BY <2>1, <3>1, <3>2 DEF SameMark
  <2>2. CASE Board!LboardActive(item.state)
    <3> DEFINE state(true) == Board!Evaluated(item.state, true, FALSE)
               back(true) == Board!Returned(item.state, true, FALSE)
    <3>1. PICK true \in SUBSET {"start", "cancel", "submit"} :
            \E x \in IF state(true) \in {"STARTED", "TRIGGERED"}
                     THEN item.def.data ELSE {item.data} :
              o = [item |-> [item EXCEPT !.state = state(true), !.data = x],
                   returned |-> back(true)]
      BY <2>2 DEF BoardEvaluations
    <3> DEFINE s == state(true)
               r == back(true)
    <3>2. /\ s \in BoardStates
          /\ Board!LboardActive(s)
          /\ item.state = "STARTED" => s \in {"STARTED", "CANCELED", "TRIGGERED"}
          /\ \/ r = s
             \/ r = "INACTIVE" /\ s = item.state /\ item.state # "STARTED"
      BY <1>0, <2>2, EvaluatedFacts
    <3>3. PICK x \in IF s \in {"STARTED", "TRIGGERED"} THEN item.def.data ELSE {item.data} :
            o = [item |-> [item EXCEPT !.state = s, !.data = x], returned |-> r]
      BY <3>1
    <3> HIDE DEF s, r
    <3>4. x \in item.def.data
      BY <1>0, <3>3
    <3>5. Moves(new, item, s, x) /\ ret = r
      BY <3>3 DEF Moves
    <3> HIDE DEF new, ret
    <3>6. Good /\ new.state = s
      BY <3>2, <3>4, <3>5, MovedItem
    <3> QED BY <2>2, <3>2, <3>5, <3>6
  <2> QED BY <2>1, <2>2
<1>2. new.state \in BoardStates
  BY <1>1, ItemFacts
<1> HIDE DEF new, ret
<1>3. /\ events = BoardEvents(item, new, ret) /\ told = Announced(new, events)
  BY DEF new, ret
<1>4. \E became : Tells(events, known, became) /\ SameAttempt(became, new.state)
  BY <1>0, <1>1, <1>2, <1>3, BoardEventsTell
<1>5. /\ told \in ItemsOf(defs, BoardStates) /\ told.def = new.def /\ told.state = new.state
      /\ told.data = new.data /\ SameMark(told, new)
      /\ told.announced = IF Range(events) \cap {"STARTED", "UPDATED"} # {}
                          THEN new.data ELSE new.announced
  BY <1>1, <1>3, AnnouncedItem
<1>6. ASSUME new.state = "STARTED" PROVE told.announced = told.data
  <2>1. ret = "STARTED"
    BY <1>1, <1>6
  <2>2. CASE item.state # "STARTED"
    <3>1. events = <<"STARTED">>
      BY <1>3, <2>1, <2>2 DEF BoardEvents
    <3>2. "STARTED" \in Range(events)
      <4>1. events[1] = "STARTED" /\ 1 \in DOMAIN events
        BY <3>1
      <4> QED BY <4>1 DEF Range
    <3> QED BY <1>5, <3>2
  <2>3. CASE item.state = "STARTED" /\ new.data # item.announced
    <3>1. events = <<"UPDATED">>
      BY <1>3, <2>1, <2>3 DEF BoardEvents
    <3>2. "UPDATED" \in Range(events)
      <4>1. events[1] = "UPDATED" /\ 1 \in DOMAIN events
        BY <3>1
      <4> QED BY <4>1 DEF Range
    <3> QED BY <1>5, <3>2
  <2>4. CASE item.state = "STARTED" /\ new.data = item.announced
    BY <1>1, <1>5, <2>4
  <2> QED BY <2>2, <2>3, <2>4
<1>7. SameMark(told, item)
  BY <1>1, <1>5 DEF SameMark
<1> QED BY <1>1, <1>4, <1>5, <1>6, <1>7
-----------------------------------------------------------------------------
(* The turns keep the lists and the walk.                                  *)

\* A list whose stored items are some of those of another.
ShrunkTriggers(left, items) ==
  \E from \in [DOMAIN left -> DOMAIN items] :
    /\ \A i, j \in DOMAIN left : from[i] = from[j] => i = j
    /\ \A i \in DOMAIN left :
         /\ left[i].def = items[from[i]].def
         /\ TriggerActive(left[i].state) => TriggerActive(items[from[i]].state)

ShrunkBoards(left, items) ==
  \E from \in [DOMAIN left -> DOMAIN items] :
    /\ \A i, j \in DOMAIN left : from[i] = from[j] => i = j
    /\ \A i \in DOMAIN left :
         /\ left[i].def = items[from[i]].def
         /\ Board!LboardActive(left[i].state) => Board!LboardActive(items[from[i]].state)

\* The item of the turn has been looked at once.
LEMMA TurnSeen ==
  ASSUME NEW defs, Known(defs), NEW states, NEW items, IsList(items, defs, states),
         NEW k \in DOMAIN items, NEW item, item.def = items[k].def, ~item.invalid,
         NEW left, NEW from, NEW gone, TurnLeaves(left, items, k, item, from, gone),
         visits \in [Ids -> 0 .. 1], Seen(visits, items, k),
         NEW seen, seen = [visits EXCEPT ![items[k].def.id] = @ + 1]
  PROVE  Seen(seen, left, k - 1) /\ seen \in [Ids -> 0 .. 1]
<1> DEFINE id == items[k].def.id
<1>1. Len(items) \in Nat /\ DOMAIN items = 1 .. Len(items) /\ Distinct(items)
      /\ \A i \in DOMAIN items : items[i].def.id \in Ids
  BY ListFacts, ItemFacts
<1>2. visits[id] = 0 /\ id \in Ids
  BY <1>1 DEF Seen
<1>3. seen \in [Ids -> 0 .. 1] /\ seen[id] = 1 /\ \A x \in Ids : x # id => seen[x] = visits[x]
  BY <1>2
<1>4. ASSUME NEW i \in DOMAIN left
      PROVE  IF i > k - 1 THEN seen[left[i].def.id] = 1 /\ ~left[i].invalid
             ELSE seen[left[i].def.id] = 0
  <2>0. i \in Nat
    <3>1. k - 1 \in 0 .. Len(left) /\ IF i < k THEN from[i] = i ELSE from[i] >= k
      BY DEF TurnLeaves
    <3> QED BY <3>1
  <2>1. /\ from[i] \in DOMAIN items
        /\ left[i] = IF from[i] = k THEN item ELSE items[from[i]]
        /\ IF i < k THEN from[i] = i ELSE from[i] >= k
    BY DEF TurnLeaves
  <2>2. CASE from[i] = k
    <3>1. left[i] = item /\ ~(i < k)
      BY <1>1, <2>1, <2>2
    <3>2. i > k - 1
      BY <1>1, <2>0, <3>1
    <3> QED BY <1>3, <3>1, <3>2
  <2>3. CASE from[i] # k
    <3>1. left[i] = items[from[i]] /\ items[from[i]].def.id # id /\ items[from[i]].def.id \in Ids
      BY <1>1, <2>1, <2>3 DEF Distinct
    <3>2. seen[left[i].def.id] = visits[items[from[i]].def.id]
      BY <1>3, <3>1
    <3>3. (i > k - 1) <=> (from[i] > k)
      BY <1>1, <2>0, <2>1, <2>3
    <3>4. IF from[i] > k
          THEN visits[items[from[i]].def.id] = 1 /\ ~items[from[i]].invalid
          ELSE visits[items[from[i]].def.id] = 0
      BY <2>1 DEF Seen
    <3> HIDE DEF id
    <3> QED BY <3>1, <3>2, <3>3, <3>4
  <2> QED BY <2>2, <2>3
<1> QED BY <1>3, <1>4 DEF Seen

\* The other items have not.
LEMMA OthersSeen ==
  ASSUME NEW others, NEW index, Seen(visits, others, index), visits \in [Ids -> 0 .. 1],
         NEW id \in Ids, id \notin IdsOf(others),
         \A i \in DOMAIN others : others[i].def.id \in Ids,
         NEW seen, seen = [visits EXCEPT ![id] = @ + 1]
  PROVE  Seen(seen, others, index)
<1>1. \A i \in DOMAIN others : seen[others[i].def.id] = visits[others[i].def.id]
  BY DEF IdsOf
<1> QED BY <1>1 DEF Seen

\* A turn leaves some of the definitions, and revives none.
LEMMA TurnShrinksTriggers ==
  ASSUME NEW left, NEW items, NEW k \in DOMAIN items, NEW item, item.def = items[k].def,
         TriggerActive(item.state) => TriggerActive(items[k].state),
         NEW from, NEW gone, TurnLeaves(left, items, k, item, from, gone)
  PROVE  ShrunkTriggers(left, items)
<1>1. /\ from \in [DOMAIN left -> DOMAIN items]
      /\ \A i, j \in DOMAIN left : from[i] = from[j] => i = j
  BY DEF TurnLeaves
<1>2. ASSUME NEW i \in DOMAIN left
      PROVE  /\ left[i].def = items[from[i]].def
             /\ TriggerActive(left[i].state) => TriggerActive(items[from[i]].state)
  <2>1. left[i] = IF from[i] = k THEN item ELSE items[from[i]]
    BY DEF TurnLeaves
  <2> QED BY <2>1
<1> QED BY <1>1, <1>2 DEF ShrunkTriggers

LEMMA TurnShrinksBoards ==
  ASSUME NEW left, NEW items, NEW k \in DOMAIN items, NEW item, item.def = items[k].def,
         Board!LboardActive(item.state) => Board!LboardActive(items[k].state),
         NEW from, NEW gone, TurnLeaves(left, items, k, item, from, gone)
  PROVE  ShrunkBoards(left, items)
<1>1. /\ from \in [DOMAIN left -> DOMAIN items]
      /\ \A i, j \in DOMAIN left : from[i] = from[j] => i = j
  BY DEF TurnLeaves
<1>2. ASSUME NEW i \in DOMAIN left
      PROVE  /\ left[i].def = items[from[i]].def
             /\ Board!LboardActive(left[i].state) => Board!LboardActive(items[from[i]].state)
  <2>1. left[i] = IF from[i] = k THEN item ELSE items[from[i]]
    BY DEF TurnLeaves
  <2> QED BY <2>1
<1> QED BY <1>1, <1>2 DEF ShrunkBoards

\* Achievements and leaderboards have different ids.
LEMMA IdsApart ==
  ASSUME Lists
  PROVE  /\ Known(host.achievements) /\ Known(host.leaderboards)
         /\ \A i \in DOMAIN triggers : triggers[i].def.id \in Ids
         /\ \A i \in DOMAIN lboards : lboards[i].def.id \in Ids
         /\ \A i \in DOMAIN triggers : triggers[i].def.id \notin IdsOf(lboards)
         /\ \A i \in DOMAIN lboards : lboards[i].def.id \notin IdsOf(triggers)
         /\ \A i \in DOMAIN triggers : triggers[i].def.id \in DOMAIN view
         /\ \A i \in DOMAIN lboards : lboards[i].def.id \in DOMAIN view
         /\ IdsOf(triggers) \cap IdsOf(lboards) = {}
<1>1. /\ host \in Hosts /\ IsList(triggers, host.achievements, TriggerStates)
      /\ IsList(lboards, host.leaderboards, BoardStates)
      /\ DOMAIN view = IdsOf(triggers) \cup IdsOf(lboards)
  BY DEF Lists, Synced
<1>2. Known(host.achievements) /\ Known(host.leaderboards)
  BY <1>1, HostFacts
<1>3. \A i \in DOMAIN triggers : triggers[i].def \in host.achievements
                                /\ triggers[i].def.id \in Ids
  BY <1>1, <1>2, ListFacts, ItemFacts
<1>4. \A i \in DOMAIN lboards : lboards[i].def \in host.leaderboards
                               /\ lboards[i].def.id \in Ids
  BY <1>1, <1>2, ListFacts, ItemFacts
<1>5. \A i \in DOMAIN triggers : \A j \in DOMAIN lboards : triggers[i].def.id # lboards[j].def.id
  BY <1>1, <1>3, <1>4, HostFacts
<1>6. \A i \in DOMAIN triggers : triggers[i].def.id \in DOMAIN view
  BY <1>1 DEF IdsOf
<1>7. \A i \in DOMAIN lboards : lboards[i].def.id \in DOMAIN view
  BY <1>1 DEF IdsOf
<1>8. IdsOf(triggers) \cap IdsOf(lboards) = {}
  BY <1>5 DEF IdsOf
<1>9. \A i \in DOMAIN triggers : triggers[i].def.id \notin IdsOf(lboards)
  BY <1>5 DEF IdsOf
<1>10. \A i \in DOMAIN lboards : lboards[i].def.id \notin IdsOf(triggers)
  BY <1>5 DEF IdsOf
<1> QED BY <1>2, <1>3, <1>4, <1>6, <1>7, <1>8, <1>9, <1>10

LEMMA VisitTriggerKeeps ==
  ASSUME Lists, Walk, VisitTrigger
  PROVE  Lists' /\ Walk' /\ ShrunkTriggers(triggers', triggers)
<1> DEFINE old == triggers[at]
           id == old.def.id
           defs == host.achievements
<1>1. /\ loop = "triggers" /\ at \in DOMAIN triggers
      /\ visits' = [visits EXCEPT ![id] = @ + 1]
      /\ at' = Following(at, Len(triggers))
      /\ UNCHANGED <<host, lboards, richpresence, loop>>
  BY DEF VisitTrigger, LookedAt
<1>2. /\ host \in Hosts /\ IsList(triggers, defs, TriggerStates)
      /\ IsList(lboards, host.leaderboards, BoardStates)
      /\ DOMAIN view = IdsOf(triggers) \cup IdsOf(lboards)
      /\ FollowsTriggers(view, triggers) /\ FollowsBoards(view, lboards)
      /\ IsScript(richpresence, host.scripts)
  BY DEF Lists, Synced
<1>3. /\ visits \in [Ids -> 0 .. 1] /\ Seen(visits, triggers, at)
      /\ Seen(visits, lboards, Len(lboards))
  BY <1>1 DEF Walk
<1>4. /\ Known(defs) /\ id \in Ids /\ id \in DOMAIN view /\ id \notin IdsOf(lboards)
      /\ \A i \in DOMAIN lboards : lboards[i].def.id \in Ids /\ lboards[i].def.id \in DOMAIN view
  BY <1>1, IdsApart
<1>5. old \in ItemsOf(defs, TriggerStates) /\ old.state \in TriggerStates /\ view[id] = old.state
  BY <1>1, <1>2, <1>4, ListFacts, ItemFacts DEF FollowsTriggers
<1>6. \E item \in ItemsOf(defs, TriggerStates) : \E events :
        /\ item.def = old.def /\ ~item.invalid
        /\ Tells(events, view[id], item.state)
        /\ TriggerActive(item.state) => TriggerActive(old.state)
        /\ \E v \in Visited(triggers, item, events) : triggers' = v.items /\ view' = v.view
  <2>1. CASE old.invalid
    <3>1. \E v \in Visited(triggers, Disabled(old), <<"DISABLED">>) :
            triggers' = v.items /\ view' = v.view
      BY <2>1 DEF VisitTrigger
    <3>2. /\ Disabled(old) \in ItemsOf(defs, TriggerStates) /\ Disabled(old).def = old.def
          /\ Disabled(old).state = "DISABLED" /\ ~Disabled(old).invalid
      BY <1>4, <1>5, "DISABLED" \in TriggerStates, DisabledItem DEF TriggerStates
    <3>3. Tells(<<"DISABLED">>, view[id], "DISABLED")
      <4>1. view[id] \in Words /\ "DISABLED" \in Words
        BY <1>5 DEF TriggerStates, Words
      <4>2. Tells(<<>> \o <<"DISABLED">>, view[id], Follow(view[id], "DISABLED"))
        <5> HIDE DEF id
        <5> QED BY <4>1, TellsNothing, TellsMore
      <4>3. Follow(view[id], "DISABLED") = "DISABLED" /\ <<>> \o <<"DISABLED">> = <<"DISABLED">>
        BY DEF Follow
      <4> QED BY <4>2, <4>3
    <3>4. ~TriggerActive("DISABLED")
      BY DEF TriggerActive
    <3> QED BY <3>1, <3>2, <3>3, <3>4
  <2>2. CASE ~old.invalid
    <3>1. PICK o \in Evaluations(old) :
            \E v \in Visited(triggers, o.item, TriggerEvents(old, o.item, o.returned)) :
              triggers' = v.items /\ view' = v.view
      BY <2>2 DEF VisitTrigger
    <3> HIDE DEF old
    <3>2. /\ o.item \in ItemsOf(defs, TriggerStates) /\ o.item.def = old.def
          /\ SameMark(o.item, old)
          /\ Tells(TriggerEvents(old, o.item, o.returned), old.state, o.item.state)
          /\ TriggerActive(o.item.state) => TriggerActive(old.state)
      BY <1>4, <1>5, EvaluationFacts
    <3>3. ~o.item.invalid
      BY <2>2, <3>2 DEF SameMark
    <3> HIDE DEF id
    <3> QED BY <1>5, <3>1, <3>2, <3>3
  <2> QED BY <2>1, <2>2
<1>6a. PICK item \in ItemsOf(defs, TriggerStates) : \E events :
        /\ item.def = old.def /\ ~item.invalid
        /\ Tells(events, view[id], item.state)
        /\ TriggerActive(item.state) => TriggerActive(old.state)
        /\ \E v \in Visited(triggers, item, events) : triggers' = v.items /\ view' = v.view
  BY <1>6
<1>7. PICK events :
        /\ item.def = old.def /\ ~item.invalid
        /\ Tells(events, view[id], item.state)
        /\ TriggerActive(item.state) => TriggerActive(old.state)
        /\ \E v \in Visited(triggers, item, events) : triggers' = v.items /\ view' = v.view
  BY <1>6a
<1>8. /\ IsList(triggers', defs, TriggerStates)
      /\ TurnDone(triggers', view', triggers, at, item, item.state)
  <2>1. PICK v \in Visited(triggers, item, events) : triggers' = v.items /\ view' = v.view
    BY <1>7
  <2>2. Tells(events, view[triggers[at].def.id], item.state) /\ item.def = triggers[at].def
        /\ triggers[at].def.id \in DOMAIN view
    BY <1>4, <1>7
  <2> HIDE DEF old, id, defs
  <2>3. /\ IsList(v.items, defs, TriggerStates)
        /\ TurnDone(v.items, v.view, triggers, at, item, item.state)
    BY <1>1, <1>2, <1>7, <2>2, TurnFacts
  <2> QED BY <2>1, <2>3
<1>0. PICK from : \E gone \in {0, 1} :
           /\ TurnLeaves(triggers', triggers, at, item, from, gone)
           /\ TurnTells(view', item.def.id, item.state, gone)
           /\ IdsOf(triggers') = IF gone = 1 THEN IdsOf(triggers) \ {item.def.id}
                                 ELSE IdsOf(triggers)
  BY <1>8 DEF TurnDone
<1>9. PICK gone \in {0, 1} :
           /\ TurnLeaves(triggers', triggers, at, item, from, gone)
           /\ TurnTells(view', id, item.state, gone)
           /\ IdsOf(triggers') = IF gone = 1 THEN IdsOf(triggers) \ {id} ELSE IdsOf(triggers)
  BY <1>0, <1>7
<1>10. DOMAIN view' = IdsOf(triggers') \cup IdsOf(lboards')
  BY <1>1, <1>2, <1>4, <1>9 DEF TurnTells
<1>11. FollowsTriggers(view', triggers')
  <2> SUFFICES ASSUME NEW i \in DOMAIN triggers'
               PROVE  view'[triggers'[i].def.id] = triggers'[i].state
    BY DEF FollowsTriggers
  <2>1. /\ from[i] \in DOMAIN triggers
        /\ triggers'[i] = IF from[i] = at THEN item ELSE triggers[from[i]]
        /\ gone = 1 => from[i] # at
    BY <1>9 DEF TurnLeaves
  <2>2. CASE from[i] = at
    BY <1>7, <1>9, <2>1, <2>2 DEF TurnTells
  <2>3. CASE from[i] # at
    <3>1. triggers'[i] = triggers[from[i]] /\ triggers[from[i]].def.id # id
      BY <1>1, <1>2, <2>1, <2>3, ListFacts DEF Distinct
    <3>2. view'[triggers[from[i]].def.id] = view[triggers[from[i]].def.id]
      BY <1>9, <2>1, <3>1, IdsApart DEF TurnTells
    <3>3. view[triggers[from[i]].def.id] = triggers[from[i]].state
      BY <1>2, <2>1 DEF FollowsTriggers
    <3> QED BY <3>1, <3>2, <3>3
  <2> QED BY <2>2, <2>3
<1>12. FollowsBoards(view', lboards')
  <2>1. \A i \in DOMAIN lboards : view'[lboards[i].def.id] = view[lboards[i].def.id]
    <3>1. \A i \in DOMAIN lboards : lboards[i].def.id # id
      BY <1>4 DEF IdsOf
    <3> QED BY <1>4, <1>9, <3>1 DEF TurnTells
  <2> QED BY <1>1, <1>2, <2>1 DEF FollowsBoards
<1>13. Lists'
  BY <1>1, <1>2, <1>8, <1>10, <1>11, <1>12 DEF Lists, Synced
<1>14. at' = at - 1 /\ at - 1 \in 0 .. Len(triggers')
  <2>1. at # 0
    BY <1>1, <1>2, ListFacts
  <2> QED BY <1>1, <1>9, <2>1 DEF Following, TurnLeaves
<1>15. Seen(visits', triggers', at - 1) /\ visits' \in [Ids -> 0 .. 1]
  BY <1>1, <1>2, <1>3, <1>4, <1>7, <1>9, TurnSeen
<1>16. Seen(visits', lboards', Len(lboards'))
  BY <1>1, <1>3, <1>4, OthersSeen
<1>17. Walk'
  <2>1. loop' = "triggers" /\ lboards' = lboards
    BY <1>1
  <2> QED BY <1>14, <1>15, <1>16, <2>1 DEF Walk
<1>18. ShrunkTriggers(triggers', triggers)
  BY <1>1, <1>7, <1>9, TurnShrinksTriggers
<1> QED BY <1>13, <1>17, <1>18

LEMMA VisitBoardKeeps ==
  ASSUME Lists, Walk, VisitBoard
  PROVE  Lists' /\ Walk' /\ ShrunkBoards(lboards', lboards)
<1> DEFINE old == lboards[at]
           id == old.def.id
           defs == host.leaderboards
<1>1. /\ loop = "lboards" /\ at \in DOMAIN lboards
      /\ visits' = [visits EXCEPT ![id] = @ + 1]
      /\ at' = Following(at, Len(lboards))
      /\ UNCHANGED <<host, triggers, richpresence, loop>>
  BY DEF VisitBoard, LookedAt
<1>2. /\ host \in Hosts /\ IsList(lboards, defs, BoardStates)
      /\ IsList(triggers, host.achievements, TriggerStates)
      /\ DOMAIN view = IdsOf(triggers) \cup IdsOf(lboards)
      /\ FollowsTriggers(view, triggers) /\ FollowsBoards(view, lboards)
      /\ IsScript(richpresence, host.scripts)
  BY DEF Lists, Synced
<1>3. /\ visits \in [Ids -> 0 .. 1] /\ Seen(visits, lboards, at)
      /\ Seen(visits, triggers, 0) /\ ToldAbove(lboards, at)
  BY <1>1 DEF Walk
<1>4. /\ Known(defs) /\ id \in Ids /\ id \in DOMAIN view /\ id \notin IdsOf(triggers)
      /\ \A i \in DOMAIN triggers : triggers[i].def.id \in Ids /\ triggers[i].def.id \in DOMAIN view
  BY <1>1, IdsApart
<1>5. /\ old \in ItemsOf(defs, BoardStates) /\ old.state \in BoardStates
      /\ view[id] \in Words /\ SameAttempt(view[id], old.state)
  BY <1>1, <1>2, <1>4, ListFacts, ItemFacts DEF FollowsBoards
<1>6. \E item \in ItemsOf(defs, BoardStates) : \E events : \E became :
        /\ item.def = old.def /\ ~item.invalid
        /\ Tells(events, view[id], became) /\ SameAttempt(became, item.state)
        /\ Board!LboardActive(item.state) => Board!LboardActive(old.state)
        /\ item.state = "STARTED" => item.announced = item.data
        /\ \E v \in Visited(lboards, item, events) : lboards' = v.items /\ view' = v.view
  <2>1. CASE old.invalid
    <3>1. \E v \in Visited(lboards, Disabled(old), <<"DISABLED">>) :
            lboards' = v.items /\ view' = v.view
      BY <2>1 DEF VisitBoard
    <3>2. /\ Disabled(old) \in ItemsOf(defs, BoardStates) /\ Disabled(old).def = old.def
          /\ Disabled(old).state = "DISABLED" /\ ~Disabled(old).invalid
      BY <1>4, <1>5, "DISABLED" \in BoardStates, DisabledItem DEF BoardStates
    <3>3. Tells(<<"DISABLED">>, view[id], "DISABLED")
      <4>1. view[id] \in Words /\ "DISABLED" \in Words
        BY <1>5 DEF Words
      <4>2. Tells(<<>> \o <<"DISABLED">>, view[id], Follow(view[id], "DISABLED"))
        <5> HIDE DEF id
        <5> QED BY <4>1, TellsNothing, TellsMore
      <4>3. Follow(view[id], "DISABLED") = "DISABLED" /\ <<>> \o <<"DISABLED">> = <<"DISABLED">>
        BY DEF Follow
      <4> QED BY <4>2, <4>3
    <3>4. ~Board!LboardActive("DISABLED") /\ SameAttempt("DISABLED", "DISABLED")
      BY DEF Board!LboardActive, SameAttempt
    <3> QED BY <3>1, <3>2, <3>3, <3>4
  <2>2. CASE ~old.invalid
    <3>1. PICK o \in BoardEvaluations(old) :
            \E events \in {BoardEvents(old, o.item, o.returned)} :
              \E v \in Visited(lboards, Announced(o.item, events), events) :
                lboards' = v.items /\ view' = v.view
      BY <2>2 DEF VisitBoard
    <3> DEFINE events == BoardEvents(old, o.item, o.returned)
               told == Announced(o.item, events)
    <3>2. \E v \in Visited(lboards, told, events) : lboards' = v.items /\ view' = v.view
      BY <3>1
    <3>3. events = BoardEvents(old, o.item, o.returned) /\ told = Announced(o.item, events)
      OBVIOUS
    <3> HIDE DEF old, events, told
    <3>4. /\ told \in ItemsOf(defs, BoardStates) /\ told.def = old.def
          /\ SameMark(told, old)
          /\ \E became : Tells(events, view[id], became) /\ SameAttempt(became, told.state)
          /\ Board!LboardActive(told.state) => Board!LboardActive(old.state)
          /\ told.state = "STARTED" => told.announced = told.data
      <4> HIDE DEF id
      <4> QED BY <1>4, <1>5, <3>3, BoardEvaluationFacts
    <3>5. ~told.invalid
      BY <2>2, <3>4 DEF SameMark
    <3> HIDE DEF id
    <3> QED BY <3>2, <3>4, <3>5
  <2> QED BY <2>1, <2>2
<1>7. PICK item \in ItemsOf(defs, BoardStates) : \E events : \E became :
        /\ item.def = old.def /\ ~item.invalid
        /\ Tells(events, view[id], became) /\ SameAttempt(became, item.state)
        /\ Board!LboardActive(item.state) => Board!LboardActive(old.state)
        /\ item.state = "STARTED" => item.announced = item.data
        /\ \E v \in Visited(lboards, item, events) : lboards' = v.items /\ view' = v.view
  BY <1>6
<1>7a. PICK events, became :
        /\ item.def = old.def /\ ~item.invalid
        /\ Tells(events, view[id], became) /\ SameAttempt(became, item.state)
        /\ Board!LboardActive(item.state) => Board!LboardActive(old.state)
        /\ item.state = "STARTED" => item.announced = item.data
        /\ \E v \in Visited(lboards, item, events) : lboards' = v.items /\ view' = v.view
  BY <1>7
<1>7b. became \in Words
  <2>1. FoldLeft(Follow, view[id], events) = became
    BY <1>7a, TellsFold
  <2>2. view[id] \in Words /\ events \in Seq(Words)
    BY <1>7a DEF Tells
  <2>3. PICK h : FollowRun(h, view[id], events)
                 /\ h[Len(events)] = FoldLeft(Follow, view[id], events)
    <3> HIDE DEF id
    <3> QED BY <2>2, FollowedRuns
  <2>4. h[Len(events)] \in Words
    BY <2>2, <2>3 DEF FollowRun
  <2> QED BY <2>1, <2>3, <2>4
<1>8. /\ IsList(lboards', defs, BoardStates)
      /\ TurnDone(lboards', view', lboards, at, item, became)
  <2>1. PICK v \in Visited(lboards, item, events) : lboards' = v.items /\ view' = v.view
    BY <1>7a
  <2>2. Tells(events, view[lboards[at].def.id], became) /\ item.def = lboards[at].def
        /\ lboards[at].def.id \in DOMAIN view
    BY <1>4, <1>7a
  <2> HIDE DEF old, id, defs
  <2>3. /\ IsList(v.items, defs, BoardStates)
        /\ TurnDone(v.items, v.view, lboards, at, item, became)
    BY <1>1, <1>2, <1>7, <2>2, TurnFacts
  <2> QED BY <2>1, <2>3
<1>0. PICK from : \E gone \in {0, 1} :
           /\ TurnLeaves(lboards', lboards, at, item, from, gone)
           /\ TurnTells(view', item.def.id, became, gone)
           /\ IdsOf(lboards') = IF gone = 1 THEN IdsOf(lboards) \ {item.def.id}
                                ELSE IdsOf(lboards)
  BY <1>8 DEF TurnDone
<1>9. PICK gone \in {0, 1} :
           /\ TurnLeaves(lboards', lboards, at, item, from, gone)
           /\ TurnTells(view', id, became, gone)
           /\ IdsOf(lboards') = IF gone = 1 THEN IdsOf(lboards) \ {id} ELSE IdsOf(lboards)
  BY <1>0, <1>7a
<1>10. DOMAIN view' = IdsOf(triggers') \cup IdsOf(lboards')
  BY <1>1, <1>2, <1>4, <1>9 DEF TurnTells
<1>11. ASSUME NEW i \in DOMAIN lboards'
       PROVE  /\ from[i] \in DOMAIN lboards
              /\ IF from[i] = at
                 THEN lboards'[i] = item /\ view'[lboards'[i].def.id] = became
                 ELSE /\ lboards'[i] = lboards[from[i]]
                      /\ view'[lboards'[i].def.id] = view[lboards[from[i]].def.id]
  <2>1. /\ from[i] \in DOMAIN lboards
        /\ lboards'[i] = IF from[i] = at THEN item ELSE lboards[from[i]]
        /\ gone = 1 => from[i] # at
    BY <1>9 DEF TurnLeaves
  <2>2. CASE from[i] = at
    BY <1>7a, <1>9, <2>1, <2>2 DEF TurnTells
  <2>3. CASE from[i] # at
    <3>1. lboards'[i] = lboards[from[i]] /\ lboards[from[i]].def.id # id
      BY <1>1, <1>2, <2>1, <2>3, ListFacts DEF Distinct
    <3>2. view'[lboards[from[i]].def.id] = view[lboards[from[i]].def.id]
      BY <1>9, <2>1, <3>1, IdsApart DEF TurnTells
    <3> QED BY <2>1, <2>3, <3>1, <3>2
  <2> QED BY <2>2, <2>3
<1>12. FollowsBoards(view', lboards')
  <2> SUFFICES ASSUME NEW i \in DOMAIN lboards'
               PROVE  /\ view'[lboards'[i].def.id] \in Words
                      /\ SameAttempt(view'[lboards'[i].def.id], lboards'[i].state)
    BY DEF FollowsBoards
  <2>1. CASE from[i] = at
    BY <1>11, <1>7a, <1>7b, <2>1
  <2>2. CASE from[i] # at
    BY <1>2, <1>11, <2>2 DEF FollowsBoards
  <2> QED BY <2>1, <2>2
<1>13. FollowsTriggers(view', triggers')
  <2>1. \A i \in DOMAIN triggers : view'[triggers[i].def.id] = view[triggers[i].def.id]
    <3>1. \A i \in DOMAIN triggers : triggers[i].def.id # id
      BY <1>4 DEF IdsOf
    <3> QED BY <1>4, <1>9, <3>1 DEF TurnTells
  <2> QED BY <1>1, <1>2, <2>1 DEF FollowsTriggers
<1>14. Lists'
  <2>1. loop' = "lboards"
    BY <1>1
  <2> QED BY <1>1, <1>2, <1>8, <1>10, <1>12, <1>13, <2>1 DEF Lists, Synced
<1>15. at' = at - 1 /\ at - 1 \in 0 .. Len(lboards')
  <2>1. at # 0
    BY <1>1, <1>2, ListFacts
  <2> QED BY <1>1, <1>9, <2>1 DEF Following, TurnLeaves
<1>16. Seen(visits', lboards', at - 1) /\ visits' \in [Ids -> 0 .. 1]
  BY <1>1, <1>2, <1>3, <1>4, <1>7a, <1>9, TurnSeen
<1>17. Seen(visits', triggers', 0)
  BY <1>1, <1>3, <1>4, OthersSeen
<1>18. ToldAbove(lboards', at - 1)
  <2> SUFFICES ASSUME NEW i \in DOMAIN lboards', i > at - 1, lboards'[i].state = "STARTED"
               PROVE  lboards'[i].announced = lboards'[i].data
    BY DEF ToldAbove
  <2>0. at \in Nat /\ i \in Nat /\ DOMAIN lboards \subseteq Nat
    <3>1. IsList(lboards', defs, BoardStates)
      BY <1>8
    <3> QED BY <1>1, <1>2, <3>1, ListFacts
  <2>1. CASE from[i] = at
    BY <1>11, <1>7a, <2>1
  <2>2. CASE from[i] # at
    <3>1. from[i] >= at /\ from[i] \in DOMAIN lboards
      BY <1>9, <2>0 DEF TurnLeaves
    <3>2. from[i] > at
      BY <2>0, <2>2, <3>1
    <3> QED BY <1>3, <1>11, <2>2, <3>1, <3>2 DEF ToldAbove
  <2> QED BY <2>1, <2>2
<1>19. Walk'
  <2>1. loop' = "lboards" /\ triggers' = triggers
    BY <1>1
  <2> QED BY <1>15, <1>16, <1>17, <1>18, <2>1 DEF Walk
<1>20. ShrunkBoards(lboards', lboards)
  BY <1>1, <1>7a, <1>9, TurnShrinksBoards
<1> QED BY <1>14, <1>19, <1>20

\* The steps between the loops.
LEMMA BeginFrameKeeps ==
  ASSUME Lists, Walk, BeginFrame
  PROVE  Lists' /\ Walk'
<1>1. /\ loop' = "triggers" /\ at' = Len(triggers)
      /\ visits' = [id \in Ids |-> 0]
      /\ UNCHANGED <<host, triggers, lboards, richpresence, view>>
  BY DEF BeginFrame, Following, runtime
<1>2. Lists'
  BY <1>1 DEF Lists
<1>3. /\ Len(triggers) \in Nat /\ DOMAIN triggers = 1 .. Len(triggers)
      /\ Len(lboards) \in Nat /\ DOMAIN lboards = 1 .. Len(lboards)
  BY ListFacts DEF Lists
<1>4. visits' \in [Ids -> 0 .. 1]
  BY <1>1
<1>5. Seen(visits', triggers', at')
  BY <1>1, <1>3, IdsApart DEF Seen
<1>6. Seen(visits', lboards', Len(lboards'))
  BY <1>1, <1>3, IdsApart DEF Seen
<1> QED BY <1>1, <1>2, <1>3, <1>4, <1>5, <1>6 DEF Walk

LEMMA BeginBoardsKeeps ==
  ASSUME Lists, Walk, BeginBoards
  PROVE  Lists' /\ Walk'
<1>1. /\ loop = "triggers" /\ at \notin DOMAIN triggers
      /\ loop' = "lboards" /\ at' = Len(lboards)
      /\ UNCHANGED <<host, triggers, lboards, richpresence, view, visits>>
  BY DEF BeginBoards, Following, runtime, history
<1>2. Lists'
  BY <1>1 DEF Lists
<1>3. /\ Len(triggers) \in Nat /\ DOMAIN triggers = 1 .. Len(triggers)
      /\ Len(lboards) \in Nat /\ DOMAIN lboards = 1 .. Len(lboards)
  BY ListFacts DEF Lists
<1>4. /\ visits \in [Ids -> 0 .. 1] /\ at \in 0 .. Len(triggers)
      /\ Seen(visits, triggers, at) /\ Seen(visits, lboards, Len(lboards))
  BY <1>1 DEF Walk
<1>5. at = 0
  BY <1>1, <1>3, <1>4
<1>6. ToldAbove(lboards, Len(lboards))
  BY <1>3 DEF ToldAbove
<1> QED BY <1>1, <1>2, <1>3, <1>4, <1>5, <1>6 DEF Walk

LEMMA EndBoardsKeeps ==
  ASSUME Lists, Walk, EndBoards
  PROVE  Lists' /\ Walk'
<1>1. /\ loop = "lboards" /\ at \notin DOMAIN lboards
      /\ loop' = "richpresence"
      /\ UNCHANGED <<host, triggers, lboards, richpresence, view, visits>>
  BY DEF EndBoards, runtime, history
<1>2. Lists'
  BY <1>1 DEF Lists
<1>3. Len(lboards) \in Nat /\ DOMAIN lboards = 1 .. Len(lboards)
  BY ListFacts DEF Lists
<1>4. /\ visits \in [Ids -> 0 .. 1] /\ at \in 0 .. Len(lboards)
      /\ Seen(visits, triggers, 0) /\ Seen(visits, lboards, at) /\ ToldAbove(lboards, at)
  BY <1>1 DEF Walk
<1>5. at = 0
  BY <1>1, <1>3, <1>4
<1> QED BY <1>1, <1>2, <1>4, <1>5 DEF Walk
-----------------------------------------------------------------------------
(* The script.                                                             *)

LEMMA NewScript ==
  ASSUME NEW scripts, NEW s \in scripts, NEW v, NEW c,
         DOMAIN v = Range(s.names), v = [n \in DOMAIN v |-> v[n]], s.conditional \/ c = 0
  PROVE  IsScript([script |-> s, values |-> v, conditions |-> c], scripts)
<1> DEFINE rp == [script |-> s, values |-> v, conditions |-> c]
<1>1. rp.script = s /\ rp.values = v /\ rp.conditions = c
  OBVIOUS
<1>2. rp = [script |-> rp.script, values |-> rp.values, conditions |-> rp.conditions]
  OBVIOUS
<1>3. IsScript(rp, scripts)
  <2> HIDE DEF rp
  <2> QED BY <1>1, <1>2 DEF IsScript
<1> QED BY <1>3

LEMMA ScriptFacts ==
  ASSUME NEW scripts, NEW rp, IsScript(rp, scripts), rp # NoScript
  PROVE  /\ rp = [script |-> rp.script, values |-> rp.values, conditions |-> rp.conditions]
         /\ rp.script \in scripts
         /\ DOMAIN rp.values = Range(rp.script.names)
         /\ rp.values = [n \in DOMAIN rp.values |-> rp.values[n]]
         /\ rp.script.conditional \/ rp.conditions = 0
BY DEF IsScript

\* A record of a script is not that of none.
LEMMA SomeScript ==
  ASSUME NEW s, NEW v, NEW c
  PROVE  [script |-> s, values |-> v, conditions |-> c] # NoScript
<1>1. "script" \in DOMAIN [script |-> s, values |-> v, conditions |-> c]
  OBVIOUS
<1>2. "script" \notin DOMAIN NoScript
  BY DEF NoScript
<1> QED BY <1>1, <1>2

LEMMA UntouchedFacts ==
  ASSUME NEW scripts, NEW s \in scripts
  PROVE  IsScript(Untouched(s), scripts)
<1> DEFINE v == [n \in Range(s.names) |-> 0]
<1>1. DOMAIN v = Range(s.names) /\ v = [n \in DOMAIN v |-> v[n]]
  OBVIOUS
<1> HIDE DEF v
<1>2. IsScript([script |-> s, values |-> v, conditions |-> 0], scripts)
  BY <1>1, NewScript
<1> QED BY <1>2 DEF Untouched, v

LEMMA ResetScriptFacts ==
  ASSUME NEW scripts, NEW rp, IsScript(rp, scripts)
  PROVE  IsScript(ResetScript(rp), scripts)
<1>1. CASE rp = NoScript
  BY <1>1 DEF ResetScript, IsScript
<1>2. CASE rp # NoScript
  BY <1>2, ScriptFacts, UntouchedFacts DEF ResetScript
<1> QED BY <1>1, <1>2

\* A frame gives the values and conditions of a script, which stays the same.
LEMMA UpdatedScript ==
  ASSUME IsScript(richpresence, host.scripts), UpdateRichpresence
  PROVE  IsScript(richpresence', host.scripts)
         /\ ScriptSize(richpresence') = ScriptSize(richpresence)
<1>1. CASE richpresence = NoScript
  <2>1. richpresence' = richpresence
    BY <1>1 DEF UpdateRichpresence
  <2> QED BY <2>1
<1>2. CASE richpresence # NoScript
  <2> DEFINE rp == richpresence
             s == rp.script
  <2>1. PICK data \in 0 .. 1 :
          richpresence' = [rp EXCEPT !.values = [n \in DOMAIN @ |-> data],
                                     !.conditions = IF s.conditional THEN data ELSE 0]
    BY <1>2 DEF UpdateRichpresence
  <2> DEFINE w == [n \in DOMAIN rp.values |-> data]
             d == IF s.conditional THEN data ELSE 0
  <2>2. richpresence' = [[rp EXCEPT !.values = w] EXCEPT !.conditions = d]
    BY <2>1
  <2>3. /\ rp = [script |-> s, values |-> rp.values, conditions |-> rp.conditions]
        /\ s \in host.scripts /\ DOMAIN rp.values = Range(s.names)
    BY <1>2, ScriptFacts
  <2>4. DOMAIN w = Range(s.names) /\ w = [n \in DOMAIN w |-> w[n]] /\ (s.conditional \/ d = 0)
    BY <2>3
  <2> HIDE DEF w, d, rp, s
  <2>5. richpresence' = [script |-> s, values |-> w, conditions |-> d]
    <3> DEFINE v == rp.values
               c == rp.conditions
               q == [script |-> s, values |-> v, conditions |-> c]
               p == [script |-> s, values |-> w, conditions |-> c]
    <3>1. rp = q
      BY <2>3
    <3> HIDE DEF v, c
    <3>2. [q EXCEPT !.values = w] = p
      OBVIOUS
    <3>3. [p EXCEPT !.conditions = d] = [script |-> s, values |-> w, conditions |-> d]
      OBVIOUS
    <3> HIDE DEF q, p
    <3> QED BY <2>2, <3>1, <3>2, <3>3
  <2>6. IsScript(richpresence', host.scripts)
    BY <2>3, <2>4, <2>5, NewScript
  <2>7. richpresence' # NoScript
    BY <2>5, SomeScript
  <2>8. richpresence'.script = s
    BY <2>5
  <2>9. ScriptSize(richpresence') = Len(s.names) + (IF s.conditional THEN 1 ELSE 0)
    BY <2>7, <2>8 DEF ScriptSize
  <2>10. ScriptSize(richpresence) = Len(s.names) + (IF s.conditional THEN 1 ELSE 0)
    BY <1>2 DEF ScriptSize, s, rp
  <2> QED BY <2>6, <2>9, <2>10
<1> QED BY <1>1, <1>2

LEMMA UpdateRichpresenceKeeps ==
  ASSUME Lists, Walk, UpdateRichpresence
  PROVE  Lists' /\ Walk'
<1>1. /\ loop' = "idle"
      /\ UNCHANGED <<host, triggers, lboards, view, visits>>
  BY DEF UpdateRichpresence, history
<1>2. IsScript(richpresence', host.scripts)
  BY UpdatedScript DEF Lists
<1> QED BY <1>1, <1>2 DEF Lists, Walk

-----------------------------------------------------------------------------
(* The calls of the host.                                                  *)

\* Between two frames there is no walk.
LEMMA CallWalks ==
  ASSUME Lists, Walk, NEW name, Call(name)
  PROVE  Walk' /\ host' = host /\ loop' \in {"idle", "triggers", "lboards", "richpresence"}
<1>1. loop' = "idle" /\ visits' = visits /\ host' = host
  BY DEF Call
<1> QED BY <1>1 DEF Walk

\* What the host follows of its own calls.
LEMMA KnownLists ==
  ASSUME Lists, host' = host, loop' \in {"idle", "triggers", "lboards", "richpresence"},
         IsList(triggers', host.achievements, TriggerStates),
         IsList(lboards', host.leaderboards, BoardStates),
         IsScript(richpresence', host.scripts), HostKnows
  PROVE  Lists'
<1>1. host \in Hosts
  BY DEF Lists
<1>2. Synced(Viewed(triggers', lboards'), triggers', lboards')
  BY <1>1, ViewedSynced
<1> QED BY <1>1, <1>2 DEF Lists, HostKnows

\* Items that keep their definitions and states are followed as before.
SameStates(mapped, items) ==
  /\ DOMAIN mapped = DOMAIN items
  /\ \A i \in DOMAIN items : mapped[i].def = items[i].def /\ mapped[i].state = items[i].state

LEMMA SameLists ==
  ASSUME Lists, host' = host, loop' \in {"idle", "triggers", "lboards", "richpresence"},
         IsList(triggers', host.achievements, TriggerStates),
         IsList(lboards', host.leaderboards, BoardStates),
         IsScript(richpresence', host.scripts), view' = view,
         SameStates(triggers', triggers), SameStates(lboards', lboards)
  PROVE  Lists'
<1>1. IdsOf(triggers') = IdsOf(triggers) /\ IdsOf(lboards') = IdsOf(lboards)
  BY DEF SameStates, IdsOf
<1>2. FollowsTriggers(view', triggers')
  <2>1. FollowsTriggers(view, triggers)
    BY DEF Lists, Synced
  <2> QED BY <2>1 DEF SameStates, FollowsTriggers
<1>3. FollowsBoards(view', lboards')
  <2>1. FollowsBoards(view, lboards)
    BY DEF Lists, Synced
  <2> QED BY <2>1 DEF SameStates, FollowsBoards
<1>4. DOMAIN view' = IdsOf(triggers') \cup IdsOf(lboards')
  BY <1>1 DEF Lists, Synced
<1> QED BY <1>2, <1>3, <1>4 DEF Lists, Synced

\* The stored items of a list of the same definitions, when none is revived.
FewerTriggers(mapped, items) ==
  /\ DOMAIN mapped = DOMAIN items
  /\ \A i \in DOMAIN items :
       /\ mapped[i].def = items[i].def
       /\ TriggerActive(mapped[i].state) => TriggerActive(items[i].state)

FewerBoards(mapped, items) ==
  /\ DOMAIN mapped = DOMAIN items
  /\ \A i \in DOMAIN items :
       /\ mapped[i].def = items[i].def
       /\ Board!LboardActive(mapped[i].state) => Board!LboardActive(items[i].state)

LEMMA FewerShrinks ==
  ASSUME NEW mapped, NEW items
  PROVE  /\ FewerTriggers(mapped, items) => ShrunkTriggers(mapped, items)
         /\ FewerBoards(mapped, items) => ShrunkBoards(mapped, items)
<1> DEFINE from == [i \in DOMAIN mapped |-> i]
<1>1. ASSUME FewerTriggers(mapped, items) PROVE ShrunkTriggers(mapped, items)
  <2>1. /\ from \in [DOMAIN mapped -> DOMAIN items]
        /\ \A i, j \in DOMAIN mapped : from[i] = from[j] => i = j
        /\ \A i \in DOMAIN mapped :
             /\ mapped[i].def = items[from[i]].def
             /\ TriggerActive(mapped[i].state) => TriggerActive(items[from[i]].state)
    BY <1>1 DEF FewerTriggers
  <2> HIDE DEF from
  <2> QED BY <2>1 DEF ShrunkTriggers
<1>2. ASSUME FewerBoards(mapped, items) PROVE ShrunkBoards(mapped, items)
  <2>1. /\ from \in [DOMAIN mapped -> DOMAIN items]
        /\ \A i, j \in DOMAIN mapped : from[i] = from[j] => i = j
        /\ \A i \in DOMAIN mapped :
             /\ mapped[i].def = items[from[i]].def
             /\ Board!LboardActive(mapped[i].state) => Board!LboardActive(items[from[i]].state)
    BY <1>2 DEF FewerBoards
  <2> HIDE DEF from
  <2> QED BY <2>1 DEF ShrunkBoards
<1> QED BY <1>1, <1>2

LEMMA KeptShrinks ==
  ASSUME NEW left, NEW items, NEW from, Kept(left, items, from)
  PROVE  ShrunkTriggers(left, items) /\ ShrunkBoards(left, items)
<1>1. /\ from \in [DOMAIN left -> DOMAIN items]
      /\ \A i, j \in DOMAIN left : from[i] = from[j] => i = j
      /\ \A i \in DOMAIN left : left[i] = items[from[i]]
  BY DEF Kept
<1>2. ShrunkTriggers(left, items)
  BY <1>1 DEF ShrunkTriggers
<1>3. ShrunkBoards(left, items)
  BY <1>1 DEF ShrunkBoards
<1> QED BY <1>2, <1>3

\* What the lists are.
LEMMA ListsAre ==
  ASSUME Lists
  PROVE  /\ host \in Hosts /\ Known(host.achievements) /\ Known(host.leaderboards)
         /\ IsList(triggers, host.achievements, TriggerStates)
         /\ IsList(lboards, host.leaderboards, BoardStates)
         /\ IsScript(richpresence, host.scripts)
         /\ "WAITING" \in TriggerStates /\ "WAITING" \in BoardStates
         /\ "DISABLED" \in TriggerStates /\ "DISABLED" \in BoardStates
BY HostFacts DEF Lists, TriggerStates, BoardStates

LEMMA ActivateKeeps ==
  ASSUME Lists, Walk
  PROVE  /\ \A def \in host.achievements : ActivateAchievement(def) => Lists' /\ Walk'
         /\ \A def \in host.leaderboards : ActivateLboard(def) => Lists' /\ Walk'
<1>1. ASSUME NEW def \in host.achievements, ActivateAchievement(def) PROVE Lists' /\ Walk'
  <2>1. /\ Call("other") /\ triggers' = Activated(triggers, def) /\ HostKnows
        /\ lboards' = lboards /\ richpresence' = richpresence
    BY <1>1 DEF ActivateAchievement
  <2>2. IsList(triggers', host.achievements, TriggerStates)
    BY <2>1, ListsAre, ActivatedFacts
  <2> QED BY <2>1, <2>2, ListsAre, CallWalks, KnownLists
<1>2. ASSUME NEW def \in host.leaderboards, ActivateLboard(def) PROVE Lists' /\ Walk'
  <2>1. /\ Call("other") /\ lboards' = Activated(lboards, def) /\ HostKnows
        /\ triggers' = triggers /\ richpresence' = richpresence
    BY <1>2 DEF ActivateLboard
  <2>2. IsList(lboards', host.leaderboards, BoardStates)
    BY <2>1, ListsAre, ActivatedFacts
  <2> QED BY <2>1, <2>2, ListsAre, CallWalks, KnownLists
<1> QED BY <1>1, <1>2

LEMMA DeactivateAchievementKeeps ==
  ASSUME Lists, Walk, NEW id, DeactivateAchievement(id)
  PROVE  Lists' /\ Walk' /\ ShrunkTriggers(triggers', triggers)
<1>1. /\ Call("other") /\ triggers' = Deactivated(triggers, id) /\ HostKnows
      /\ lboards' = lboards /\ richpresence' = richpresence
  BY DEF DeactivateAchievement
<1>2. /\ IsList(triggers', host.achievements, TriggerStates)
      /\ \E from : Kept(triggers', triggers, from)
  BY <1>1, ListsAre, DeactivatedFacts
<1>3. ShrunkTriggers(triggers', triggers)
  BY <1>2, KeptShrinks
<1> QED BY <1>1, <1>2, <1>3, ListsAre, CallWalks, KnownLists

LEMMA DeactivateLboardKeeps ==
  ASSUME Lists, Walk, NEW id, DeactivateLboard(id)
  PROVE  Lists' /\ Walk' /\ ShrunkBoards(lboards', lboards)
<1>1. /\ Call("other") /\ lboards' = Deactivated(lboards, id) /\ HostKnows
      /\ triggers' = triggers /\ richpresence' = richpresence
  BY DEF DeactivateLboard
<1>2. /\ IsList(lboards', host.leaderboards, BoardStates)
      /\ \E from : Kept(lboards', lboards, from)
  BY <1>1, ListsAre, DeactivatedFacts
<1>3. ShrunkBoards(lboards', lboards)
  BY <1>2, KeptShrinks
<1> QED BY <1>1, <1>2, <1>3, ListsAre, CallWalks, KnownLists

LEMMA ActivateRichpresenceKeeps ==
  ASSUME Lists, Walk, NEW script \in host.scripts, ActivateRichpresence(script)
  PROVE  Lists' /\ Walk'
<1>1. /\ Call("other") /\ triggers' = triggers /\ lboards' = lboards /\ view' = view
      /\ richpresence' = IF script.display THEN Untouched(script) ELSE NoScript
  BY DEF ActivateRichpresence
<1>2. IsScript(richpresence', host.scripts)
  <2>1. IsScript(NoScript, host.scripts)
    BY DEF IsScript
  <2> QED BY <1>1, <2>1, UntouchedFacts
<1>3. SameStates(triggers', triggers) /\ SameStates(lboards', lboards)
  BY <1>1 DEF SameStates
<1> QED BY <1>1, <1>2, <1>3, ListsAre, CallWalks, SameLists

LEMMA ResetKeeps ==
  ASSUME Lists, Walk, Call("other"), Reset
  PROVE  Lists' /\ Walk'
<1>1. /\ triggers' = ResetAll(triggers) /\ lboards' = ResetAll(lboards)
      /\ richpresence' = ResetScript(richpresence) /\ HostKnows
  BY DEF Reset
<1>2. IsList(triggers', host.achievements, TriggerStates)
  <2>1. Mapped(triggers', triggers, host.achievements, TriggerStates)
    BY <1>1, ListsAre, ListFacts, ResetFacts DEF Mapped, ResetAll
  <2> QED BY <2>1, ListsAre, MappedList
<1>3. IsList(lboards', host.leaderboards, BoardStates)
  <2>1. Mapped(lboards', lboards, host.leaderboards, BoardStates)
    BY <1>1, ListsAre, ListFacts, ResetFacts DEF Mapped, ResetAll
  <2> QED BY <2>1, ListsAre, MappedList
<1>4. IsScript(richpresence', host.scripts)
  BY <1>1, ListsAre, ResetScriptFacts
<1> QED BY <1>1, <1>2, <1>3, <1>4, CallWalks, KnownLists

\* Addresses that are not valid mark the items that read them.
LEMMA InvalidatedFacts ==
  ASSUME NEW defs, Known(defs), NEW states, NEW items, IsList(items, defs, states),
         NEW addresses
  PROVE  /\ Mapped(Invalidated(items, addresses), items, defs, states)
         /\ SameStates(Invalidated(items, addresses), items)
<1> DEFINE known == Invalidated(items, addresses)
<1>1. ASSUME NEW i \in DOMAIN items
      PROVE  /\ known[i] \in ItemsOf(defs, states)
             /\ known[i].def = items[i].def /\ known[i].state = items[i].state
  <2> DEFINE item == items[i]
             v == item.invalid \/ item.def.address \in addresses
             marked == known[i]
  <2>1. item \in ItemsOf(defs, states)
    BY ListFacts
  <2>2. marked = [item EXCEPT !.invalid = v]
    BY DEF Invalidated
  <2>3. v \in BOOLEAN
    OBVIOUS
  <2> HIDE DEF item, v, marked
  <2>4. /\ marked \in ItemsOf(defs, states)
        /\ marked.def = item.def /\ marked.state = item.state
    BY <2>1, <2>2, <2>3, MarkedItem
  <2> QED BY <2>4 DEF marked, item
<1>2. DOMAIN known = DOMAIN items /\ known = [i \in DOMAIN items |-> known[i]]
  BY DEF Invalidated
<1> HIDE DEF known
<1>3. Mapped(known, items, defs, states) /\ SameStates(known, items)
  BY <1>1, <1>2 DEF Mapped, SameStates
<1> QED BY <1>3 DEF known

\* The same definitions in the same states store the same.
LEMMA SameIsFewer ==
  ASSUME NEW mapped, NEW items, SameStates(mapped, items)
  PROVE  FewerTriggers(mapped, items) /\ FewerBoards(mapped, items)
BY DEF SameStates, FewerTriggers, FewerBoards

LEMMA InvalidateAddressKeeps ==
  ASSUME Lists, Walk, NEW address, InvalidateAddress(address)
  PROVE  /\ Lists' /\ Walk'
         /\ FewerTriggers(triggers', triggers) /\ FewerBoards(lboards', lboards)
<1>1. /\ Call("other") /\ triggers' = Invalidated(triggers, {address})
      /\ lboards' = Invalidated(lboards, {address})
      /\ richpresence' = richpresence /\ view' = view
  BY DEF InvalidateAddress
<1>2. /\ Mapped(triggers', triggers, host.achievements, TriggerStates)
      /\ SameStates(triggers', triggers)
  BY <1>1, ListsAre, InvalidatedFacts
<1>3. /\ Mapped(lboards', lboards, host.leaderboards, BoardStates)
      /\ SameStates(lboards', lboards)
  BY <1>1, ListsAre, InvalidatedFacts
<1>4. /\ IsList(triggers', host.achievements, TriggerStates)
      /\ IsList(lboards', host.leaderboards, BoardStates)
  BY <1>2, <1>3, ListsAre, MappedList
<1> QED BY <1>1, <1>2, <1>3, <1>4, ListsAre, CallWalks, SameLists, SameIsFewer

\* The items that are marked are disabled.
DisabledOf(known) ==
  [i \in DOMAIN known |-> IF known[i].invalid THEN Disabled(known[i]) ELSE known[i]]

LEMMA DisabledOfFacts ==
  ASSUME NEW defs, Known(defs), NEW states, "DISABLED" \in states,
         NEW items, IsList(items, defs, states),
         NEW known, Mapped(known, items, defs, states), SameStates(known, items)
  PROVE  /\ Mapped(DisabledOf(known), items, defs, states)
         /\ FewerTriggers(DisabledOf(known), items) /\ FewerBoards(DisabledOf(known), items)
<1> DEFINE left == DisabledOf(known)
<1>1. DOMAIN known = DOMAIN items /\ DOMAIN left = DOMAIN items
      /\ left = [i \in DOMAIN items |-> left[i]]
  BY DEF SameStates, DisabledOf
<1>2. ASSUME NEW i \in DOMAIN items
      PROVE  /\ left[i] \in ItemsOf(defs, states) /\ left[i].def = items[i].def
             /\ left[i].state \in {items[i].state, "DISABLED"}
  <2>1. /\ known[i] \in ItemsOf(defs, states) /\ known[i].def = items[i].def
        /\ known[i].state = items[i].state
    BY DEF Mapped, SameStates
  <2>2. CASE known[i].invalid
    <3>1. left[i] = Disabled(known[i])
      BY <1>1, <2>2 DEF DisabledOf
    <3> HIDE DEF left
    <3> QED BY <2>1, <3>1, DisabledItem
  <2>3. CASE ~known[i].invalid
    <3>1. left[i] = known[i]
      BY <1>1, <2>3 DEF DisabledOf
    <3> HIDE DEF left
    <3> QED BY <2>1, <3>1
  <2> QED BY <2>2, <2>3
<1> HIDE DEF left
<1>3. ~TriggerActive("DISABLED") /\ ~Board!LboardActive("DISABLED")
  BY DEF TriggerActive, Board!LboardActive
<1>4. Mapped(left, items, defs, states)
  BY <1>1, <1>2 DEF Mapped
<1>5. FewerTriggers(left, items)
  BY <1>1, <1>2, <1>3 DEF FewerTriggers
<1>6. FewerBoards(left, items)
  BY <1>1, <1>2, <1>3 DEF FewerBoards
<1> QED BY <1>4, <1>5, <1>6 DEF left

LEMMA ValidateAddressesKeeps ==
  ASSUME Lists, Walk, NEW refused, ValidateAddresses(refused)
  PROVE  /\ Lists' /\ Walk'
         /\ FewerTriggers(triggers', triggers) /\ FewerBoards(lboards', lboards)
<1>1. /\ Call("other") /\ richpresence' = richpresence /\ HostKnows
      /\ triggers' = IF refused = {} THEN triggers ELSE DisabledOf(Invalidated(triggers, refused))
      /\ lboards' = IF refused = {} THEN lboards ELSE DisabledOf(Invalidated(lboards, refused))
  <2>1. /\ DOMAIN Invalidated(triggers, refused) = DOMAIN triggers
        /\ DOMAIN Invalidated(lboards, refused) = DOMAIN lboards
    BY DEF Invalidated
  <2> QED BY <2>1 DEF ValidateAddresses, DisabledOf
<1>2. /\ IsList(triggers', host.achievements, TriggerStates)
      /\ FewerTriggers(triggers', triggers)
  <2>1. CASE refused = {}
    BY <1>1, <2>1, ListsAre, SameIsFewer DEF SameStates
  <2>2. CASE refused # {}
    <3> DEFINE known == Invalidated(triggers, refused)
    <3>1. triggers' = DisabledOf(known)
      BY <1>1, <2>2
    <3>2. /\ Mapped(known, triggers, host.achievements, TriggerStates)
          /\ SameStates(known, triggers)
      BY ListsAre, InvalidatedFacts
    <3> HIDE DEF known
    <3>3. /\ Mapped(triggers', triggers, host.achievements, TriggerStates)
          /\ FewerTriggers(triggers', triggers)
      BY <3>1, <3>2, ListsAre, DisabledOfFacts
    <3> QED BY <3>3, ListsAre, MappedList
  <2> QED BY <2>1, <2>2
<1>3. /\ IsList(lboards', host.leaderboards, BoardStates)
      /\ FewerBoards(lboards', lboards)
  <2>1. CASE refused = {}
    BY <1>1, <2>1, ListsAre, SameIsFewer DEF SameStates
  <2>2. CASE refused # {}
    <3> DEFINE known == Invalidated(lboards, refused)
    <3>1. lboards' = DisabledOf(known)
      BY <1>1, <2>2
    <3>2. /\ Mapped(known, lboards, host.leaderboards, BoardStates)
          /\ SameStates(known, lboards)
      BY ListsAre, InvalidatedFacts
    <3> HIDE DEF known
    <3>3. /\ Mapped(lboards', lboards, host.leaderboards, BoardStates)
          /\ FewerBoards(lboards', lboards)
      BY <3>1, <3>2, ListsAre, DisabledOfFacts
    <3> QED BY <3>3, ListsAre, MappedList
  <2> QED BY <2>1, <2>2
<1> QED BY <1>1, <1>2, <1>3, ListsAre, CallWalks, KnownLists

\* Sizes that are remembered change nothing else.
LEMMA SizedFacts ==
  ASSUME NEW defs, Known(defs), NEW states, NEW items, IsList(items, defs, states), NEW stored
  PROVE  /\ Mapped(Sized(items, stored), items, defs, states)
         /\ SameStates(Sized(items, stored), items)
         /\ \A i \in DOMAIN items : i \in stored => Sized(items, stored)[i].size = items[i].def.size
<1> DEFINE sized == Sized(items, stored)
<1>1. DOMAIN sized = DOMAIN items /\ sized = [i \in DOMAIN items |-> sized[i]]
  BY DEF Sized
<1>2. ASSUME NEW i \in DOMAIN items
      PROVE  /\ sized[i] \in ItemsOf(defs, states)
             /\ sized[i].def = items[i].def /\ sized[i].state = items[i].state
             /\ i \in stored => sized[i].size = items[i].def.size
  <2>0. items[i] \in ItemsOf(defs, states)
    BY ListFacts
  <2>1. CASE i \in stored
    <3> DEFINE item == items[i]
               other == sized[i]
    <3>1. Sizes(other, item)
      BY <2>1 DEF Sized, Sizes
    <3> HIDE DEF item, other
    <3>2. /\ other \in ItemsOf(defs, states)
          /\ other.def = item.def /\ other.state = item.state
          /\ other.size = item.def.size
      <4>1. item \in ItemsOf(defs, states)
        BY <2>0 DEF item
      <4> QED BY <3>1, <4>1, SizedItem
    <3> QED BY <3>2 DEF item, other
  <2>2. CASE i \notin stored
    <3>1. sized[i] = items[i]
      BY <2>2 DEF Sized
    <3> HIDE DEF sized
    <3> QED BY <2>0, <2>2, <3>1
  <2> QED BY <2>1, <2>2
<1> HIDE DEF sized
<1>3. Mapped(sized, items, defs, states) /\ SameStates(sized, items)
  BY <1>1, <1>2 DEF Mapped, SameStates
<1> QED BY <1>2, <1>3 DEF sized

LEMMA ProgressSizeKeeps ==
  ASSUME Lists, Walk, ProgressSize
  PROVE  /\ Lists' /\ Walk'
         /\ SameStates(triggers', triggers) /\ SameStates(lboards', lboards)
<1>1. /\ Call("other") /\ triggers' = Sized(triggers, StoredTriggers)
      /\ lboards' = Sized(lboards, StoredBoards)
      /\ richpresence' = richpresence /\ view' = view
  BY DEF ProgressSize
<1>2. /\ Mapped(triggers', triggers, host.achievements, TriggerStates)
      /\ SameStates(triggers', triggers)
  BY <1>1, ListsAre, SizedFacts
<1>3. /\ Mapped(lboards', lboards, host.leaderboards, BoardStates)
      /\ SameStates(lboards', lboards)
  BY <1>1, ListsAre, SizedFacts
<1>4. /\ IsList(triggers', host.achievements, TriggerStates)
      /\ IsList(lboards', host.leaderboards, BoardStates)
  BY <1>2, <1>3, ListsAre, MappedList
<1> QED BY <1>1, <1>2, <1>3, <1>4, ListsAre, CallWalks, SameLists

LEMMA SerializeKeeps ==
  ASSUME Lists, Walk, Serialize
  PROVE  Lists' /\ Walk' /\ UNCHANGED <<triggers, lboards, richpresence>>
<1>1. /\ Call("other") /\ UNCHANGED <<triggers, lboards, richpresence, view>>
  BY DEF Serialize, runtime
<1>2. SameStates(triggers', triggers) /\ SameStates(lboards', lboards)
  BY <1>1 DEF SameStates
<1> QED BY <1>1, <1>2, ListsAre, CallWalks, SameLists

-----------------------------------------------------------------------------
(* Restoring a save.                                                       *)

\* A chunk that is stored under a definition is that of an active item.
LEMMA StoredChunks ==
  ASSUME Lists, SavedIsSnapshot, saved # NoSave, NEW c \in saved.items
  PROVE  \E s \in snapshot.items :
           /\ c = Chunk(s) /\ c.def = s.def /\ c.state = s.state /\ c.data = s.data
           /\ \/ /\ s.def \in host.achievements /\ TriggerActive(s.state)
                 /\ s \in ItemsOf(host.achievements, TriggerStates)
              \/ /\ s.def \in host.leaderboards /\ Board!LboardActive(s.state)
                 /\ s \in ItemsOf(host.leaderboards, BoardStates)
<1>1. saved.items = TriggerChunks(snapshot.items) \cup BoardChunks(snapshot.items)
      /\ \A s \in snapshot.items : \/ s \in ItemsOf(host.achievements, TriggerStates)
                                   \/ s \in ItemsOf(host.leaderboards, BoardStates)
  BY DEF SavedIsSnapshot
<1>2. PICK s \in snapshot.items :
        /\ c = Chunk(s)
        /\ \/ s.def \in host.achievements /\ TriggerActive(s.state)
           \/ s.def \in host.leaderboards /\ Board!LboardActive(s.state)
  BY <1>1 DEF TriggerChunks, BoardChunks
<1>3. c.def = s.def /\ c.state = s.state /\ c.data = s.data
  BY <1>2 DEF Chunk
<1>4. \/ s \in ItemsOf(host.achievements, TriggerStates) /\ s.def \in host.achievements
      \/ s \in ItemsOf(host.leaderboards, BoardStates) /\ s.def \in host.leaderboards
  BY <1>1, ListsAre, ItemFacts
<1>5. \A a \in host.achievements : a \notin host.leaderboards
  BY ListsAre, HostFacts
<1> QED BY <1>2, <1>3, <1>4, <1>5

LEMMA RestoredTrigger ==
  ASSUME Lists, SavedIsSnapshot, saved # NoSave,
         NEW item \in ItemsOf(host.achievements, TriggerStates),
         NEW new, new = Restored(item, TriggerActive(item.state))
  PROVE  /\ new \in ItemsOf(host.achievements, TriggerStates) /\ new.def = item.def
         /\ TriggerActive(new.state) => TriggerActive(item.state)
<1> DEFINE chunks == {c \in saved.items : c.def = item.def}
           c == CHOOSE x \in chunks : TRUE
<1>0. item.def \in host.achievements
  BY ListsAre, ItemFacts
<1>1. CASE ~TriggerActive(item.state)
  BY <1>1 DEF Restored
<1>2. CASE TriggerActive(item.state) /\ chunks = {}
  <2>1. new = ResetItem(item)
    BY <1>2 DEF Restored
  <2>2. /\ ResetItem(item) \in ItemsOf(host.achievements, TriggerStates)
        /\ ResetItem(item).def = item.def
    BY ListsAre, ResetFacts
  <2> HIDE DEF chunks
  <2> QED BY <1>2, <2>1, <2>2
<1>3. CASE TriggerActive(item.state) /\ chunks # {}
  <2>1. c \in chunks
    BY <1>3
  <2>2. new = [item EXCEPT !.state = c.state, !.data = c.data]
    BY <1>3 DEF Restored
  <2>3. c \in saved.items /\ c.def = item.def
    BY <2>1
  <2> HIDE DEF c, chunks
  <2>4. PICK s \in snapshot.items :
           /\ c = Chunk(s) /\ c.def = s.def /\ c.state = s.state /\ c.data = s.data
           /\ \/ /\ s.def \in host.achievements /\ TriggerActive(s.state)
                 /\ s \in ItemsOf(host.achievements, TriggerStates)
              \/ /\ s.def \in host.leaderboards /\ Board!LboardActive(s.state)
                 /\ s \in ItemsOf(host.leaderboards, BoardStates)
    BY <2>3, StoredChunks
  <2>5. s.def \notin host.leaderboards
    BY <1>0, <2>3, <2>4, ListsAre, HostFacts
  <2>6. c.state \in TriggerStates /\ c.data \in item.def.data
    BY <2>3, <2>4, <2>5, ListsAre, ItemFacts
  <2>7. Moves(new, item, c.state, c.data)
    BY <2>2 DEF Moves
  <2>8. new \in ItemsOf(host.achievements, TriggerStates) /\ new.def = item.def
    BY <2>6, <2>7, ListsAre, MovedItem
  <2> QED BY <1>3, <2>8
<1> HIDE DEF chunks
<1> QED BY <1>1, <1>2, <1>3

LEMMA RestoredBoard ==
  ASSUME Lists, SavedIsSnapshot, saved # NoSave,
         NEW item \in ItemsOf(host.leaderboards, BoardStates),
         NEW new, new = Restored(item, Board!LboardActive(item.state))
  PROVE  /\ new \in ItemsOf(host.leaderboards, BoardStates) /\ new.def = item.def
         /\ Board!LboardActive(new.state) => Board!LboardActive(item.state)
<1> DEFINE chunks == {c \in saved.items : c.def = item.def}
           c == CHOOSE x \in chunks : TRUE
<1>0. item.def \in host.leaderboards
  BY ListsAre, ItemFacts
<1>1. CASE ~Board!LboardActive(item.state)
  BY <1>1 DEF Restored
<1>2. CASE Board!LboardActive(item.state) /\ chunks = {}
  <2>1. new = ResetItem(item)
    BY <1>2 DEF Restored
  <2>2. /\ ResetItem(item) \in ItemsOf(host.leaderboards, BoardStates)
        /\ ResetItem(item).def = item.def
    BY ListsAre, ResetFacts
  <2> HIDE DEF chunks
  <2> QED BY <1>2, <2>1, <2>2
<1>3. CASE Board!LboardActive(item.state) /\ chunks # {}
  <2>1. c \in chunks
    BY <1>3
  <2>2. new = [item EXCEPT !.state = c.state, !.data = c.data]
    BY <1>3 DEF Restored
  <2>3. c \in saved.items /\ c.def = item.def
    BY <2>1
  <2> HIDE DEF c, chunks
  <2>4. PICK s \in snapshot.items :
           /\ c = Chunk(s) /\ c.def = s.def /\ c.state = s.state /\ c.data = s.data
           /\ \/ /\ s.def \in host.achievements /\ TriggerActive(s.state)
                 /\ s \in ItemsOf(host.achievements, TriggerStates)
              \/ /\ s.def \in host.leaderboards /\ Board!LboardActive(s.state)
                 /\ s \in ItemsOf(host.leaderboards, BoardStates)
    BY <2>3, StoredChunks
  <2>5. s.def \notin host.achievements
    BY <1>0, <2>3, <2>4, ListsAre, HostFacts
  <2>6. c.state \in BoardStates /\ c.data \in item.def.data
    BY <2>3, <2>4, <2>5, ListsAre, ItemFacts
  <2>7. Moves(new, item, c.state, c.data)
    BY <2>2 DEF Moves
  <2>8. new \in ItemsOf(host.leaderboards, BoardStates) /\ new.def = item.def
    BY <2>6, <2>7, ListsAre, MovedItem
  <2> QED BY <1>3, <2>8
<1> HIDE DEF chunks
<1> QED BY <1>1, <1>2, <1>3
-----------------------------------------------------------------------------
(* Restoring the script and the lists.                                     *)

GivesValues(new, rp, w)     == new = [rp EXCEPT !.values = w]
GivesConditions(new, rp, c) == new = [rp EXCEPT !.conditions = c]

LEMMA WithValues ==
  ASSUME NEW rp, rp = [script |-> rp.script, values |-> rp.values, conditions |-> rp.conditions],
         NEW w, NEW new, GivesValues(new, rp, w)
  PROVE  new = [script |-> rp.script, values |-> w, conditions |-> rp.conditions]
<1> DEFINE s == rp.script
           v == rp.values
           c == rp.conditions
           q == [script |-> s, values |-> v, conditions |-> c]
<1>1. rp = q /\ new = [rp EXCEPT !.values = w]
  BY DEF GivesValues
<1> HIDE DEF s, v, c
<1>2. [q EXCEPT !.values = w] = [script |-> s, values |-> w, conditions |-> c]
  OBVIOUS
<1> HIDE DEF q
<1> QED BY <1>1, <1>2 DEF s, c

LEMMA WithConditions ==
  ASSUME NEW rp, rp = [script |-> rp.script, values |-> rp.values, conditions |-> rp.conditions],
         NEW d, NEW new, GivesConditions(new, rp, d)
  PROVE  new = [script |-> rp.script, values |-> rp.values, conditions |-> d]
<1> DEFINE s == rp.script
           v == rp.values
           c == rp.conditions
           q == [script |-> s, values |-> v, conditions |-> c]
<1>1. rp = q /\ new = [rp EXCEPT !.conditions = d]
  BY DEF GivesConditions
<1> HIDE DEF s, v, c
<1>2. [q EXCEPT !.conditions = d] = [script |-> s, values |-> v, conditions |-> d]
  OBVIOUS
<1> HIDE DEF q
<1> QED BY <1>1, <1>2 DEF s, v

\* The values that are read are those of the same script.
LEMMA ReadValues ==
  ASSUME NEW scripts, NEW rp, IsScript(rp, scripts), rp # NoScript
  PROVE  /\ IsScript(ReadVariables(rp), scripts) /\ ReadVariables(rp) # NoScript
         /\ ReadVariables(rp).script = rp.script
         /\ ReadVariables(rp).conditions = rp.conditions
<1> DEFINE w == [n \in DOMAIN rp.values |->
                   IF n \in NamesRead(DOMAIN rp.values) THEN saved.values[n] ELSE 0]
           new == ReadVariables(rp)
<1>1. CASE saved.names = <<>> \/ DOMAIN rp.values = {}
  BY <1>1 DEF ReadVariables
<1>2. CASE ~(saved.names = <<>> \/ DOMAIN rp.values = {})
  <2>1. GivesValues(new, rp, w)
    BY <1>2 DEF ReadVariables, GivesValues
  <2>2. DOMAIN w = DOMAIN rp.values /\ w = [n \in DOMAIN w |-> w[n]]
    OBVIOUS
  <2> HIDE DEF w, new
  <2>3. /\ rp = [script |-> rp.script, values |-> rp.values, conditions |-> rp.conditions]
        /\ rp.script \in scripts /\ DOMAIN rp.values = Range(rp.script.names)
        /\ rp.script.conditional \/ rp.conditions = 0
    BY ScriptFacts
  <2>4. new = [script |-> rp.script, values |-> w, conditions |-> rp.conditions]
    BY <2>1, <2>3, WithValues
  <2>5. new.script = rp.script /\ new.conditions = rp.conditions
    BY <2>4
  <2>6. new # NoScript
    BY <2>4, SomeScript
  <2>7. IsScript(new, scripts)
    BY <2>2, <2>3, <2>4, NewScript
  <2> QED BY <2>5, <2>6, <2>7 DEF new
<1> QED BY <1>1, <1>2

\* A stored chunk of conditions is that of a script that has some.
LEMMA StoredConditions ==
  ASSUME Lists, SavedIsSnapshot, saved # NoSave,
         NEW rp, IsScript(rp, host.scripts), rp # NoScript,
         saved.conditions # <<>>, saved.conditions[1] = rp.script.md5
  PROVE  /\ rp.script.conditional /\ snapshot.richpresence # NoScript
         /\ snapshot.richpresence.script = rp.script
         /\ saved.conditions[2] = snapshot.richpresence.conditions
<1> DEFINE then == snapshot.richpresence
<1>1. /\ IsScript(then, host.scripts)
      /\ saved.conditions = IF then # NoScript /\ then.script.conditional
                            THEN <<then.script.md5, then.conditions>> ELSE <<>>
  BY DEF SavedIsSnapshot
<1> HIDE DEF then
<1>2. /\ then # NoScript /\ then.script.conditional
      /\ saved.conditions = <<then.script.md5, then.conditions>>
  BY <1>1
<1>3. saved.conditions[1] = then.script.md5 /\ saved.conditions[2] = then.conditions
  BY <1>2
<1>4. then.script \in host.scripts /\ rp.script \in host.scripts
  BY <1>1, <1>2, ScriptFacts
<1>5. then.script = rp.script
  BY <1>3, <1>4, ListsAre, RuntimeAssumption
<1> QED BY <1>2, <1>3, <1>5 DEF then

LEMMA ReadScript ==
  ASSUME Lists, SavedIsSnapshot, saved # NoSave,
         NEW rp, IsScript(rp, host.scripts), rp # NoScript
  PROVE  /\ IsScript(ReadRichPresence(rp), host.scripts)
         /\ ReadRichPresence(rp) # NoScript
         /\ ReadRichPresence(rp).script = rp.script
         /\ ReadRichPresence(rp).values = rp.values
<1> DEFINE new == ReadRichPresence(rp)
           read == saved.conditions # <<>> /\ saved.conditions[1] = rp.script.md5
           d == IF read THEN saved.conditions[2] ELSE 0
<1>1. GivesConditions(new, rp, d)
  BY DEF ReadRichPresence, ResetConditions, GivesConditions
<1>2. rp.script.conditional \/ d = 0
  BY StoredConditions
<1> HIDE DEF new, d
<1>3. /\ rp = [script |-> rp.script, values |-> rp.values, conditions |-> rp.conditions]
      /\ rp.script \in host.scripts /\ DOMAIN rp.values = Range(rp.script.names)
      /\ rp.values = [n \in DOMAIN rp.values |-> rp.values[n]]
  BY ScriptFacts
<1>4. new = [script |-> rp.script, values |-> rp.values, conditions |-> d]
  BY <1>1, <1>3, WithConditions
<1>5. new.script = rp.script /\ new.values = rp.values
  BY <1>4
<1>6. new # NoScript
  BY <1>4, SomeScript
<1>7. IsScript(new, host.scripts)
  BY <1>2, <1>3, <1>4, NewScript
<1> QED BY <1>5, <1>6, <1>7 DEF new

\* The script that is restored takes as much of a save as it did.
LEMMA RestoredScript ==
  ASSUME Lists, SavedIsSnapshot, Deserialize
  PROVE  /\ IsScript(richpresence', host.scripts)
         /\ ScriptSize(richpresence') = ScriptSize(richpresence)
<1>1. /\ saved # NoSave
      /\ richpresence' = IF richpresence = NoScript THEN NoScript
                         ELSE ReadRichPresence(ReadVariables(richpresence))
  BY DEF Deserialize
<1>2. CASE richpresence = NoScript
  BY <1>1, <1>2 DEF IsScript
<1>3. CASE richpresence # NoScript
  <2> DEFINE rp == ReadVariables(richpresence)
  <2>1. IsScript(rp, host.scripts) /\ rp # NoScript /\ rp.script = richpresence.script
    BY <1>3, ListsAre, ReadValues
  <2>2. richpresence' = ReadRichPresence(rp)
    BY <1>1, <1>3
  <2> HIDE DEF rp
  <2>3. /\ IsScript(richpresence', host.scripts) /\ richpresence' # NoScript
        /\ richpresence'.script = rp.script
    BY <1>1, <2>1, <2>2, ReadScript
  <2> QED BY <1>3, <2>1, <2>3 DEF ScriptSize
<1> QED BY <1>2, <1>3

LEMMA DeserializeKeeps ==
  ASSUME Lists, Walk, SavedIsSnapshot, Deserialize
  PROVE  /\ Lists' /\ Walk'
         /\ FewerTriggers(triggers', triggers) /\ FewerBoards(lboards', lboards)
<1>1. /\ Call("restore") /\ saved # NoSave /\ HostKnows
      /\ triggers' = [i \in DOMAIN triggers |->
                        Restored(triggers[i], TriggerActive(triggers[i].state))]
      /\ lboards' = [i \in DOMAIN lboards |->
                       Restored(lboards[i], Board!LboardActive(lboards[i].state))]
  BY DEF Deserialize
<1>2. /\ Mapped(triggers', triggers, host.achievements, TriggerStates)
      /\ FewerTriggers(triggers', triggers)
  <2>1. /\ DOMAIN triggers' = DOMAIN triggers
        /\ triggers' = [i \in DOMAIN triggers |-> triggers'[i]]
    BY <1>1
  <2>2. ASSUME NEW i \in DOMAIN triggers
        PROVE  /\ triggers'[i] \in ItemsOf(host.achievements, TriggerStates)
               /\ triggers'[i].def = triggers[i].def
               /\ TriggerActive(triggers'[i].state) => TriggerActive(triggers[i].state)
    <3>1. triggers[i] \in ItemsOf(host.achievements, TriggerStates)
      BY ListsAre, ListFacts
    <3>2. triggers'[i] = Restored(triggers[i], TriggerActive(triggers[i].state))
      BY <1>1
    <3> QED BY <1>1, <3>1, <3>2, RestoredTrigger
  <2> QED BY <2>1, <2>2 DEF Mapped, FewerTriggers
<1>3. /\ Mapped(lboards', lboards, host.leaderboards, BoardStates)
      /\ FewerBoards(lboards', lboards)
  <2>1. /\ DOMAIN lboards' = DOMAIN lboards
        /\ lboards' = [i \in DOMAIN lboards |-> lboards'[i]]
    BY <1>1
  <2>2. ASSUME NEW i \in DOMAIN lboards
        PROVE  /\ lboards'[i] \in ItemsOf(host.leaderboards, BoardStates)
               /\ lboards'[i].def = lboards[i].def
               /\ Board!LboardActive(lboards'[i].state) => Board!LboardActive(lboards[i].state)
    <3>1. lboards[i] \in ItemsOf(host.leaderboards, BoardStates)
      BY ListsAre, ListFacts
    <3>2. lboards'[i] = Restored(lboards[i], Board!LboardActive(lboards[i].state))
      BY <1>1
    <3> QED BY <1>1, <3>1, <3>2, RestoredBoard
  <2> QED BY <2>1, <2>2 DEF Mapped, FewerBoards
<1>4. /\ IsList(triggers', host.achievements, TriggerStates)
      /\ IsList(lboards', host.leaderboards, BoardStates)
  BY <1>2, <1>3, ListsAre, MappedList
<1> QED BY <1>1, <1>2, <1>3, <1>4, RestoredScript, ListsAre, CallWalks, KnownLists

LEMMA DeserializeFailsKeeps ==
  ASSUME Lists, Walk
  PROVE  ResetRuntime \/ DeserializeFails => Lists' /\ Walk' /\ asked' = Unasked
BY ResetKeeps DEF ResetRuntime, DeserializeFails, Reset

-----------------------------------------------------------------------------
(* The beginning.                                                          *)

LEMMA FreshList ==
  ASSUME NEW defs, Known(defs), NEW states, "WAITING" \in states,
         NEW begun, ListOf(begun, defs),
         NEW items, items = [i \in DOMAIN begun |-> Fresh(begun[i])]
  PROVE  IsList(items, defs, states)
<1>1. /\ begun \in Seq(defs) /\ Len(begun) \in Nat /\ DOMAIN begun = 1 .. Len(begun)
      /\ \A i, j \in DOMAIN begun : begun[i].id = begun[j].id => i = j
  BY DEF ListOf
<1>2. \A i \in 1 .. Len(begun) : begun[i] \in defs
  BY <1>1
<1>3. items = [i \in 1 .. Len(begun) |-> items[i]]
  BY <1>1
<1>4. \A i \in 1 .. Len(begun) : items[i] \in ItemsOf(defs, states) /\ items[i].def = begun[i]
  BY <1>1, <1>2, FreshItem
<1>5. \A i, j \in 1 .. Len(begun) : items[i].def.id = items[j].def.id => i = j
  BY <1>1, <1>4
<1> QED BY <1>1, <1>3, <1>4, <1>5, MakeList

LEMMA InitHolds ==
  ASSUME Init
  PROVE  RInv
<1>1. /\ host \in Hosts /\ richpresence = NoScript /\ saved = NoSave /\ loop = "idle"
      /\ triggers = [i \in DOMAIN host.loaded |-> Fresh(host.loaded[i])]
      /\ lboards = [i \in DOMAIN host.boards |-> Fresh(host.boards[i])]
      /\ view = Viewed(triggers, lboards)
      /\ visits = [id \in Ids |-> 0] /\ asked = Unasked
  BY DEF Init
<1>2. /\ Known(host.achievements) /\ Known(host.leaderboards)
      /\ ListOf(host.loaded, host.achievements) /\ ListOf(host.boards, host.leaderboards)
  BY <1>1, HostFacts
<1>3. "WAITING" \in TriggerStates /\ "WAITING" \in BoardStates
  BY DEF TriggerStates, BoardStates
<1>4. IsList(triggers, host.achievements, TriggerStates)
  BY <1>1, <1>2, <1>3, FreshList
<1>5. IsList(lboards, host.leaderboards, BoardStates)
  BY <1>1, <1>2, <1>3, FreshList
<1>6. Synced(view, triggers, lboards)
  BY <1>1, <1>4, <1>5, ViewedSynced
<1>7. Lists
  BY <1>1, <1>4, <1>5, <1>6 DEF Lists, IsScript
<1>8. Walk /\ SizeHolds /\ SavedIsSnapshot
  BY <1>1 DEF Walk, SizeHolds, SavedIsSnapshot, Unasked
<1> QED BY <1>7, <1>8 DEF RInv
-----------------------------------------------------------------------------
(* Sums.                                                                   *)

\* The element a sum over a set takes first.
First(s) == CHOOSE x \in s : TRUE

SumSolution(it, f, Keys) ==
  /\ it \in [SUBSET Keys -> Nat]
  /\ \A s \in SUBSET Keys : it[s] = IF s = {} THEN 0 ELSE f[First(s)] + it[s \ {First(s)}]

\* Sets of at most some number of elements.
Sub(Keys, k) == {s \in SUBSET Keys : Cardinality(s) <= k}

LEMMA SubFacts ==
  ASSUME NEW Keys, IsFiniteSet(Keys), NEW s \in SUBSET Keys
  PROVE  /\ IsFiniteSet(s) /\ Cardinality(s) \in Nat
         /\ \A x \in s : /\ s \ {x} \in SUBSET Keys
                         /\ Cardinality(s \ {x}) \in Nat
                         /\ Cardinality(s \ {x}) + 1 = Cardinality(s)
         /\ (Cardinality(s) = 0) <=> (s = {})
<1>1. IsFiniteSet(s)
  BY FS_Subset
<1>2. Cardinality(s) \in Nat
  BY <1>1, FS_CardinalityType
<1>3. ASSUME NEW x \in s
      PROVE  Cardinality(s \ {x}) \in Nat /\ Cardinality(s \ {x}) + 1 = Cardinality(s)
  <2>1. IsFiniteSet(s \ {x}) /\ Cardinality(s \ {x}) = Cardinality(s) - 1
    BY <1>1, FS_RemoveElement
  <2>2. Cardinality(s \ {x}) \in Nat
    BY <2>1, FS_CardinalityType
  <2> QED BY <1>2, <2>1, <2>2
<1>4. (Cardinality(s) = 0) <=> (s = {})
  BY <1>1, FS_EmptySet
<1> QED BY <1>1, <1>2, <1>3, <1>4

LEMMA SumExists ==
  ASSUME NEW Keys, IsFiniteSet(Keys), NEW f \in [Keys -> Nat]
  PROVE  \E it : SumSolution(it, f, Keys)
<1> DEFINE Turn(it, s) == IF s = {} THEN 0 ELSE f[First(s)] + it[s \ {First(s)}]
           Done(k) == \E it \in [Sub(Keys, k) -> Nat] :
                        \A s \in Sub(Keys, k) : it[s] = Turn(it, s)
           S == {k \in Nat : Done(k)}
<1>1. 0 \in S
  <2> DEFINE it == [s \in Sub(Keys, 0) |-> 0]
  <2>1. ASSUME NEW s \in Sub(Keys, 0) PROVE s = {}
    <3>1. s \in SUBSET Keys /\ Cardinality(s) <= 0
      BY DEF Sub
    <3>2. Cardinality(s) \in Nat /\ ((Cardinality(s) = 0) <=> (s = {}))
      BY <3>1, SubFacts
    <3> QED BY <3>1, <3>2
  <2>2. it \in [Sub(Keys, 0) -> Nat] /\ \A s \in Sub(Keys, 0) : it[s] = 0
    OBVIOUS
  <2> HIDE DEF it
  <2>3. \A s \in Sub(Keys, 0) : it[s] = Turn(it, s)
    BY <2>1, <2>2
  <2>4. Done(0)
    BY <2>2, <2>3
  <2> HIDE DEF Done
  <2> QED BY <2>4
<1>2. ASSUME NEW k \in Nat, k \in S PROVE k + 1 \in S
  <2>1. PICK it \in [Sub(Keys, k) -> Nat] : \A s \in Sub(Keys, k) : it[s] = Turn(it, s)
    <3>1. Done(k)
      <4> HIDE DEF Done
      <4> QED BY <1>2
    <3> QED BY <3>1
  <2> DEFINE more == [s \in Sub(Keys, k + 1) |-> Turn(it, s)]
  <2>2. ASSUME NEW s \in Sub(Keys, k + 1), s # {}
        PROVE  /\ First(s) \in s /\ f[First(s)] \in Nat
               /\ s \ {First(s)} \in Sub(Keys, k) /\ s \ {First(s)} \in Sub(Keys, k + 1)
    <3>1. s \in SUBSET Keys /\ Cardinality(s) <= k + 1 /\ First(s) \in s
      BY <2>2 DEF Sub, First
    <3>2. /\ s \ {First(s)} \in SUBSET Keys /\ Cardinality(s \ {First(s)}) \in Nat
          /\ Cardinality(s \ {First(s)}) + 1 = Cardinality(s)
      BY <3>1, SubFacts
    <3>3. Cardinality(s) \in Nat
      BY <3>1, SubFacts
    <3>4. Cardinality(s \ {First(s)}) <= k /\ Cardinality(s \ {First(s)}) <= k + 1
      BY <3>1, <3>2, <3>3
    <3> QED BY <3>1, <3>2, <3>4 DEF Sub
  <2>3. more \in [Sub(Keys, k + 1) -> Nat]
    BY <2>1, <2>2
  <2>4. ASSUME NEW s \in Sub(Keys, k) PROVE more[s] = it[s]
    <3>1. Cardinality(s) \in Nat /\ Cardinality(s) <= k /\ s \in SUBSET Keys
      BY SubFacts DEF Sub
    <3>2. s \in Sub(Keys, k + 1)
      BY <3>1 DEF Sub
    <3> QED BY <2>1, <3>2
  <2>5. ASSUME NEW s \in Sub(Keys, k + 1) PROVE more[s] = Turn(more, s)
    <3>1. CASE s = {}
      BY <3>1
    <3>2. CASE s # {}
      <4>1. more[s] = f[First(s)] + it[s \ {First(s)}]
        BY <3>2
      <4>2. more[s \ {First(s)}] = it[s \ {First(s)}]
        BY <2>2, <2>4, <3>2
      <4> HIDE DEF more
      <4> QED BY <3>2, <4>1, <4>2
    <3> QED BY <3>1, <3>2
  <2> HIDE DEF more
  <2>6. Done(k + 1)
    BY <2>3, <2>5
  <2> HIDE DEF Done
  <2> QED BY <2>6
<1>3. Nat \subseteq S
  <2> HIDE DEF S
  <2> QED BY <1>1, <1>2, Induction
<1> DEFINE n == Cardinality(Keys)
<1>4. n \in Nat
  BY FS_CardinalityType
<1>5. Sub(Keys, n) = SUBSET Keys
  <2>1. \A s \in SUBSET Keys : Cardinality(s) <= n
    BY FS_Subset
  <2> QED BY <2>1 DEF Sub
<1>6. Done(n)
  <2> HIDE DEF Done, n
  <2> QED BY <1>3, <1>4
<1>7. PICK it \in [SUBSET Keys -> Nat] : \A s \in SUBSET Keys : it[s] = Turn(it, s)
  <2> HIDE DEF n
  <2> QED BY <1>5, <1>6
<1> QED BY <1>7 DEF SumSolution

\* The sum is the solution.
LEMMA SumIs ==
  ASSUME NEW Keys, IsFiniteSet(Keys), NEW f \in [Keys -> Nat]
  PROVE  \E it : SumSolution(it, f, Keys) /\ SumOf(f) = it[Keys]
<1> DEFINE iter == CHOOSE iter : iter = [s \in SUBSET Keys |->
                     IF s = {} THEN 0
                     ELSE f[CHOOSE x \in s : TRUE] + iter[s \ {CHOOSE x \in s : TRUE}]]
<1>1. SumOf(f) = iter[Keys]
  <2>1. DOMAIN f = Keys
    OBVIOUS
  <2> QED BY <2>1, Zenon DEF SumOf, MapThenSumSet, MapThenFoldSet
<1>2. PICK it : SumSolution(it, f, Keys)
  BY SumExists
<1>3. it = [s \in SUBSET Keys |->
              IF s = {} THEN 0
              ELSE f[CHOOSE x \in s : TRUE] + it[s \ {CHOOSE x \in s : TRUE}]]
  BY <1>2 DEF SumSolution, First
<1>4. iter = [s \in SUBSET Keys |->
                IF s = {} THEN 0
                ELSE f[CHOOSE x \in s : TRUE] + iter[s \ {CHOOSE x \in s : TRUE}]]
  BY <1>3
<1> HIDE DEF iter
<1>5. ASSUME NEW s \in SUBSET Keys
      PROVE  iter[s] = IF s = {} THEN 0 ELSE f[First(s)] + iter[s \ {First(s)}]
  BY <1>4 DEF First
<1> DEFINE Same(k) == \A s \in SUBSET Keys : Cardinality(s) <= k => iter[s] = it[s]
           S == {k \in Nat : Same(k)}
<1>6. 0 \in S
  <2>1. ASSUME NEW s \in SUBSET Keys, Cardinality(s) <= 0 PROVE iter[s] = it[s]
    <3>1. s = {}
      BY <2>1, SubFacts
    <3> QED BY <1>2, <1>5, <3>1 DEF SumSolution
  <2> QED BY <2>1
<1>7. ASSUME NEW k \in Nat, k \in S PROVE k + 1 \in S
  <2>1. ASSUME NEW s \in SUBSET Keys, Cardinality(s) <= k + 1 PROVE iter[s] = it[s]
    <3>1. CASE s = {}
      BY <1>2, <1>5, <3>1 DEF SumSolution
    <3>2. CASE s # {}
      <4>1. First(s) \in s
        BY <3>2 DEF First
      <4> DEFINE t == s \ {First(s)}
      <4>2. t \in SUBSET Keys /\ Cardinality(t) \in Nat /\ Cardinality(t) + 1 = Cardinality(s)
        BY <4>1, SubFacts
      <4>3. Cardinality(t) <= k
        BY <2>1, <4>2
      <4>4. iter[t] = it[t]
        BY <1>7, <4>2, <4>3
      <4>5. iter[s] = f[First(s)] + iter[t]
        BY <1>5, <3>2
      <4>6. it[s] = f[First(s)] + it[t]
        BY <1>2, <3>2 DEF SumSolution
      <4> QED BY <4>4, <4>5, <4>6
    <3> QED BY <3>1, <3>2
  <2> QED BY <2>1
<1>8. Nat \subseteq S
  <2> HIDE DEF S
  <2> QED BY <1>6, <1>7, Induction
<1>9. iter[Keys] = it[Keys]
  <2>1. Cardinality(Keys) \in Nat /\ Cardinality(Keys) <= Cardinality(Keys)
    BY FS_CardinalityType
  <2>2. Same(Cardinality(Keys))
    <3> HIDE DEF Same
    <3> QED BY <1>8, <2>1
  <2> QED BY <2>1, <2>2
<1> QED BY <1>1, <1>2, <1>9
AnyFirst(it, f, Keys) == \A s \in SUBSET Keys : \A x \in s : it[s] = f[x] + it[s \ {x}]

\* Any element may be taken first.
LEMMA SumWithout ==
  ASSUME NEW Keys, IsFiniteSet(Keys), NEW f \in [Keys -> Nat], NEW it, SumSolution(it, f, Keys)
  PROVE  AnyFirst(it, f, Keys)
<1> DEFINE Apt(s) == \A x \in s : it[s] = f[x] + it[s \ {x}]
           Has(k) == \A s \in SUBSET Keys : Cardinality(s) <= k => Apt(s)
           S == {k \in Nat : Has(k)}
<1>0. it \in [SUBSET Keys -> Nat]
  BY DEF SumSolution
<1>1. 0 \in S
  <2>1. \A s \in SUBSET Keys : Cardinality(s) <= 0 => s = {}
    BY SubFacts
  <2> QED BY <2>1
<1>2. ASSUME NEW k \in Nat, k \in S PROVE k + 1 \in S
  <2>1. ASSUME NEW s \in SUBSET Keys, Cardinality(s) <= k + 1, NEW x \in s
        PROVE  it[s] = f[x] + it[s \ {x}]
    <3> DEFINE c == First(s)
    <3>1. c \in s
      BY DEF First
    <3>2. it[s] = f[c] + it[s \ {c}]
      BY <3>1 DEF SumSolution
    <3> HIDE DEF c
    <3>3. CASE x = c
      BY <3>2, <3>3
    <3>4. CASE x # c
      <4> DEFINE t == s \ {c}
                 u == s \ {x}
                 r == s \ {x, c}
      <4>1. /\ t \in SUBSET Keys /\ Cardinality(t) <= k /\ x \in t /\ t \ {x} = r
            /\ u \in SUBSET Keys /\ Cardinality(u) <= k /\ c \in u /\ u \ {c} = r
            /\ r \in SUBSET Keys
        <5>1. /\ Cardinality(t) \in Nat /\ Cardinality(t) + 1 = Cardinality(s)
              /\ Cardinality(u) \in Nat /\ Cardinality(u) + 1 = Cardinality(s)
          BY <3>1, SubFacts
        <5>2. Cardinality(t) <= k /\ Cardinality(u) <= k
          BY <2>1, <5>1
        <5> QED BY <3>1, <3>4, <5>2
      <4> HIDE DEF t, u, r
      <4>2. Apt(t) /\ Apt(u)
        <5> HIDE DEF Apt
        <5> QED BY <1>2, <4>1
      <4>3. it[t] = f[x] + it[r] /\ it[u] = f[c] + it[r]
        BY <4>1, <4>2
      <4>4. it[r] \in Nat /\ f[x] \in Nat /\ f[c] \in Nat
        BY <1>0, <3>1, <4>1
      <4>5. it[s] = f[c] + it[t]
        BY <3>2 DEF t
      <4>6. it[s] = f[x] + it[u]
        BY <4>3, <4>4, <4>5
      <4> QED BY <4>6 DEF u
    <3> QED BY <3>3, <3>4
  <2> HIDE DEF Apt
  <2>2. Has(k + 1)
    BY <2>1 DEF Apt
  <2> HIDE DEF Has
  <2> QED BY <2>2
<1>3. Nat \subseteq S
  <2> HIDE DEF S
  <2> QED BY <1>1, <1>2, Induction
<1>4. ASSUME NEW s \in SUBSET Keys PROVE Apt(s)
  <2>1. Cardinality(s) \in Nat /\ Cardinality(s) <= Cardinality(s)
    BY SubFacts
  <2> HIDE DEF Apt
  <2> QED BY <1>3, <2>1
<1> QED BY <1>4 DEF AnyFirst

LEMMA SumType ==
  ASSUME NEW Keys, IsFiniteSet(Keys), NEW f \in [Keys -> Nat]
  PROVE  SumOf(f) \in Nat
<1>1. PICK it : SumSolution(it, f, Keys) /\ SumOf(f) = it[Keys]
  BY SumIs
<1>2. it \in [SUBSET Keys -> Nat]
  BY <1>1 DEF SumSolution
<1> QED BY <1>1, <1>2

\* A sum of some of the numbers of another is not larger.
LEMMA SumShrinks ==
  ASSUME NEW Some, IsFiniteSet(Some), NEW f \in [Some -> Nat],
         NEW All, IsFiniteSet(All), NEW g \in [All -> Nat],
         NEW from \in [Some -> All], \A i, j \in Some : from[i] = from[j] => i = j,
         \A i \in Some : f[i] = g[from[i]]
  PROVE  SumOf(f) <= SumOf(g)
<1>1. PICK a : SumSolution(a, f, Some) /\ SumOf(f) = a[Some]
  BY SumIs
<1>2. PICK b : SumSolution(b, g, All) /\ SumOf(g) = b[All]
  BY SumIs
<1>3. /\ a \in [SUBSET Some -> Nat] /\ a[{}] = 0
      /\ b \in [SUBSET All -> Nat]
  BY <1>1, <1>2 DEF SumSolution
<1>4. \A s \in SUBSET Some : \A x \in s : a[s] = f[x] + a[s \ {x}]
  <2>1. SumSolution(a, f, Some)
    BY <1>1
  <2>2. AnyFirst(a, f, Some)
    BY <2>1, SumWithout
  <2> QED BY <2>2 DEF AnyFirst
<1>5. \A s \in SUBSET All : \A x \in s : b[s] = g[x] + b[s \ {x}]
  <2>1. SumSolution(b, g, All)
    BY <1>2
  <2>2. AnyFirst(b, g, All)
    BY <2>1, SumWithout
  <2> QED BY <2>2 DEF AnyFirst
<1> DEFINE Below(s, t) == (\A i \in s : from[i] \in t) => a[s] <= b[t]
           Has(k) == \A s \in SUBSET Some : Cardinality(s) <= k =>
                       \A t \in SUBSET All : Below(s, t)
           S == {k \in Nat : Has(k)}
<1>6. 0 \in S
  <2>1. ASSUME NEW s \in SUBSET Some, Cardinality(s) <= 0, NEW t \in SUBSET All
        PROVE  Below(s, t)
    <3>1. s = {}
      BY <2>1, SubFacts
    <3>2. a[s] = 0 /\ b[t] \in Nat
      BY <1>3, <3>1
    <3> QED BY <3>2
  <2> HIDE DEF Below
  <2> QED BY <2>1
<1>7. ASSUME NEW k \in Nat, k \in S PROVE k + 1 \in S
  <2>1. ASSUME NEW s \in SUBSET Some, Cardinality(s) <= k + 1, NEW t \in SUBSET All,
               \A i \in s : from[i] \in t
        PROVE  a[s] <= b[t]
    <3>1. CASE s = {}
      BY <1>3, <3>1
    <3>2. CASE s # {}
      <4>1. PICK x \in s : TRUE
        BY <3>2
      <4> DEFINE s2 == s \ {x}
                 y == from[x]
                 t2 == t \ {y}
      <4>2. s2 \in SUBSET Some /\ Cardinality(s2) <= k /\ t2 \in SUBSET All
        <5>1. Cardinality(s2) \in Nat /\ Cardinality(s2) + 1 = Cardinality(s)
          BY SubFacts
        <5> QED BY <2>1, <5>1
      <4>3. \A i \in s2 : from[i] \in t2
        BY <2>1
      <4>4. Below(s2, t2)
        <5> HIDE DEF Below, s2, t2
        <5> QED BY <1>7, <4>2
      <4>5. a[s] = f[x] + a[s2] /\ b[t] = g[y] + b[t2]
        BY <1>4, <1>5, <2>1
      <4>6. f[x] = g[y] /\ g[y] \in Nat /\ a[s2] \in Nat /\ b[t2] \in Nat
        BY <1>3, <4>2
      <4> HIDE DEF s2, t2, y
      <4> QED BY <4>3, <4>4, <4>5, <4>6
    <3> QED BY <3>1, <3>2
  <2>2. ASSUME NEW s \in SUBSET Some, Cardinality(s) <= k + 1, NEW t \in SUBSET All
        PROVE  Below(s, t)
    BY <2>1, <2>2
  <2> HIDE DEF Below
  <2> QED BY <2>2
<1>8. Nat \subseteq S
  <2> HIDE DEF S
  <2> QED BY <1>6, <1>7, Induction
<1>9. Below(Some, All)
  <2>1. Cardinality(Some) \in Nat /\ Cardinality(Some) <= Cardinality(Some)
    BY FS_CardinalityType
  <2> HIDE DEF Below
  <2> QED BY <1>8, <2>1
<1> QED BY <1>1, <1>2, <1>9

-----------------------------------------------------------------------------
(* The size of a save.                                                     *)

StoredOfTriggers(items) == {i \in DOMAIN items : TriggerActive(items[i].state)}
StoredOfBoards(items)   == {i \in DOMAIN items : Board!LboardActive(items[i].state)}

LEMMA StoredFacts ==
  ASSUME NEW defs, Known(defs), NEW states, NEW items, IsList(items, defs, states),
         NEW stored, stored \subseteq DOMAIN items
  PROVE  /\ IsFiniteSet(stored)
         /\ [i \in stored |-> items[i].def.size] \in [stored -> Nat]
<1>1. Len(items) \in Nat /\ DOMAIN items = 1 .. Len(items)
      /\ \A i \in DOMAIN items : items[i] \in ItemsOf(defs, states)
  BY ListFacts
<1>2. IsFiniteSet(DOMAIN items)
  BY <1>1, FS_Interval
<1>3. IsFiniteSet(stored)
  BY <1>2, FS_Subset
<1>4. \A i \in stored : items[i].def.size \in Nat
  <2>1. \A i \in stored : items[i].def \in Definitions
    BY <1>1, ItemFacts
  <2> QED BY <2>1, DefinitionFacts
<1> QED BY <1>3, <1>4

LEMMA SizesAreNumbers ==
  ASSUME NEW defs, Known(defs), NEW states, NEW items, IsList(items, defs, states)
  PROVE  TriggerSizes(items) \in Nat /\ BoardSizes(items) \in Nat
<1>1. SumOf([i \in StoredOfTriggers(items) |-> items[i].def.size]) \in Nat
  <2> DEFINE stored == StoredOfTriggers(items)
             f == [i \in stored |-> items[i].def.size]
  <2>1. stored \subseteq DOMAIN items
    BY DEF StoredOfTriggers
  <2>2. IsFiniteSet(stored) /\ f \in [stored -> Nat]
    BY <2>1, StoredFacts
  <2> HIDE DEF stored, f
  <2>3. SumOf(f) \in Nat
    BY <2>2, SumType
  <2> QED BY <2>3 DEF f, stored
<1>2. SumOf([i \in StoredOfBoards(items) |-> items[i].def.size]) \in Nat
  <2> DEFINE stored == StoredOfBoards(items)
             f == [i \in stored |-> items[i].def.size]
  <2>1. stored \subseteq DOMAIN items
    BY DEF StoredOfBoards
  <2>2. IsFiniteSet(stored) /\ f \in [stored -> Nat]
    BY <2>1, StoredFacts
  <2> HIDE DEF stored, f
  <2>3. SumOf(f) \in Nat
    BY <2>2, SumType
  <2> QED BY <2>3 DEF f, stored
<1> QED BY <1>1, <1>2 DEF TriggerSizes, BoardSizes, StoredOfTriggers, StoredOfBoards

LEMMA SizesShrink ==
  ASSUME NEW defs, Known(defs), NEW states, NEW items, IsList(items, defs, states),
         NEW left, IsList(left, defs, states)
  PROVE  /\ ShrunkTriggers(left, items) => TriggerSizes(left) <= TriggerSizes(items)
         /\ ShrunkBoards(left, items) => BoardSizes(left) <= BoardSizes(items)
<1>1. ASSUME ShrunkTriggers(left, items) PROVE TriggerSizes(left) <= TriggerSizes(items)
  <2> DEFINE Some == StoredOfTriggers(left)
             All  == StoredOfTriggers(items)
             f == [i \in Some |-> left[i].def.size]
             g == [i \in All |-> items[i].def.size]
  <2>1. PICK from \in [DOMAIN left -> DOMAIN items] :
          /\ \A i, j \in DOMAIN left : from[i] = from[j] => i = j
          /\ \A i \in DOMAIN left :
               /\ left[i].def = items[from[i]].def
               /\ TriggerActive(left[i].state) => TriggerActive(items[from[i]].state)
    BY <1>1 DEF ShrunkTriggers
  <2>2. Some \subseteq DOMAIN left /\ All \subseteq DOMAIN items
    BY DEF StoredOfTriggers
  <2>3a. IsFiniteSet(Some) /\ f \in [Some -> Nat]
    <3> HIDE DEF Some
    <3> QED BY <2>2, StoredFacts
  <2>3b. IsFiniteSet(All) /\ g \in [All -> Nat]
    <3> HIDE DEF All
    <3> QED BY <2>2, StoredFacts
  <2> DEFINE of == [i \in Some |-> from[i]]
  <2>4. \A i \in Some : from[i] \in All
    BY <2>1, <2>2 DEF StoredOfTriggers
  <2>5. /\ of \in [Some -> All] /\ \A i, j \in Some : of[i] = of[j] => i = j
        /\ \A i \in Some : f[i] = g[of[i]]
    <3> HIDE DEF Some, All
    <3> QED BY <2>1, <2>2, <2>4
  <2> HIDE DEF Some, All, f, g, of
  <2>6. SumOf(f) <= SumOf(g)
    BY <2>3a, <2>3b, <2>5, SumShrinks
  <2> QED BY <2>6 DEF TriggerSizes, StoredOfTriggers, f, g, Some, All
<1>2. ASSUME ShrunkBoards(left, items) PROVE BoardSizes(left) <= BoardSizes(items)
  <2> DEFINE Some == StoredOfBoards(left)
             All  == StoredOfBoards(items)
             f == [i \in Some |-> left[i].def.size]
             g == [i \in All |-> items[i].def.size]
  <2>1. PICK from \in [DOMAIN left -> DOMAIN items] :
          /\ \A i, j \in DOMAIN left : from[i] = from[j] => i = j
          /\ \A i \in DOMAIN left :
               /\ left[i].def = items[from[i]].def
               /\ Board!LboardActive(left[i].state) => Board!LboardActive(items[from[i]].state)
    BY <1>2 DEF ShrunkBoards
  <2>2. Some \subseteq DOMAIN left /\ All \subseteq DOMAIN items
    BY DEF StoredOfBoards
  <2>3a. IsFiniteSet(Some) /\ f \in [Some -> Nat]
    <3> HIDE DEF Some
    <3> QED BY <2>2, StoredFacts
  <2>3b. IsFiniteSet(All) /\ g \in [All -> Nat]
    <3> HIDE DEF All
    <3> QED BY <2>2, StoredFacts
  <2> DEFINE of == [i \in Some |-> from[i]]
  <2>4. \A i \in Some : from[i] \in All
    BY <2>1, <2>2 DEF StoredOfBoards
  <2>5. /\ of \in [Some -> All] /\ \A i, j \in Some : of[i] = of[j] => i = j
        /\ \A i \in Some : f[i] = g[of[i]]
    <3> HIDE DEF Some, All
    <3> QED BY <2>1, <2>2, <2>4
  <2> HIDE DEF Some, All, f, g, of
  <2>6. SumOf(f) <= SumOf(g)
    BY <2>3a, <2>3b, <2>5, SumShrinks
  <2> QED BY <2>6 DEF BoardSizes, StoredOfBoards, f, g, Some, All
<1> QED BY <1>1, <1>2

\* The sizes that are remembered are those of the chunks.
LEMMA SizedTotal ==
  ASSUME NEW defs, Known(defs), NEW states, NEW items, IsList(items, defs, states),
         NEW stored, stored \subseteq DOMAIN items
  PROVE  Total(Sized(items, stored), stored) = SumOf([i \in stored |-> items[i].def.size])
<1>1. \A i \in stored : Sized(items, stored)[i].size = items[i].def.size
  BY SizedFacts
<1>2. [i \in stored |-> Sized(items, stored)[i].size] = [i \in stored |-> items[i].def.size]
  BY <1>1
<1> QED BY <1>2 DEF Total

\* What is written is what the definitions of the stored items take.
LEMMA WrittenIs ==
  Written = MinSize + ScriptSize(richpresence) + TriggerSizes(triggers) + BoardSizes(lboards)
BY DEF Written, TriggerSizes, BoardSizes, StoredTriggers, StoredBoards

LEMMA ScriptSizeIsNumber ==
  ASSUME Lists
  PROVE  ScriptSize(richpresence) \in Nat
<1>1. CASE richpresence = NoScript
  BY <1>1 DEF ScriptSize
<1>2. CASE richpresence # NoScript
  <2>1. richpresence.script \in host.scripts
    BY <1>2, ListsAre, ScriptFacts
  <2>2. richpresence.script.names \in Seq(STRING)
    BY <2>1, ListsAre, RuntimeAssumption
  <2>3. Len(richpresence.script.names) \in Nat
    BY <2>2
  <2> DEFINE n == Len(richpresence.script.names)
             c == IF richpresence.script.conditional THEN 1 ELSE 0
  <2>4. ScriptSize(richpresence) = n + c /\ c \in Nat /\ n \in Nat
    BY <1>2, <2>3 DEF ScriptSize
  <2> HIDE DEF n, c
  <2> QED BY <2>4
<1> QED BY <1>1, <1>2

\* The lists shrink, and the size that was told stays.
LEMMA SizeKept ==
  ASSUME Lists, Lists', SizeHolds, asked' = asked, host' = host,
         ScriptSize(richpresence') = ScriptSize(richpresence),
         ShrunkTriggers(triggers', triggers), ShrunkBoards(lboards', lboards)
  PROVE  SizeHolds'
<1>1. /\ IsList(triggers, host.achievements, TriggerStates)
      /\ IsList(triggers', host.achievements, TriggerStates)
      /\ IsList(lboards, host.leaderboards, BoardStates)
      /\ IsList(lboards', host.leaderboards, BoardStates)
      /\ Known(host.achievements) /\ Known(host.leaderboards)
  <2>1. Lists' => /\ IsList(triggers', host'.achievements, TriggerStates)
                  /\ IsList(lboards', host'.leaderboards, BoardStates)
    BY DEF Lists
  <2> QED BY <2>1, ListsAre
<1>2. TriggerSizes(triggers') <= TriggerSizes(triggers)
  BY <1>1, SizesShrink
<1>3. BoardSizes(lboards') <= BoardSizes(lboards)
  BY <1>1, SizesShrink
<1>4. /\ TriggerSizes(triggers) \in Nat /\ TriggerSizes(triggers') \in Nat
      /\ BoardSizes(lboards) \in Nat /\ BoardSizes(lboards') \in Nat
      /\ ScriptSize(richpresence) \in Nat
  BY <1>1, SizesAreNumbers, ScriptSizeIsNumber
<1> DEFINE t  == TriggerSizes(triggers)
           t2 == TriggerSizes(triggers')
           b  == BoardSizes(lboards)
           b2 == BoardSizes(lboards')
           r  == ScriptSize(richpresence)
<1>5. asked \in Nat /\ (asked # Unasked => MinSize + r + t + b <= asked)
  BY DEF SizeHolds
<1>6. t2 <= t /\ b2 <= b /\ t \in Nat /\ t2 \in Nat /\ b \in Nat /\ b2 \in Nat /\ r \in Nat
  BY <1>2, <1>3, <1>4
<1> HIDE DEF t, t2, b, b2, r
<1>7. asked # Unasked => MinSize + r + t2 + b2 <= asked
  BY <1>5, <1>6 DEF MinSize
<1>8. SizeHolds' <=> /\ asked' \in Nat
                     /\ asked' # Unasked =>
                          MinSize + ScriptSize(richpresence') + t2 + b2 <= asked'
  BY DEF SizeHolds, TriggerSizes, BoardSizes, t2, b2, ScriptSize
<1> QED BY <1>5, <1>7, <1>8 DEF r

\* The size is asked.
LEMMA SizeAsked ==
  ASSUME Lists, Lists', ProgressSize,
         SameStates(triggers', triggers), SameStates(lboards', lboards)
  PROVE  SizeHolds'
<1>1. /\ richpresence' = richpresence /\ host' = host
      /\ triggers' = Sized(triggers, StoredTriggers)
      /\ lboards' = Sized(lboards, StoredBoards)
      /\ asked' = MinSize + ScriptSize(richpresence)
                  + Total(triggers', StoredTriggers) + Total(lboards', StoredBoards)
  BY DEF ProgressSize, Call
<1>2. Total(triggers', StoredTriggers) = TriggerSizes(triggers)
  <2>1. StoredTriggers \subseteq DOMAIN triggers
    BY DEF StoredTriggers
  <2>2. Total(triggers', StoredTriggers) = SumOf([i \in StoredTriggers |-> triggers[i].def.size])
    BY <1>1, <2>1, ListsAre, SizedTotal
  <2> QED BY <2>2 DEF TriggerSizes, StoredTriggers
<1>3. Total(lboards', StoredBoards) = BoardSizes(lboards)
  <2>1. StoredBoards \subseteq DOMAIN lboards
    BY DEF StoredBoards
  <2>2. Total(lboards', StoredBoards) = SumOf([i \in StoredBoards |-> lboards[i].def.size])
    BY <1>1, <2>1, ListsAre, SizedTotal
  <2> QED BY <2>2 DEF BoardSizes, StoredBoards
<1>4. TriggerSizes(triggers') = TriggerSizes(triggers)
  <2>1. StoredOfTriggers(triggers') = StoredOfTriggers(triggers)
    BY DEF StoredOfTriggers, SameStates
  <2>2. [i \in StoredOfTriggers(triggers) |-> triggers'[i].def.size]
          = [i \in StoredOfTriggers(triggers) |-> triggers[i].def.size]
    BY DEF StoredOfTriggers, SameStates
  <2> QED BY <2>1, <2>2 DEF TriggerSizes, StoredOfTriggers
<1>5. BoardSizes(lboards') = BoardSizes(lboards)
  <2>1. StoredOfBoards(lboards') = StoredOfBoards(lboards)
    BY DEF StoredOfBoards, SameStates
  <2>2. [i \in StoredOfBoards(lboards) |-> lboards'[i].def.size]
          = [i \in StoredOfBoards(lboards) |-> lboards[i].def.size]
    BY DEF StoredOfBoards, SameStates
  <2> QED BY <2>1, <2>2 DEF BoardSizes, StoredOfBoards
<1> DEFINE t  == TriggerSizes(triggers)
           t2 == TriggerSizes(triggers')
           b  == BoardSizes(lboards)
           b2 == BoardSizes(lboards')
           r  == ScriptSize(richpresence)
<1>6. t \in Nat /\ b \in Nat /\ r \in Nat
  BY ListsAre, SizesAreNumbers, ScriptSizeIsNumber
<1>7. t2 = t /\ b2 = b /\ asked' = MinSize + r + t + b /\ ScriptSize(richpresence') = r
  BY <1>1, <1>2, <1>3, <1>4, <1>5
<1>8. SizeHolds' <=> /\ asked' \in Nat
                     /\ asked' # Unasked =>
                          MinSize + ScriptSize(richpresence') + t2 + b2 <= asked'
  BY DEF SizeHolds, TriggerSizes, BoardSizes, t2, b2, ScriptSize
<1> HIDE DEF t, t2, b, b2, r
<1> QED BY <1>6, <1>7, <1>8 DEF MinSize

-----------------------------------------------------------------------------
(* The snapshot.                                                           *)

LEMMA SnapshotKept ==
  ASSUME SavedIsSnapshot, UNCHANGED <<host, saved, snapshot>>
  PROVE  SavedIsSnapshot'
BY DEF SavedIsSnapshot, TriggerChunks, BoardChunks

\* A save is of what is there.
LEMMA SnapshotTaken ==
  ASSUME Lists, Serialize
  PROVE  SavedIsSnapshot'
<1> DEFINE there == Range(triggers) \cup Range(lboards)
           A == ItemsOf(host.achievements, TriggerStates)
           B == ItemsOf(host.leaderboards, BoardStates)
<1>1. /\ host' = host /\ snapshot' = [items |-> there, richpresence |-> richpresence]
      /\ saved' = [items |-> {Chunk(triggers[i]) : i \in StoredTriggers}
                             \cup {Chunk(lboards[i]) : i \in StoredBoards},
                   names |-> IF richpresence = NoScript THEN <<>> ELSE richpresence.script.names,
                   values |-> IF richpresence = NoScript THEN <<>> ELSE richpresence.values,
                   conditions |-> IF richpresence # NoScript /\ richpresence.script.conditional
                                  THEN <<richpresence.script.md5, richpresence.conditions>>
                                  ELSE <<>>]
  BY DEF Serialize, Call
<1>2. snapshot'.items = there /\ snapshot'.richpresence = richpresence
  BY <1>1
<1>3. /\ saved'.items = {Chunk(triggers[i]) : i \in StoredTriggers}
                        \cup {Chunk(lboards[i]) : i \in StoredBoards}
      /\ saved'.names = (IF richpresence = NoScript THEN <<>> ELSE richpresence.script.names)
      /\ saved'.values = (IF richpresence = NoScript THEN <<>> ELSE richpresence.values)
      /\ saved'.conditions = (IF richpresence # NoScript /\ richpresence.script.conditional
                              THEN <<richpresence.script.md5, richpresence.conditions>>
                              ELSE <<>>)
  BY <1>1
<1>4. /\ \A i \in DOMAIN triggers : triggers[i] \in A /\ triggers[i].def \in host.achievements
                                   /\ triggers[i].def \notin host.leaderboards
      /\ \A i \in DOMAIN lboards : lboards[i] \in B /\ lboards[i].def \in host.leaderboards
                                  /\ lboards[i].def \notin host.achievements
  <2>1. \A i \in DOMAIN triggers : triggers[i] \in A /\ triggers[i].def \in host.achievements
    BY ListsAre, ListFacts, ItemFacts
  <2>2. \A i \in DOMAIN lboards : lboards[i] \in B /\ lboards[i].def \in host.leaderboards
    BY ListsAre, ListFacts, ItemFacts
  <2>3. \A d \in host.achievements : d \notin host.leaderboards
    BY ListsAre, HostFacts
  <2> HIDE DEF A, B
  <2> QED BY <2>1, <2>2, <2>3
<1>5. there \subseteq A \cup B
  <2> HIDE DEF A, B
  <2> QED BY <1>4 DEF Range
<1>6. ASSUME NEW s \in there, NEW t \in there, s.def.id = t.def.id PROVE s = t
  <2>1. /\ Distinct(triggers) /\ Distinct(lboards)
        /\ \A i \in DOMAIN triggers : \A j \in DOMAIN lboards : triggers[i].def.id # lboards[j].def.id
    <3>1. \A i \in DOMAIN triggers : \A j \in DOMAIN lboards : triggers[i].def.id # lboards[j].def.id
      BY <1>4, ListsAre, HostFacts
    <3> QED BY <3>1, ListsAre, ListFacts
  <2> QED BY <1>6, <2>1 DEF Distinct, Range
<1>7. {Chunk(triggers[i]) : i \in StoredTriggers} = TriggerChunks(there)
  <2>1. ASSUME NEW i \in StoredTriggers PROVE Chunk(triggers[i]) \in TriggerChunks(there)
    <3>1. /\ triggers[i] \in there /\ triggers[i].def \in host.achievements
          /\ TriggerActive(triggers[i].state)
      BY <1>4 DEF StoredTriggers, Range
    <3> HIDE DEF there
    <3> QED BY <3>1 DEF TriggerChunks
  <2>2. ASSUME NEW c \in TriggerChunks(there)
        PROVE  \E i \in StoredTriggers : c = Chunk(triggers[i])
    <3>1. PICK s \in there : c = Chunk(s) /\ s.def \in host.achievements /\ TriggerActive(s.state)
      BY DEF TriggerChunks
    <3>2. PICK i \in DOMAIN triggers : s = triggers[i]
      BY <1>4, <3>1 DEF Range
    <3> QED BY <3>1, <3>2 DEF StoredTriggers
  <2> HIDE DEF there
  <2> QED BY <2>1, <2>2
<1>8. {Chunk(lboards[i]) : i \in StoredBoards} = BoardChunks(there)
  <2>1. ASSUME NEW i \in StoredBoards PROVE Chunk(lboards[i]) \in BoardChunks(there)
    <3>1. /\ lboards[i] \in there /\ lboards[i].def \in host.leaderboards
          /\ Board!LboardActive(lboards[i].state)
      BY <1>4 DEF StoredBoards, Range
    <3> HIDE DEF there
    <3> QED BY <3>1 DEF BoardChunks
  <2>2. ASSUME NEW c \in BoardChunks(there)
        PROVE  \E i \in StoredBoards : c = Chunk(lboards[i])
    <3>1. PICK s \in there : /\ c = Chunk(s) /\ s.def \in host.leaderboards
                             /\ Board!LboardActive(s.state)
      BY DEF BoardChunks
    <3>2. PICK i \in DOMAIN lboards : s = lboards[i]
      BY <1>4, <3>1 DEF Range
    <3> QED BY <3>1, <3>2 DEF StoredBoards
  <2> HIDE DEF there
  <2> QED BY <2>1, <2>2
<1>9. IsScript(richpresence, host.scripts)
  BY ListsAre
<1>10. saved'.items = TriggerChunks(there) \cup BoardChunks(there)
  BY <1>3, <1>7, <1>8
<1> HIDE DEF there, A, B
<1>12. saved'.items = TriggerChunks(snapshot.items)' \cup BoardChunks(snapshot.items)'
  BY <1>1, <1>2, <1>10 DEF TriggerChunks, BoardChunks
<1>13. /\ snapshot'.items \subseteq ItemsOf(host'.achievements, TriggerStates)
                                   \cup ItemsOf(host'.leaderboards, BoardStates)
       /\ \A s, t \in snapshot'.items : s.def.id = t.def.id => s = t
       /\ IsScript(snapshot'.richpresence, host'.scripts)
  BY <1>1, <1>2, <1>5, <1>6, <1>9 DEF A, B
<1>14. LET rp == snapshot'.richpresence
       IN  /\ rp # NoScript => saved'.names = rp.script.names /\ saved'.values = rp.values
           /\ saved'.conditions = IF rp # NoScript /\ rp.script.conditional
                                  THEN <<rp.script.md5, rp.conditions>> ELSE <<>>
  BY <1>2, <1>3
<1> QED BY <1>12, <1>13, <1>14 DEF SavedIsSnapshot

-----------------------------------------------------------------------------
(* The steps.                                                              *)

LEMMA SameShrinks ==
  ASSUME UNCHANGED <<triggers, lboards>>
  PROVE  ShrunkTriggers(triggers', triggers) /\ ShrunkBoards(lboards', lboards)
<1>1. SameStates(triggers', triggers) /\ SameStates(lboards', lboards)
  BY DEF SameStates
<1> QED BY <1>1, SameIsFewer, FewerShrinks

LEMMA FrameHolds ==
  ASSUME RInv, Frame
  PROVE  RInv'
<1>1. Lists /\ Walk /\ SizeHolds /\ SavedIsSnapshot
  BY DEF RInv
<1>2. /\ UNCHANGED <<host, saved, snapshot, asked>>
      /\ richpresence' = richpresence \/ UpdateRichpresence
  BY DEF Frame, BeginFrame, VisitTrigger, BeginBoards, VisitBoard, EndBoards,
         UpdateRichpresence, runtime, history
<1>3. /\ Lists' /\ Walk'
      /\ ShrunkTriggers(triggers', triggers) /\ ShrunkBoards(lboards', lboards)
  <2>1. CASE BeginFrame
    <3>1. UNCHANGED <<triggers, lboards>>
      BY <2>1 DEF BeginFrame, runtime
    <3> QED BY <1>1, <2>1, <3>1, BeginFrameKeeps, SameShrinks
  <2>2. CASE VisitTrigger
    <3>1. lboards' = lboards
      BY <2>2 DEF VisitTrigger
    <3>2. SameStates(lboards', lboards)
      BY <3>1 DEF SameStates
    <3> QED BY <1>1, <2>2, <3>2, VisitTriggerKeeps, SameIsFewer, FewerShrinks
  <2>3. CASE BeginBoards
    <3>1. UNCHANGED <<triggers, lboards>>
      BY <2>3 DEF BeginBoards, runtime
    <3> QED BY <1>1, <2>3, <3>1, BeginBoardsKeeps, SameShrinks
  <2>4. CASE VisitBoard
    <3>1. triggers' = triggers
      BY <2>4 DEF VisitBoard
    <3>2. SameStates(triggers', triggers)
      BY <3>1 DEF SameStates
    <3> QED BY <1>1, <2>4, <3>2, VisitBoardKeeps, SameIsFewer, FewerShrinks
  <2>5. CASE EndBoards
    <3>1. UNCHANGED <<triggers, lboards>>
      BY <2>5 DEF EndBoards, runtime
    <3> QED BY <1>1, <2>5, <3>1, EndBoardsKeeps, SameShrinks
  <2>6. CASE UpdateRichpresence
    <3>1. UNCHANGED <<triggers, lboards>>
      BY <2>6 DEF UpdateRichpresence
    <3> QED BY <1>1, <2>6, <3>1, UpdateRichpresenceKeeps, SameShrinks
  <2> QED BY <2>1, <2>2, <2>3, <2>4, <2>5, <2>6 DEF Frame
<1>4. ScriptSize(richpresence') = ScriptSize(richpresence)
  <2>1. CASE richpresence' = richpresence
    BY <2>1
  <2>2. CASE UpdateRichpresence
    BY <1>1, <2>2, ListsAre, UpdatedScript
  <2> QED BY <1>2, <2>1, <2>2
<1>5. SizeHolds'
  BY <1>1, <1>2, <1>3, <1>4, SizeKept
<1>6. SavedIsSnapshot'
  BY <1>1, <1>2, SnapshotKept
<1> QED BY <1>3, <1>5, <1>6 DEF RInv

\* What has changed, the host must ask for the size again.
LEMMA UnaskedHolds ==
  ASSUME asked' = Unasked
  PROVE  SizeHolds'
BY DEF SizeHolds, Unasked

\* What takes no more than before leaves the size as it is.
LEMMA CallHolds ==
  ASSUME RInv, Lists', Walk', NEW name, Call(name), UNCHANGED <<saved, snapshot, asked>>,
         ScriptSize(richpresence') = ScriptSize(richpresence),
         ShrunkTriggers(triggers', triggers), ShrunkBoards(lboards', lboards)
  PROVE  RInv'
<1>1. Lists /\ Walk /\ SizeHolds /\ SavedIsSnapshot
  BY DEF RInv
<1>2. host' = host
  BY DEF Call
<1>3. SizeHolds'
  BY <1>1, <1>2, SizeKept
<1>4. SavedIsSnapshot'
  BY <1>1, <1>2, SnapshotKept
<1> QED BY <1>3, <1>4 DEF RInv

LEMMA ChangeHolds ==
  ASSUME RInv, Lists', Walk', NEW name, Call(name), UNCHANGED <<saved, snapshot>>,
         asked' = Unasked
  PROVE  RInv'
<1>1. SavedIsSnapshot /\ host' = host
  BY DEF RInv, Call
<1>2. SavedIsSnapshot'
  BY <1>1, SnapshotKept
<1>3. SizeHolds'
  BY UnaskedHolds
<1> QED BY <1>2, <1>3 DEF RInv

LEMMA HostHolds ==
  ASSUME RInv, Host
  PROVE  RInv'
<1>1. Lists /\ Walk /\ SizeHolds /\ SavedIsSnapshot
  BY DEF RInv
<1>2. ASSUME NEW def \in host.achievements, ActivateAchievement(def) PROVE RInv'
  <2>1. Call("other") /\ UNCHANGED <<saved, snapshot>> /\ asked' = Unasked
    BY <1>2 DEF ActivateAchievement
  <2> QED BY <1>1, <1>2, <2>1, ActivateKeeps, ChangeHolds
<1>3. ASSUME NEW def \in host.leaderboards, ActivateLboard(def) PROVE RInv'
  <2>1. Call("other") /\ UNCHANGED <<saved, snapshot>> /\ asked' = Unasked
    BY <1>3 DEF ActivateLboard
  <2> QED BY <1>1, <1>3, <2>1, ActivateKeeps, ChangeHolds
<1>4. ASSUME NEW script \in host.scripts, ActivateRichpresence(script) PROVE RInv'
  <2>1. Call("other") /\ UNCHANGED <<saved, snapshot>> /\ asked' = Unasked
    BY <1>4 DEF ActivateRichpresence
  <2>2. Lists' /\ Walk'
    BY <1>1, <1>4, ActivateRichpresenceKeeps
  <2> QED BY <2>1, <2>2, ChangeHolds
<1>5. ASSUME NEW id, DeactivateAchievement(id) PROVE RInv'
  <2>1. /\ Call("other") /\ UNCHANGED <<saved, snapshot, asked, richpresence, lboards>>
    BY <1>5 DEF DeactivateAchievement
  <2>2. Lists' /\ Walk' /\ ShrunkTriggers(triggers', triggers)
    BY <1>1, <1>5, DeactivateAchievementKeeps
  <2>3. ShrunkBoards(lboards', lboards)
    <3>1. SameStates(lboards', lboards)
      BY <2>1 DEF SameStates
    <3> QED BY <3>1, SameIsFewer, FewerShrinks
  <2>4. ScriptSize(richpresence') = ScriptSize(richpresence)
    BY <2>1
  <2> QED BY <2>1, <2>2, <2>3, <2>4, CallHolds
<1>6. ASSUME NEW id, DeactivateLboard(id) PROVE RInv'
  <2>1. /\ Call("other") /\ UNCHANGED <<saved, snapshot, asked, richpresence, triggers>>
    BY <1>6 DEF DeactivateLboard
  <2>2. Lists' /\ Walk' /\ ShrunkBoards(lboards', lboards)
    BY <1>1, <1>6, DeactivateLboardKeeps
  <2>3. ShrunkTriggers(triggers', triggers)
    <3>1. SameStates(triggers', triggers)
      BY <2>1 DEF SameStates
    <3> QED BY <3>1, SameIsFewer, FewerShrinks
  <2>4. ScriptSize(richpresence') = ScriptSize(richpresence)
    BY <2>1
  <2> QED BY <2>1, <2>2, <2>3, <2>4, CallHolds
<1>7. ASSUME NEW address, InvalidateAddress(address) PROVE RInv'
  <2>1. Call("other") /\ UNCHANGED <<saved, snapshot, asked, richpresence>>
    BY <1>7 DEF InvalidateAddress
  <2>2. /\ Lists' /\ Walk'
        /\ ShrunkTriggers(triggers', triggers) /\ ShrunkBoards(lboards', lboards)
    BY <1>1, <1>7, InvalidateAddressKeeps, FewerShrinks
  <2>3. ScriptSize(richpresence') = ScriptSize(richpresence)
    BY <2>1
  <2> QED BY <2>1, <2>2, <2>3, CallHolds
<1>8. ASSUME NEW refused, ValidateAddresses(refused) PROVE RInv'
  <2>1. Call("other") /\ UNCHANGED <<saved, snapshot, asked, richpresence>>
    BY <1>8 DEF ValidateAddresses
  <2>2. /\ Lists' /\ Walk'
        /\ ShrunkTriggers(triggers', triggers) /\ ShrunkBoards(lboards', lboards)
    BY <1>1, <1>8, ValidateAddressesKeeps, FewerShrinks
  <2>3. ScriptSize(richpresence') = ScriptSize(richpresence)
    BY <2>1
  <2> QED BY <2>1, <2>2, <2>3, CallHolds
<1>9. CASE ResetRuntime \/ DeserializeFails
  <2>1. Call("other") /\ UNCHANGED <<saved, snapshot>>
    BY <1>9 DEF ResetRuntime, DeserializeFails
  <2>2. Lists' /\ Walk' /\ asked' = Unasked
    BY <1>1, <1>9, DeserializeFailsKeeps
  <2> QED BY <2>1, <2>2, ChangeHolds
<1>10. CASE ProgressSize
  <2>1. /\ Lists' /\ Walk'
        /\ SameStates(triggers', triggers) /\ SameStates(lboards', lboards)
    BY <1>1, <1>10, ProgressSizeKeeps
  <2>2. SizeHolds'
    BY <1>1, <1>10, <2>1, SizeAsked
  <2>3. UNCHANGED <<host, saved, snapshot>>
    BY <1>10 DEF ProgressSize, Call
  <2>4. SavedIsSnapshot'
    BY <1>1, <2>3, SnapshotKept
  <2> QED BY <2>1, <2>2, <2>4 DEF RInv
<1>11. CASE Serialize
  <2>1. Lists' /\ Walk' /\ UNCHANGED <<triggers, lboards, richpresence>>
    BY <1>1, <1>11, SerializeKeeps
  <2>2. asked' = asked /\ host' = host
    BY <1>11 DEF Serialize, Call
  <2>3. ShrunkTriggers(triggers', triggers) /\ ShrunkBoards(lboards', lboards)
    BY <2>1, SameShrinks
  <2>4. ScriptSize(richpresence') = ScriptSize(richpresence)
    BY <2>1
  <2>5. SizeHolds'
    BY <1>1, <2>1, <2>2, <2>3, <2>4, SizeKept
  <2>6. SavedIsSnapshot'
    BY <1>1, <1>11, SnapshotTaken
  <2> QED BY <2>1, <2>5, <2>6 DEF RInv
<1>12. CASE Deserialize
  <2>1. Call("restore") /\ UNCHANGED <<saved, snapshot, asked>>
    BY <1>12 DEF Deserialize
  <2>2. /\ Lists' /\ Walk'
        /\ ShrunkTriggers(triggers', triggers) /\ ShrunkBoards(lboards', lboards)
    BY <1>1, <1>12, DeserializeKeeps, FewerShrinks
  <2>3. ScriptSize(richpresence') = ScriptSize(richpresence)
    BY <1>1, <1>12, RestoredScript
  <2> QED BY <2>1, <2>2, <2>3, CallHolds
<1> QED BY <1>2, <1>3, <1>4, <1>5, <1>6, <1>7, <1>8, <1>9, <1>10, <1>11, <1>12 DEF Host

LEMMA StutterHolds ==
  ASSUME RInv, UNCHANGED vars
  PROVE  RInv'
<1>1. UNCHANGED <<host, triggers, lboards, richpresence, saved, loop, at, view, visits, asked, snapshot>>
  BY DEF vars, runtime, history
<1>2. Lists /\ Walk /\ SizeHolds /\ SavedIsSnapshot
  BY DEF RInv
<1>3. Lists'
  BY <1>1, <1>2 DEF Lists
<1>4. Walk'
  BY <1>1, <1>2 DEF Walk
<1>5. SizeHolds'
  <2>1. ScriptSize(richpresence') = ScriptSize(richpresence)
    BY <1>1
  <2> QED BY <1>1, <1>2, <1>3, <2>1, SameShrinks, SizeKept
<1>6. SavedIsSnapshot'
  BY <1>1, <1>2, SnapshotKept
<1> QED BY <1>3, <1>4, <1>5, <1>6 DEF RInv

\* The inductive invariant.
LEMMA RuntimeInvariant == Spec => []RInv
<1>1. Init => RInv
  BY InitHolds
<1>2. RInv /\ [Next]_vars => RInv'
  BY FrameHolds, HostHolds, StutterHolds DEF Next
<1> QED BY <1>1, <1>2, PTL DEF Spec

-----------------------------------------------------------------------------
(* The theorems.                                                           *)

\* rc_runtime_do_frame: whatever lists it begins with, and whichever items the
\* handlers of their events deactivate on the way, each item that is left was
\* looked at once and none twice, and no item that reads an invalid address is left
\* unreported.
THEOREM EachItemOnceAlways == Spec => []EachItemOnce
<1>1. RInv => EachItemOnce
  <2> SUFFICES ASSUME RInv PROVE EachItemOnce
    OBVIOUS
  <2>1. Lists /\ Walk
    BY DEF RInv
  <2>2. \A i \in DOMAIN triggers :
          triggers[i].def \in host.achievements /\ triggers[i].data \in triggers[i].def.data
    BY <2>1, ListsAre, ListFacts, ItemFacts
  <2>3. \A i \in DOMAIN lboards :
          lboards[i].def \in host.leaderboards /\ lboards[i].state \in Board!LboardStates
    <3>1. \A i \in DOMAIN lboards :
            lboards[i].def \in host.leaderboards /\ lboards[i].state \in BoardStates
      BY <2>1, ListsAre, ListFacts, ItemFacts
    <3> QED BY <3>1 DEF BoardStates, Board!LboardStates
  <2>4. DOMAIN view = {item.def.id : item \in Items}
    <3>1. DOMAIN view = IdsOf(triggers) \cup IdsOf(lboards)
      BY <2>1 DEF Lists, Synced
    <3>2. IdsOf(triggers) \cup IdsOf(lboards) = {item.def.id : item \in Items}
      BY DEF IdsOf, Items, Range
    <3> QED BY <3>1, <3>2
  <2>5. TypeOK
    BY <2>1, <2>2, <2>3, <2>4 DEF TypeOK, Lists
  <2>6. \A id \in Ids : visits[id] <= 1
    BY <2>1 DEF Walk
  <2>7. ASSUME loop = "richpresence", NEW item \in Items
        PROVE  visits[item.def.id] = 1 /\ ~item.invalid
    <3>1. Seen(visits, triggers, 0) /\ Seen(visits, lboards, 0)
      BY <2>1, <2>7 DEF Walk
    <3>2. /\ \A i \in DOMAIN triggers : i > 0
          /\ \A i \in DOMAIN lboards : i > 0
      BY <2>1, ListsAre, ListFacts
    <3>3. CASE item \in Range(triggers)
      BY <3>1, <3>2, <3>3 DEF Seen, Range
    <3>4. CASE item \in Range(lboards)
      BY <3>1, <3>2, <3>4 DEF Seen, Range
    <3> QED BY <3>3, <3>4 DEF Items
  <2> QED BY <2>5, <2>6, <2>7 DEF EachItemOnce
<1> QED BY <1>1, RuntimeInvariant, PTL

\* The events of rc_runtime_do_frame tell a host that only follows them the state of
\* every achievement, and which leaderboards run with which value.
THEOREM EventsTellStatesAlways == Spec => []EventsTellStates
<1>1. RInv => EventsTellStates
  <2> SUFFICES ASSUME RInv, loop = "richpresence"
               PROVE  /\ \A i \in DOMAIN triggers : view[triggers[i].def.id] = triggers[i].state
                      /\ \A i \in DOMAIN lboards :
                           /\ (view[lboards[i].def.id] = "STARTED") = (lboards[i].state = "STARTED")
                           /\ lboards[i].state = "STARTED" =>
                                lboards[i].announced = lboards[i].data
    BY DEF EventsTellStates
  <2>1. Lists /\ Walk
    BY DEF RInv
  <2>2. FollowsTriggers(view, triggers) /\ FollowsBoards(view, lboards)
    BY <2>1 DEF Lists, Synced
  <2>3. ToldAbove(lboards, 0)
    BY <2>1 DEF Walk
  <2>4. \A i \in DOMAIN lboards : i > 0
    BY <2>1, ListsAre, ListFacts
  <2>5. \A i \in DOMAIN lboards :
          (view[lboards[i].def.id] = "STARTED") = (lboards[i].state = "STARTED")
    BY <2>2 DEF FollowsBoards, SameAttempt
  <2>6. \A i \in DOMAIN lboards :
          lboards[i].state = "STARTED" => lboards[i].announced = lboards[i].data
    BY <2>3, <2>4 DEF ToldAbove
  <2> QED BY <2>2, <2>5, <2>6 DEF FollowsTriggers
<1> QED BY <1>1, RuntimeInvariant, PTL

\* rc_runtime_progress_size: a buffer of the size it told is enough for
\* rc_runtime_serialize_progress, whatever frames, restores, deactivations and
\* invalid addresses come in between.
THEOREM SizeSufficesAlways == Spec => []SizeSuffices
<1>1. RInv => SizeSuffices
  BY WrittenIs DEF RInv, SizeHolds, SizeSuffices
<1> QED BY <1>1, RuntimeInvariant, PTL

-----------------------------------------------------------------------------
(* What a restore brings back.                                             *)

Remembered(def) == {s \in snapshot.items : s.def = def /\ TriggerActive(s.state)}

\* An item that moved to what was stored.
RestoredFrom(new, item, s, defs, states) ==
  /\ Known(defs) /\ item \in ItemsOf(defs, states)
  /\ s.def = item.def /\ s.state \in states /\ s.data \in item.def.data
  /\ Moves(new, item, s.state, s.data)

LEMMA ChunkMoves ==
  ASSUME NEW defs, NEW states, NEW item, NEW s, NEW new,
         RestoredFrom(new, item, s, defs, states)
  PROVE  Chunk(new) = Chunk(s)
<1>1. /\ Known(defs) /\ item \in ItemsOf(defs, states)
      /\ s.def = item.def /\ s.state \in states /\ s.data \in item.def.data
      /\ Moves(new, item, s.state, s.data)
  BY DEF RestoredFrom
<1>2. new.def = item.def /\ new.state = s.state /\ new.data = s.data
  BY <1>1, MovedItem
<1> QED BY <1>1, <1>2 DEF Chunk

LEMMA TriggerIsRestored ==
  ASSUME Lists, SavedIsSnapshot, saved # NoSave,
         NEW old \in ItemsOf(host.achievements, TriggerStates),
         NEW new, new = Restored(old, TriggerActive(old.state))
  PROVE  IF ~TriggerActive(old.state) THEN new = old
         ELSE IF Remembered(old.def) = {} THEN new = ResetItem(old)
         ELSE \E s \in Remembered(old.def) : Chunk(s) = Chunk(new)
<1> DEFINE chunks == {c \in saved.items : c.def = old.def}
           c == CHOOSE x \in chunks : TRUE
<1>0. old.def \in host.achievements /\ old.def \notin host.leaderboards
  BY ListsAre, ItemFacts, HostFacts
<1>1. CASE ~TriggerActive(old.state)
  BY <1>1 DEF Restored
<1>2. ASSUME NEW x \in chunks
      PROVE  \E s \in Remembered(old.def) :
               /\ x.state = s.state /\ x.data = s.data /\ x = Chunk(s)
               /\ s.def = old.def /\ s.state \in TriggerStates /\ s.data \in old.def.data
  <2>1. PICK s \in snapshot.items :
           /\ x = Chunk(s) /\ x.def = s.def /\ x.state = s.state /\ x.data = s.data
           /\ \/ /\ s.def \in host.achievements /\ TriggerActive(s.state)
                 /\ s \in ItemsOf(host.achievements, TriggerStates)
              \/ /\ s.def \in host.leaderboards /\ Board!LboardActive(s.state)
                 /\ s \in ItemsOf(host.leaderboards, BoardStates)
    BY <1>2, StoredChunks
  <2>2. s.def = old.def
    BY <1>2, <2>1
  <2>3. TriggerActive(s.state) /\ s \in ItemsOf(host.achievements, TriggerStates)
    BY <1>0, <2>1, <2>2
  <2>4. s \in Remembered(old.def)
    BY <2>2, <2>3 DEF Remembered
  <2>5. s.state \in TriggerStates /\ s.data \in s.def.data
    BY <2>3, ListsAre, ItemFacts
  <2> QED BY <2>1, <2>2, <2>4, <2>5
<1>3. ASSUME NEW s \in Remembered(old.def) PROVE chunks # {}
  <2>1. /\ s \in snapshot.items /\ s.def = old.def /\ s.def \in host.achievements
        /\ TriggerActive(s.state)
    BY <1>0 DEF Remembered
  <2>2. saved.items = TriggerChunks(snapshot.items) \cup BoardChunks(snapshot.items)
    BY DEF SavedIsSnapshot
  <2>3. Chunk(s) \in TriggerChunks(snapshot.items)
    BY <2>1 DEF TriggerChunks
  <2>4. Chunk(s).def = old.def
    BY <2>1 DEF Chunk
  <2> QED BY <2>2, <2>3, <2>4
<1>4. CASE TriggerActive(old.state) /\ chunks = {}
  <2>1. new = ResetItem(old)
    BY <1>4 DEF Restored
  <2>2. Remembered(old.def) = {}
    <3> HIDE DEF chunks
    <3> QED BY <1>3, <1>4
  <2> HIDE DEF chunks
  <2> QED BY <1>4, <2>1, <2>2
<1>5. CASE TriggerActive(old.state) /\ chunks # {}
  <2>1. c \in chunks
    BY <1>5
  <2>2. Moves(new, old, c.state, c.data)
    BY <1>5 DEF Restored, Moves
  <2> HIDE DEF c, chunks
  <2>3. PICK s \in Remembered(old.def) :
          /\ c.state = s.state /\ c.data = s.data /\ c = Chunk(s)
          /\ s.def = old.def /\ s.state \in TriggerStates /\ s.data \in old.def.data
    BY <1>2, <2>1
  <2>4. Moves(new, old, s.state, s.data)
    BY <2>2, <2>3
  <2>5. Chunk(new) = Chunk(s)
    <3>1. RestoredFrom(new, old, s, host.achievements, TriggerStates)
      BY <2>3, <2>4, ListsAre DEF RestoredFrom
    <3> QED BY <3>1, ChunkMoves
  <2> QED BY <1>5, <2>3, <2>5
<1> HIDE DEF chunks
<1> QED BY <1>1, <1>4, <1>5

BothRun(s, t) == Board!LboardActive(s.state) /\ Board!LboardActive(t.state)

LEMMA BoardIsRestored ==
  ASSUME Lists, SavedIsSnapshot, saved # NoSave,
         NEW old \in ItemsOf(host.leaderboards, BoardStates),
         NEW new, new = Restored(old, Board!LboardActive(old.state)),
         NEW then \in snapshot.items, then.def = old.def, BothRun(then, old)
  PROVE  Chunk(then) = Chunk(new)
<1> DEFINE chunks == {c \in saved.items : c.def = old.def}
           c == CHOOSE x \in chunks : TRUE
<1>0. old.def \in host.leaderboards /\ old.def \notin host.achievements
  BY ListsAre, ItemFacts, HostFacts
<1>1. chunks # {}
  <2>1. saved.items = TriggerChunks(snapshot.items) \cup BoardChunks(snapshot.items)
    BY DEF SavedIsSnapshot
  <2>2. Chunk(then) \in BoardChunks(snapshot.items)
    BY <1>0 DEF BoardChunks, BothRun
  <2>3. Chunk(then).def = old.def
    BY DEF Chunk
  <2> QED BY <2>1, <2>2, <2>3
<1>2. c \in chunks
  BY <1>1
<1>3. Moves(new, old, c.state, c.data)
  BY <1>1 DEF Restored, Moves, BothRun
<1>4. c \in saved.items /\ c.def = old.def
  BY <1>2
<1> HIDE DEF c, chunks
<1>5. PICK s \in snapshot.items :
         /\ c = Chunk(s) /\ c.def = s.def /\ c.state = s.state /\ c.data = s.data
         /\ \/ /\ s.def \in host.achievements /\ TriggerActive(s.state)
               /\ s \in ItemsOf(host.achievements, TriggerStates)
            \/ /\ s.def \in host.leaderboards /\ Board!LboardActive(s.state)
               /\ s \in ItemsOf(host.leaderboards, BoardStates)
  BY <1>4, StoredChunks
<1>6. s = then
  <2>1. s.def.id = then.def.id
    BY <1>4, <1>5
  <2> QED BY <2>1 DEF SavedIsSnapshot
<1>7. s \in ItemsOf(host.leaderboards, BoardStates) /\ s.def = old.def
  BY <1>0, <1>4, <1>5
<1>8. s.state \in BoardStates /\ s.data \in old.def.data
  BY <1>7, ListsAre, ItemFacts
<1>9. Moves(new, old, s.state, s.data)
  BY <1>3, <1>5
<1>10. Chunk(new) = Chunk(s)
  <2>1. RestoredFrom(new, old, s, host.leaderboards, BoardStates)
    BY <1>7, <1>8, <1>9, ListsAre DEF RestoredFrom
  <2> QED BY <2>1, ChunkMoves
<1> QED BY <1>6, <1>10

\* Of the script it was saved with, every name is read.
LEMMA NamesOfTheSame ==
  ASSUME NEW names, names = Range(saved.names), saved.names \in Seq(STRING)
  PROVE  NamesRead(names) = names
<1>1. /\ Len(saved.names) \in Nat /\ DOMAIN saved.names = 1 .. Len(saved.names)
      /\ \A k \in DOMAIN saved.names : saved.names[k] \in names
  BY DEF Range
<1> DEFINE reads(k) == 1 + 3 * Cardinality({i \in 1 .. k : saved.names[i] \notin names})
<1>2. ASSUME NEW k \in DOMAIN saved.names
      PROVE  k - 1 + reads(k - 1) <= Len(saved.names)
  <2>1. {i \in 1 .. (k - 1) : saved.names[i] \notin names} = {}
    BY <1>1
  <2>2. Cardinality({i \in 1 .. (k - 1) : saved.names[i] \notin names}) = 0
    BY <2>1, FS_EmptySet
  <2>3. reads(k - 1) = 1
    BY <2>2
  <2> HIDE DEF reads
  <2> QED BY <1>1, <2>3
<1>3. NamesRead(names) = {saved.names[k] : k \in {k \in DOMAIN saved.names :
                            saved.names[k] \in names /\ k - 1 + reads(k - 1) <= Len(saved.names)}}
  BY DEF NamesRead
<1> HIDE DEF reads
<1>4. {k \in DOMAIN saved.names : saved.names[k] \in names
                                  /\ k - 1 + reads(k - 1) <= Len(saved.names)} = DOMAIN saved.names
  BY <1>1, <1>2
<1>5. NamesRead(names) = {saved.names[k] : k \in DOMAIN saved.names}
  BY <1>3, <1>4
<1> QED BY <1>5 DEF Range

LEMMA ScriptIsRestored ==
  ASSUME Lists, SavedIsSnapshot, saved # NoSave,
         NEW rp, IsScript(rp, host.scripts), rp # NoScript,
         snapshot.richpresence # NoScript, snapshot.richpresence.script = rp.script
  PROVE  ReadRichPresence(ReadVariables(rp)) = snapshot.richpresence
<1> DEFINE then == snapshot.richpresence
           read == ReadVariables(rp)
           new == ReadRichPresence(read)
<1>1. /\ IsScript(then, host.scripts)
      /\ saved.names = then.script.names /\ saved.values = then.values
      /\ saved.conditions = IF then.script.conditional
                            THEN <<then.script.md5, then.conditions>> ELSE <<>>
  BY DEF SavedIsSnapshot
<1>2. /\ then = [script |-> then.script, values |-> then.values, conditions |-> then.conditions]
      /\ then.script \in host.scripts
      /\ DOMAIN then.values = Range(then.script.names)
      /\ then.values = [n \in DOMAIN then.values |-> then.values[n]]
      /\ then.script.conditional \/ then.conditions = 0
  BY <1>1, ScriptFacts
<1>3. /\ rp = [script |-> rp.script, values |-> rp.values, conditions |-> rp.conditions]
      /\ DOMAIN rp.values = Range(rp.script.names)
      /\ rp.values = [n \in DOMAIN rp.values |-> rp.values[n]]
  BY ScriptFacts
<1>4. then.script = rp.script
  OBVIOUS
<1>5. saved.names \in Seq(STRING)
  BY <1>1, <1>2, ListsAre, RuntimeAssumption
<1>6. /\ IsScript(read, host.scripts) /\ read # NoScript
      /\ read.script = rp.script /\ read.conditions = rp.conditions
  BY ReadValues
<1> HIDE DEF then
<1>7. read.values = then.values
  <2>1. CASE saved.names = <<>> \/ DOMAIN rp.values = {}
    <3>1. read = rp
      BY <2>1 DEF ReadVariables
    <3>2. DOMAIN rp.values = {}
      <4>1. ASSUME saved.names = <<>> PROVE Range(saved.names) = {}
        BY <4>1 DEF Range
      <4> QED BY <1>1, <1>3, <1>4, <2>1, <4>1
    <3>3. DOMAIN then.values = {}
      BY <1>2, <1>3, <1>4, <3>2
    <3> HIDE DEF read
    <3> QED BY <1>2, <1>3, <3>1, <3>2, <3>3
  <2>2. CASE ~(saved.names = <<>> \/ DOMAIN rp.values = {})
    <3> DEFINE w == [n \in DOMAIN rp.values |->
                       IF n \in NamesRead(DOMAIN rp.values) THEN saved.values[n] ELSE 0]
    <3>1. GivesValues(read, rp, w)
      BY <2>2 DEF ReadVariables, GivesValues
    <3>2. NamesRead(DOMAIN rp.values) = DOMAIN rp.values
      BY <1>1, <1>3, <1>4, <1>5, NamesOfTheSame
    <3>3. w = [n \in DOMAIN rp.values |-> saved.values[n]]
      BY <3>2
    <3>4. w = then.values
      <4> HIDE DEF w
      <4> QED BY <1>1, <1>2, <1>3, <1>4, <3>3
    <3> HIDE DEF w, read
    <3>5. read = [script |-> rp.script, values |-> w, conditions |-> rp.conditions]
      BY <1>3, <3>1, WithValues
    <3> QED BY <3>4, <3>5
  <2> QED BY <2>1, <2>2
<1>8. read = [script |-> read.script, values |-> read.values, conditions |-> read.conditions]
  <2> HIDE DEF read
  <2> QED BY <1>6, ScriptFacts
<1> HIDE DEF read
<1>9. GivesConditions(new, read, then.conditions)
  <2>1. CASE then.script.conditional
    <3>1. saved.conditions = <<then.script.md5, then.conditions>>
      BY <1>1, <2>1
    <3>2. /\ saved.conditions # <<>> /\ saved.conditions[1] = read.script.md5
          /\ saved.conditions[2] = then.conditions
      BY <1>4, <1>6, <3>1
    <3> QED BY <3>2 DEF ReadRichPresence, GivesConditions
  <2>2. CASE ~then.script.conditional
    <3>1. saved.conditions = <<>> /\ then.conditions = 0
      BY <1>1, <1>2, <2>2
    <3> QED BY <1>6, <3>1 DEF ReadRichPresence, ResetConditions, GivesConditions
  <2> QED BY <2>1, <2>2
<1> HIDE DEF new
<1>10. new = [script |-> read.script, values |-> read.values, conditions |-> then.conditions]
  BY <1>8, <1>9, WithConditions
<1>11. new = then
  BY <1>2, <1>4, <1>6, <1>7, <1>10
<1> QED BY <1>11 DEF new, read, then

\* Only rc_runtime_deserialize_progress restores.
LEMMA OnlyRestores ==
  ASSUME Next, called' = "restore", calls' # calls
  PROVE  Deserialize
<1>1. ~Frame
  BY DEF Frame, BeginFrame, VisitTrigger, BeginBoards, VisitBoard, EndBoards, UpdateRichpresence
<1>2. ~Call("other")
  BY DEF Call
<1>3. CASE Host
  BY <1>2, <1>3 DEF Host, ActivateAchievement, ActivateLboard, ActivateRichpresence,
                    DeactivateAchievement, DeactivateLboard, InvalidateAddress,
                    ValidateAddresses, ResetRuntime, ProgressSize, Serialize, DeserializeFails
<1> QED BY <1>1, <1>3 DEF Next

\* rc_runtime_deserialize_progress of what rc_runtime_serialize_progress has written:
\* the items with the same definition, active then and now, are as they were, the
\* achievements active only now begin again, those that are not active stay as they
\* are, and the same script has its values and conditions back.
THEOREM RestoresTheSnapshotAlways == Spec => RestoresTheSnapshot
<1>1. ASSUME RInv, Deserialize, NEW i \in DOMAIN triggers
      PROVE  LET old == triggers[i]
                 then == {s \in snapshot.items : s.def = old.def /\ TriggerActive(s.state)}
             IN  IF ~TriggerActive(old.state) THEN triggers'[i] = old
                 ELSE IF then = {} THEN triggers'[i] = ResetItem(old)
                 ELSE \E s \in then : Chunk(s) = Chunk(triggers'[i])
  <2>1. Lists /\ SavedIsSnapshot /\ saved # NoSave
    BY <1>1 DEF RInv, Deserialize
  <2>2. triggers'[i] = Restored(triggers[i], TriggerActive(triggers[i].state))
    BY <1>1 DEF Deserialize
  <2>3. triggers[i] \in ItemsOf(host.achievements, TriggerStates)
    BY <2>1, ListsAre, ListFacts
  <2>4. IF ~TriggerActive(triggers[i].state) THEN triggers'[i] = triggers[i]
        ELSE IF Remembered(triggers[i].def) = {} THEN triggers'[i] = ResetItem(triggers[i])
        ELSE \E s \in Remembered(triggers[i].def) : Chunk(s) = Chunk(triggers'[i])
    BY <2>1, <2>2, <2>3, TriggerIsRestored
  <2> QED BY <2>4 DEF Remembered
<1>2. ASSUME RInv, Deserialize, NEW i \in DOMAIN lboards, NEW s \in snapshot.items,
             s.def = lboards[i].def, Board!LboardActive(s.state),
             Board!LboardActive(lboards[i].state)
      PROVE  Chunk(s) = Chunk(lboards'[i])
  <2>1. Lists /\ SavedIsSnapshot /\ saved # NoSave
    BY <1>2 DEF RInv, Deserialize
  <2>2. lboards'[i] = Restored(lboards[i], Board!LboardActive(lboards[i].state))
    BY <1>2 DEF Deserialize
  <2>3. lboards[i] \in ItemsOf(host.leaderboards, BoardStates)
    BY <2>1, ListsAre, ListFacts
  <2>4. BothRun(s, lboards[i])
    BY <1>2 DEF BothRun
  <2> QED BY <1>2, <2>1, <2>2, <2>3, <2>4, BoardIsRestored
<1>3. ASSUME RInv, Deserialize, richpresence # NoScript, snapshot.richpresence # NoScript,
             snapshot.richpresence.script = richpresence.script
      PROVE  richpresence' = snapshot.richpresence
  <2>1. Lists /\ SavedIsSnapshot /\ saved # NoSave
    BY <1>3 DEF RInv, Deserialize
  <2>2. richpresence' = ReadRichPresence(ReadVariables(richpresence))
    BY <1>3 DEF Deserialize
  <2> QED BY <1>3, <2>1, <2>2, ListsAre, ScriptIsRestored
<1> DEFINE Brought ==
      called' = "restore" /\ calls' # calls =>
        /\ \A i \in DOMAIN triggers :
             LET old == triggers[i]
                 then == {s \in snapshot.items : s.def = old.def /\ TriggerActive(s.state)}
             IN  IF ~TriggerActive(old.state) THEN triggers'[i] = old
                 ELSE IF then = {} THEN triggers'[i] = ResetItem(old)
                 ELSE \E s \in then : Chunk(s) = Chunk(triggers'[i])
        /\ \A i \in DOMAIN lboards :
             \A s \in snapshot.items :
               /\ s.def = lboards[i].def
               /\ Board!LboardActive(s.state) /\ Board!LboardActive(lboards[i].state)
               => Chunk(s) = Chunk(lboards'[i])
        /\ richpresence # NoScript /\ snapshot.richpresence # NoScript
             /\ snapshot.richpresence.script = richpresence.script
           => richpresence' = snapshot.richpresence
<1>4. RInv /\ [Next]_vars => [Brought]_vars
  <2> SUFFICES ASSUME RInv, Next, called' = "restore", calls' # calls PROVE Brought
    OBVIOUS
  <2>1. Deserialize
    BY OnlyRestores
  <2> QED BY <1>1, <1>2, <1>3, <2>1
<1> QED BY <1>4, RuntimeInvariant, PTL DEF Spec, RestoresTheSnapshot
=============================================================================
