---------------------------- MODULE RcTriggerProofs ----------------------------
(***************************************************************************)
(* Theorems about triggers, for every definition of a trigger: any number  *)
(* of groups, of conditions of any type in any order, and any targets.     *)
(*                                                                         *)
(* A frame is a fold over groups of folds over classes of conditions.  The *)
(* argument climbs from one turn to the whole frame twice: first for what  *)
(* is done to the hit counts (Turned, Stage, GroupTurned, FrameTurned),    *)
(* which with IInv gives the theorems about hits and the lifecycle, then   *)
(* for what is decided (Judged, ClassJudged, GroupJudged, FrameJudged),    *)
(* which gives FiredAlwaysMet and, with NumbersBacked, MeasuredAlwaysBacked*)
(***************************************************************************)
EXTENDS RcTrigger, FiniteSetTheorems, TLAPS

-----------------------------------------------------------------------------
(* Folds.  FoldLeftDomain is a recursive function on the subsets of the      *)
(* domain; that such a function exists, and what it computes turn by turn,   *)
(* is shown by induction on the number of turns.                             *)

\* A set of numbers that has 0, and with each number the next, has them all.
LEMMA Induction ==
  ASSUME NEW S, 0 \in S, \A n \in Nat : n \in S => n + 1 \in S
  PROVE  Nat \subseteq S
<1> DEFINE W == {1 .. n : n \in Nat \ S}
           R == StrictSubsetOrdering(Nat)
<1> SUFFICES ASSUME NEW k \in Nat \ S PROVE FALSE
  OBVIOUS
<1>1. W \subseteq FiniteSubsetsOf(Nat)
  <2> SUFFICES ASSUME NEW n \in Nat PROVE 1 .. n \in FiniteSubsetsOf(Nat)
    OBVIOUS
  <2>1. IsFiniteSet(1 .. n)
    BY FS_Interval
  <2> QED BY <2>1 DEF FiniteSubsetsOf
<1>2. IsWellFoundedOn(R, FiniteSubsetsOf(Nat))
  BY FS_StrictSubsetOrderingWellFounded
<1>3. W # {}
  OBVIOUS
<1>4. PICK x \in W : \A y \in W : ~(<<y, x>> \in R)
  <2> HIDE DEF W, R
  <2> QED BY <1>1, <1>2, <1>3, WFMin
<1>5. PICK n \in Nat \ S : x = 1 .. n
  OBVIOUS
<1>6. n - 1 \in Nat \ S
  <2>1. n # 0 /\ n - 1 \in Nat
    BY <1>5
  <2>2. n - 1 \in S => n - 1 + 1 \in S
    BY <2>1
  <2> QED BY <2>1, <2>2, <1>5
<1>7. <<1 .. (n - 1), 1 .. n>> \in R
  <2>1. n \in 1 .. n /\ n \notin 1 .. (n - 1) /\ 1 .. (n - 1) \subseteq 1 .. n
    BY <1>6
  <2>2. 1 .. n \in SUBSET Nat /\ 1 .. (n - 1) \in SUBSET Nat
    OBVIOUS
  <2>3. 1 .. n # 1 .. (n - 1)
    BY <2>1
  <2> QED BY <2>1, <2>2, <2>3 DEF StrictSubsetOrdering
<1>8. 1 .. (n - 1) \in W
  BY <1>6
<1> QED BY <1>4, <1>5, <1>7, <1>8

\* A set of numbers that is not empty has a least one.
LEMMA Least ==
  ASSUME NEW S \in SUBSET Nat, S # {}
  PROVE  \E j \in S : \A k \in S : j <= k
<1> SUFFICES ASSUME \A j \in S : \E k \in S : ~(j <= k) PROVE FALSE
  OBVIOUS
<1> DEFINE T == {n \in Nat : \A k \in S : k > n}
<1>1. 0 \in T
  BY \A k \in S : k \in Nat
<1>2. ASSUME NEW n \in Nat, n \in T PROVE n + 1 \in T
  <2>1. \A k \in S : k >= n + 1
    BY <1>2
  <2>2. n + 1 \notin S
    BY <2>1
  <2> QED BY <2>1, <2>2
<1>3. Nat \subseteq T
  <2> HIDE DEF T
  <2> QED BY <1>1, <1>2, Induction
<1>4. PICK k \in S : TRUE
  OBVIOUS
<1>5. k \in Nat /\ k \in T
  BY <1>3
<1> QED BY <1>5

\* A set of numbers up to n has a largest one.
LEMMA MaxFacts ==
  ASSUME NEW n \in Nat, NEW s \in SUBSET (1 .. n), s # {}
  PROVE  Max(s) \in s /\ \A y \in s : Max(s) >= y
<1> DEFINE Has(k) == \A t \in SUBSET (1 .. k) :
                       t # {} => \E x \in t : \A y \in t : x >= y
           S == {k \in Nat : Has(k)}
<1>1. 0 \in S
  <2>1. 1 .. 0 = {}
    OBVIOUS
  <2> QED BY <2>1
<1>2. ASSUME NEW k \in Nat, k \in S PROVE k + 1 \in S
  <2> SUFFICES ASSUME NEW t \in SUBSET (1 .. (k + 1)), t # {}
               PROVE  \E x \in t : \A y \in t : x >= y
    OBVIOUS
  <2>1. CASE k + 1 \in t
    BY <2>1
  <2>2. CASE k + 1 \notin t
    <3>1. t \in SUBSET (1 .. k)
      BY <2>2
    <3> QED BY <3>1, <1>2
  <2> QED BY <2>1, <2>2
<1>3. Nat \subseteq S
  <2> HIDE DEF S
  <2> QED BY <1>1, <1>2, Induction
<1> QED BY <1>3 DEF Max

\* The largest number up to k is k, and without it there are those up to k - 1.
LEMMA MaxOfTurns ==
  ASSUME NEW k \in Nat \ {0}
  PROVE  /\ 1 .. k # {}
         /\ Max(1 .. k) = k
         /\ (1 .. k) \ {k} = 1 .. (k - 1)
<1>1. 1 .. k # {} /\ k \in 1 .. k
  OBVIOUS
<1>2. Max(1 .. k) \in 1 .. k /\ Max(1 .. k) >= k
  BY <1>1, MaxFacts
<1> QED BY <1>1, <1>2

\* A solution of the recursion of a fold over n turns, F being what a turn does.
FoldSolution(it, n, Good, base, F) ==
  /\ it \in [SUBSET (1 .. n) -> Good]
  /\ \A s \in SUBSET (1 .. n) :
       it[s] = IF s = {} THEN base ELSE F[<<Max(s), it[s \ {Max(s)}]>>]

\* There is one.
LEMMA FoldExists ==
  ASSUME NEW n \in Nat, NEW Good, NEW base \in Good,
         NEW F \in [(1 .. n) \X Good -> Good]
  PROVE  \E it : FoldSolution(it, n, Good, base, F)
<1> DEFINE Turn(it, s) == IF s = {} THEN base ELSE F[<<Max(s), it[s \ {Max(s)}]>>]
           Done(k) == \E it \in [SUBSET (1 .. k) -> Good] :
                        \A s \in SUBSET (1 .. k) : it[s] = Turn(it, s)
           S == {k \in Nat : k <= n => Done(k)}
<1>1. 0 \in S
  <2> DEFINE it == [s \in SUBSET (1 .. 0) |-> base]
  <2>1. it \in [SUBSET (1 .. 0) -> Good]
    OBVIOUS
  <2>2. ASSUME NEW s \in SUBSET (1 .. 0) PROVE it[s] = Turn(it, s)
    OBVIOUS
  <2> QED BY <2>1, <2>2
<1>2. ASSUME NEW k \in Nat, k \in S PROVE k + 1 \in S
  <2> SUFFICES ASSUME k + 1 <= n PROVE Done(k + 1)
    <3> HIDE DEF Done
    <3> QED OBVIOUS
  <2> k <= n
    OBVIOUS
  <2>0. Done(k)
    <3> HIDE DEF Done
    <3> QED BY <1>2
  <2>1. PICK it \in [SUBSET (1 .. k) -> Good] :
          \A s \in SUBSET (1 .. k) : it[s] = Turn(it, s)
    BY <2>0
  <2> DEFINE more == [s \in SUBSET (1 .. (k + 1)) |->
                        IF k + 1 \in s THEN F[<<k + 1, it[s \ {k + 1}]>>] ELSE it[s]]
  <2>2. ASSUME NEW s \in SUBSET (1 .. (k + 1))
        PROVE  more[s] \in Good /\ more[s] = Turn(more, s)
    <3>1. CASE k + 1 \in s
      <4>1. Max(s) = k + 1
        <5>1. Max(s) \in s /\ Max(s) >= k + 1
          BY <3>1, MaxFacts, k + 1 \in Nat
        <5>2. Max(s) \in 1 .. (k + 1)
          BY <5>1
        <5> QED BY <5>1, <5>2
      <4>2. s \ {k + 1} \in SUBSET (1 .. k)
        OBVIOUS
      <4>3. more[s \ {k + 1}] = it[s \ {k + 1}] /\ it[s \ {k + 1}] \in Good
        BY <4>2
      <4>4. more[s] = F[<<k + 1, it[s \ {k + 1}]>>]
        BY <3>1
      <4>5. <<k + 1, it[s \ {k + 1}]>> \in (1 .. n) \X Good
        BY <4>3
      <4> HIDE DEF more
      <4> QED BY <3>1, <4>1, <4>3, <4>4, <4>5
    <3>2. CASE k + 1 \notin s
      <4>1. s \in SUBSET (1 .. k)
        BY <3>2
      <4>2. more[s] = it[s] /\ it[s] \in Good /\ it[s] = Turn(it, s)
        BY <3>2, <4>1, <2>1
      <4>3. CASE s = {}
        BY <4>2, <4>3
      <4>4. CASE s # {}
        <5>1. s \ {Max(s)} \in SUBSET (1 .. k) /\ k + 1 \notin s \ {Max(s)}
          BY <4>1, <3>2
        <5>2. more[s \ {Max(s)}] = it[s \ {Max(s)}]
          BY <5>1
        <5> HIDE DEF more
        <5> QED BY <4>2, <4>4, <5>2
      <4> QED BY <4>3, <4>4
    <3> QED BY <3>1, <3>2
  <2>3. more \in [SUBSET (1 .. (k + 1)) -> Good]
    BY <2>2
  <2> HIDE DEF more
  <2> QED BY <2>2, <2>3
<1>3. Nat \subseteq S
  <2> HIDE DEF S
  <2> QED BY <1>1, <1>2, Induction
<1>4. Done(n)
  <2> HIDE DEF Done
  <2> QED BY <1>3
<1> QED BY <1>4 DEF FoldSolution

\* The values h of a fold over n turns, after each of them, the last being r.
FoldRunTo(h, n, Good, base, F, r) ==
  /\ h \in [0 .. n -> Good]
  /\ h[0] = base
  /\ \A k \in 1 .. n : h[k] = F[<<k, h[k - 1]>>]
  /\ h[n] = r

\* What does the turns in order on the sets 1 .. k leaves such values.
LEMMA FoldRuns ==
  ASSUME NEW n \in Nat, NEW Good, NEW base \in Good,
         NEW F \in [(1 .. n) \X Good -> Good], NEW it, it[{}] = base,
         \A k \in 1 .. n : it[1 .. (k - 1)] \in Good
                            => it[1 .. k] = F[<<k, it[1 .. (k - 1)]>>]
  PROVE  \E h : FoldRunTo(h, n, Good, base, F, it[1 .. n])
<1> DEFINE S == {k \in Nat : k <= n => it[1 .. k] \in Good}
           h == [k \in 0 .. n |-> it[1 .. k]]
<1>1. it[1 .. 0] = base
  <2>1. 1 .. 0 = {}
    OBVIOUS
  <2> QED BY <2>1
<1>2. 0 \in S
  BY <1>1
<1>3. ASSUME NEW k \in Nat, k \in S PROVE k + 1 \in S
  <2> SUFFICES ASSUME k + 1 <= n PROVE it[1 .. (k + 1)] \in Good
    OBVIOUS
  <2>1. k + 1 \in 1 .. n /\ (k + 1) - 1 = k
    OBVIOUS
  <2>2. it[1 .. k] \in Good
    BY <1>3
  <2>3. it[1 .. (k + 1)] = F[<<k + 1, it[1 .. k]>>]
    BY <2>1, <2>2
  <2> QED BY <2>1, <2>2, <2>3
<1>4. Nat \subseteq S
  <2> HIDE DEF S
  <2> QED BY <1>2, <1>3, Induction
<1>5. ASSUME NEW k \in 0 .. n PROVE it[1 .. k] \in Good
  <2>1. k \in Nat /\ k <= n
    OBVIOUS
  <2>2. k \in S
    <3> HIDE DEF S
    <3> QED BY <2>1, <1>4
  <2> QED BY <2>1, <2>2
<1>6. h \in [0 .. n -> Good] /\ h[0] = base /\ h[n] = it[1 .. n]
  BY <1>1, <1>5
<1>7. ASSUME NEW k \in 1 .. n PROVE h[k] = F[<<k, h[k - 1]>>]
  <2>1. k \in 0 .. n /\ k - 1 \in 0 .. n
    OBVIOUS
  <2>2. h[k] = it[1 .. k] /\ h[k - 1] = it[1 .. (k - 1)]
    BY <2>1
  <2> HIDE DEF h
  <2> QED BY <2>1, <2>2, <1>5
<1> HIDE DEF h
<1> QED BY <1>6, <1>7 DEF FoldRunTo

-----------------------------------------------------------------------------
(* What evaluating a condition makes of the evaluation state.               *)

\* The conditions a definition is made of.
Conditions == [type : ConditionTypes, required : Nat]

\* Hit counts that stop at their targets.
Capped ==
  {h \in [Slots -> Nat] : \A s \in Slots : Cond(s).required # 0 => h[s] <= Cond(s).required}

\* The evaluation states, with any hit counts.
Evals ==
  [measured : Int, from_hits : BOOLEAN, can_measure : BOOLEAN, is_true : BOOLEAN,
   is_primed : BOOLEAN, is_paused : BOOLEAN, add_hits : Int, and_next : BOOLEAN,
   or_next : BOOLEAN, reset_next : BOOLEAN, valid : BOOLEAN, has_hits : BOOLEAN,
   was_reset : BOOLEAN, was_cond_reset : BOOLEAN, hits : Capped]

\* A PauseIf without target: its count only says that it was true in the last frame.
Momentary(s) == Cond(s).type = "PauseIf" /\ Cond(s).required = 0

\* The groups of the definition are sequences of conditions.
LEMMA DefinitionFacts ==
  ASSUME defn \in Definitions
  PROVE  /\ defn.groups \in Seq(Seq(Conditions))
         /\ defn.core \in BOOLEAN /\ defn.saves \in BOOLEAN
         /\ defn.core => defn.groups # <<>>
         /\ \A g \in DOMAIN defn.groups : defn.groups[g] \in Seq(Conditions)
<1>1. /\ {defn.core, defn.saves} \subseteq BOOLEAN
      /\ defn.groups \in Seq(Seq([type : ConditionTypes, required : Nat]))
      /\ defn.core => defn.groups # <<>>
  BY TriggerAssumption DEF TriggerAssumption
<1>2. ASSUME NEW g \in DOMAIN defn.groups PROVE defn.groups[g] \in Seq(Conditions)
  BY <1>1 DEF Conditions
<1> QED BY <1>1, <1>2 DEF Conditions

\* A slot is a group and an index into it, and stands for a condition.
LEMMA SlotFacts ==
  ASSUME defn \in Definitions
  PROVE  /\ \A g \in DOMAIN defn.groups : \A i \in DOMAIN defn.groups[g] :
              /\ <<g, i>> \in Slots
              /\ Cond(<<g, i>>) = defn.groups[g][i]
         /\ \A s \in Slots : /\ s[1] \in DOMAIN defn.groups
                             /\ s[2] \in DOMAIN defn.groups[s[1]]
                             /\ s = <<s[1], s[2]>>
                             /\ Cond(s) \in Conditions
<1>1. ASSUME NEW g \in DOMAIN defn.groups, NEW i \in DOMAIN defn.groups[g]
      PROVE  <<g, i>> \in Slots /\ Cond(<<g, i>>) = defn.groups[g][i]
  BY DEF Slots, SlotsOf, Cond
<1>2. ASSUME NEW s \in Slots
      PROVE  \E g \in DOMAIN defn.groups : \E i \in DOMAIN defn.groups[g] : s = <<g, i>>
  BY DEF Slots, SlotsOf
<1>3. ASSUME NEW s \in Slots
      PROVE  /\ s[1] \in DOMAIN defn.groups
             /\ s[2] \in DOMAIN defn.groups[s[1]]
             /\ s = <<s[1], s[2]>>
             /\ Cond(s) \in Conditions
  <2>1. PICK g \in DOMAIN defn.groups : \E i \in DOMAIN defn.groups[g] : s = <<g, i>>
    BY <1>2
  <2>0. PICK i \in DOMAIN defn.groups[g] : s = <<g, i>>
    BY <2>1
  <2>2. Cond(s) = defn.groups[g][i]
    BY <1>1, <2>0
  <2>3. defn.groups[g] \in Seq(Conditions)
    BY DefinitionFacts
  <2>4. defn.groups[g][i] \in Conditions
    BY <2>3
  <2> QED BY <2>0, <2>2, <2>4
<1> QED BY <1>1, <1>3

\* A turn over slot s from e to n: types and caps are kept, only the count of s
\* changes, a count is lost only when that is noted, and one that is left is known.
Turned(s, e, n) ==
  /\ n \in Evals
  /\ \A t \in Slots : t # s => n.hits[t] = e.hits[t]
  /\ e.has_hits => n.has_hits
  /\ e.was_reset => n.was_reset
  /\ e.was_cond_reset => n.was_cond_reset
  /\ n.was_cond_reset \/ n.hits[s] >= e.hits[s] \/ Momentary(s)
  /\ n.has_hits \/ n.hits[s] = 0 \/ Momentary(s)

\* Tallying a condition turns its slot, and a condition that holds leaves a hit.
LEMMA TallyTurns ==
  ASSUME defn \in Definitions, NEW s \in Slots, NEW holds \in BOOLEAN, NEW e \in Evals
  PROVE  /\ Turned(s, e, Tally(Cond(s), s, holds, e))
         /\ Tally(Cond(s), s, holds, e).valid => Tally(Cond(s), s, holds, e).has_hits
         /\ Tally(Cond(s), s, holds, e).is_paused = e.is_paused
<1> DEFINE c == Cond(s)
           true == (holds /\ e.and_next) \/ e.or_next
           chain == [e EXCEPT !.and_next = TRUE, !.or_next = FALSE]
<1>1. c.required \in Nat
  BY SlotFacts DEF Conditions
<1>2. /\ chain \in Evals /\ chain.hits = e.hits /\ chain.has_hits = e.has_hits
      /\ chain.was_reset = e.was_reset /\ chain.was_cond_reset = e.was_cond_reset
      /\ chain.is_paused = e.is_paused
  BY DEF Evals
<1>3. true \in BOOLEAN
  BY DEF Evals
<1>4. e.hits \in Capped /\ e.hits[s] \in Nat /\ (c.required # 0 => e.hits[s] <= c.required)
  BY DEF Evals, Capped
<1>5. ASSUME NEW v \in Nat, c.required # 0 => v <= c.required
      PROVE  /\ [e.hits EXCEPT ![s] = v] \in Capped
             /\ [e.hits EXCEPT ![s] = v][s] = v
             /\ \A t \in Slots : t # s => [e.hits EXCEPT ![s] = v][t] = e.hits[t]
  BY <1>4, <1>5 DEF Capped
<1> HIDE DEF chain, true, c
<1>6. CASE e.reset_next
  <2> DEFINE n == Cleared(s, chain)
  <2>1. /\ n \in Evals /\ n.hits = [e.hits EXCEPT ![s] = 0] /\ n.valid = FALSE
        /\ (e.was_cond_reset => n.was_cond_reset)
        /\ (e.hits[s] # 0 => n.was_cond_reset)
        /\ n.has_hits = e.has_hits /\ n.was_reset = e.was_reset
        /\ n.is_paused = e.is_paused
    <3>1. [e.hits EXCEPT ![s] = 0] \in Capped
      BY <1>5, <1>1
    <3> QED BY <1>2, <3>1 DEF Cleared, Evals
  <2>2. Tally(c, s, holds, e) = n
    BY <1>6 DEF Tally, chain
  <2> HIDE DEF n
  <2>3. Turned(s, e, n)
    <3>1. n.hits[s] = 0 /\ \A t \in Slots : t # s => n.hits[t] = e.hits[t]
      BY <1>5, <1>1, <2>1
    <3> QED BY <2>1, <3>1, <1>4 DEF Turned
  <2> QED BY <2>1, <2>2, <2>3 DEF c
<1>7. CASE ~e.reset_next
  <2> DEFINE n == Counted(c, s, true, chain)
             new == IF true /\ (c.required = 0 \/ e.hits[s] < c.required)
                    THEN e.hits[s] + 1 ELSE e.hits[s]
             valid == IF true THEN c.required = 0 \/ new >= c.required
                      ELSE e.hits[s] > 0 /\ e.hits[s] = c.required
  <2>1. new \in Nat /\ new >= e.hits[s] /\ (c.required # 0 => new <= c.required)
    BY <1>1, <1>4
  <2>2. [e.hits EXCEPT ![s] = new] \in Capped
    BY <1>5, <2>1
  <2>3. /\ valid \in BOOLEAN
        /\ valid => true \/ e.hits[s] > 0
        /\ new = 0 \/ true \/ e.hits[s] > 0
    <3>1. CASE true
      BY <3>1
    <3>2. CASE ~true
      BY <3>2, <1>4
    <3> QED BY <3>1, <3>2
  <2>4. n = [chain EXCEPT !.has_hits = @ \/ true \/ e.hits[s] > 0, !.hits[s] = new,
                          !.valid = valid]
    BY <1>2 DEF Counted
  <2> HIDE DEF n, new, valid
  <2>5. /\ n \in Evals /\ n.hits = [e.hits EXCEPT ![s] = new] /\ n.valid = valid
        /\ n.has_hits = (e.has_hits \/ true \/ e.hits[s] > 0)
        /\ n.was_reset = e.was_reset /\ n.was_cond_reset = e.was_cond_reset
        /\ n.is_paused = e.is_paused
    BY <1>2, <1>3, <1>4, <2>2, <2>3, <2>4 DEF Evals
  <2>6. Tally(c, s, holds, e) = n
    BY <1>7 DEF Tally, chain, n, true
  <2>7. Turned(s, e, n)
    <3>1. n.hits[s] = new /\ \A t \in Slots : t # s => n.hits[t] = e.hits[t]
      BY <1>5, <2>1, <2>5
    <3> QED BY <2>1, <2>3, <2>5, <3>1, <1>4, <1>3 DEF Turned
  <2> QED BY <2>3, <2>5, <2>6, <2>7 DEF c
<1> QED
  <2>1. e.reset_next \in BOOLEAN
    BY DEF Evals
  <2> QED BY <1>6, <1>7, <2>1

\* Hits to be added were counted by a condition that was evaluated.
Known(e) == e.add_hits > 0 => e.has_hits

\* What differs in neither counts nor types is turned as well.
LEMMA TurnedAlike ==
  ASSUME NEW s, NEW e, NEW m, NEW n \in Evals, Turned(s, e, m),
         n.hits = m.hits, n.has_hits = m.has_hits, m.was_reset => n.was_reset,
         n.was_cond_reset = m.was_cond_reset
  PROVE  Turned(s, e, n)
BY DEF Turned

\* Spending the accumulator only decides whether the condition is valid.
LEMMA SpentFacts ==
  ASSUME NEW c \in Conditions, NEW s \in Slots, NEW t \in Evals
  PROVE  /\ Spent(c, s, t) \in Evals
         /\ Spent(c, s, t).hits = t.hits
         /\ Spent(c, s, t).has_hits = t.has_hits
         /\ Spent(c, s, t).was_reset = t.was_reset
         /\ Spent(c, s, t).was_cond_reset = t.was_cond_reset
         /\ Spent(c, s, t).is_paused = t.is_paused
         /\ Spent(c, s, t).add_hits \in {0, t.add_hits}
         /\ \/ Spent(c, s, t).valid = t.valid
            \/ c.required # 0 /\ (Spent(c, s, t).valid => t.hits[s] + t.add_hits > 0)
<1>1. t.hits[s] \in Nat /\ t.add_hits \in Int /\ c.required \in Nat
  BY DEF Evals, Capped, Conditions
<1>2. TotalHits(c, s, t) \in Int
  BY <1>1 DEF TotalHits, Larger
<1>3. CASE t.add_hits # 0 /\ c.required # 0
  <2> DEFINE valid == TotalHits(c, s, t) >= c.required
  <2>1. valid \in BOOLEAN /\ (valid => t.hits[s] + t.add_hits > 0)
    BY <1>1, <1>3 DEF TotalHits, Larger
  <2> DEFINE p == Spent(c, s, t)
             q == [t EXCEPT !.valid = valid]
  <2>2. p = [q EXCEPT !.add_hits = 0]
    BY <1>3 DEF Spent
  <2> HIDE DEF valid, p
  <2>0. /\ q \in Evals /\ q.hits = t.hits /\ q.has_hits = t.has_hits
        /\ q.was_reset = t.was_reset /\ q.was_cond_reset = t.was_cond_reset
        /\ q.is_paused = t.is_paused /\ q.valid = valid
    BY <2>1 DEF Evals
  <2> HIDE DEF q
  <2>3. /\ p \in Evals /\ p.hits = t.hits /\ p.has_hits = t.has_hits
        /\ p.was_reset = t.was_reset /\ p.was_cond_reset = t.was_cond_reset
        /\ p.is_paused = t.is_paused /\ p.add_hits = 0 /\ p.valid = valid
    BY <2>0, <2>2 DEF Evals
  <2> QED BY <1>3, <2>1, <2>3 DEF p
<1>4. CASE ~(t.add_hits # 0 /\ c.required # 0)
  BY <1>4 DEF Spent
<1> QED BY <1>3, <1>4

\* Counting a condition and adding the hits of its chain moves no hit count but its own.
LEMMA EvaluateConditionTurns ==
  ASSUME defn \in Definitions, NEW s \in Slots, NEW holds \in BOOLEAN, NEW e \in Evals,
         Known(e)
  PROVE  /\ Turned(s, e, EvaluateCondition(Cond(s), s, holds, e))
         /\ Known(EvaluateCondition(Cond(s), s, holds, e))
         /\ EvaluateCondition(Cond(s), s, holds, e).valid
              => EvaluateCondition(Cond(s), s, holds, e).has_hits
         /\ EvaluateCondition(Cond(s), s, holds, e).is_paused = e.is_paused
<1> DEFINE t == Tally(Cond(s), s, holds, e)
           p == Spent(Cond(s), s, t)
           n == EvaluateCondition(Cond(s), s, holds, e)
<1>1. Turned(s, e, t) /\ (t.valid => t.has_hits) /\ t.is_paused = e.is_paused
  BY TallyTurns
<1>2. t \in Evals /\ Cond(s) \in Conditions
  BY <1>1, SlotFacts DEF Turned
<1>3. t.add_hits = e.add_hits
  BY DEF Tally, Cleared, Counted, Evals
<1> HIDE DEF t
<1>4. /\ p \in Evals /\ p.hits = t.hits /\ p.has_hits = t.has_hits
      /\ p.was_reset = t.was_reset /\ p.was_cond_reset = t.was_cond_reset
      /\ p.is_paused = t.is_paused /\ p.add_hits \in {0, t.add_hits}
      /\ \/ p.valid = t.valid
         \/ Cond(s).required # 0 /\ (p.valid => t.hits[s] + t.add_hits > 0)
  BY <1>2, SpentFacts
<1> HIDE DEF p
<1>5. n = [p EXCEPT !.reset_next = FALSE]
  BY DEF EvaluateCondition, p, t
<1> HIDE DEF n
<1>6. /\ n \in Evals /\ n.hits = p.hits /\ n.has_hits = p.has_hits /\ n.valid = p.valid
      /\ n.was_reset = p.was_reset /\ n.was_cond_reset = p.was_cond_reset
      /\ n.is_paused = p.is_paused /\ n.add_hits = p.add_hits
  BY <1>4, <1>5 DEF Evals
<1>7. Turned(s, e, n)
  BY <1>1, <1>4, <1>6, TurnedAlike
<1>8. Known(n)
  <2>1. e.has_hits => t.has_hits
    BY <1>1 DEF Turned
  <2> QED BY <2>1, <1>3, <1>4, <1>6 DEF Known
<1>9. n.valid => n.has_hits
  <2>1. (e.has_hits => t.has_hits) /\ (t.has_hits \/ t.hits[s] = 0 \/ Momentary(s))
    BY <1>1 DEF Turned
  <2>2. t.hits[s] \in Nat /\ t.add_hits \in Int
    BY <1>2 DEF Evals, Capped
  <2>3. CASE Cond(s).required # 0 /\ (p.valid => t.hits[s] + t.add_hits > 0)
    <3>1. ~Momentary(s)
      BY <2>3 DEF Momentary
    <3>2. p.valid => t.hits[s] # 0 \/ t.add_hits > 0
      BY <2>2, <2>3
    <3> QED BY <2>1, <3>1, <3>2, <1>3, <1>4, <1>6 DEF Known
  <2>4. CASE p.valid = t.valid
    BY <2>4, <1>1, <1>4, <1>6
  <2> QED BY <2>3, <2>4, <1>4
<1> QED BY <1>1, <1>4, <1>6, <1>7, <1>8, <1>9 DEF n

\* What a type makes of the evaluated condition m beyond its counts.
Alike(x, m) ==
  /\ x \in Evals
  /\ x.hits = m.hits
  /\ x.has_hits = m.has_hits
  /\ m.was_reset => x.was_reset
  /\ x.was_cond_reset = m.was_cond_reset

\* What the types decide with a counted condition leaves the hit counts alone.
LEMMA TypesAlike ==
  ASSUME NEW m \in Evals
  PROVE  /\ Alike(Standard(m), m)
         /\ Standard(m).is_paused = m.is_paused /\ Standard(m).add_hits = m.add_hits
         /\ Alike(ResetIf(m), m)
         /\ ResetIf(m).is_paused = m.is_paused /\ ResetIf(m).add_hits = m.add_hits
         /\ Alike(Trigger(m), m)
         /\ Trigger(m).is_paused = m.is_paused /\ Trigger(m).add_hits = m.add_hits
         /\ Alike(MeasuredIf(m), m)
         /\ MeasuredIf(m).is_paused = m.is_paused /\ MeasuredIf(m).add_hits = m.add_hits
<1> DEFINE a == m.is_true /\ m.valid
           b == m.is_primed /\ m.valid
           d == m.can_measure /\ m.valid
<1>1. a \in BOOLEAN /\ b \in BOOLEAN /\ d \in BOOLEAN
  OBVIOUS
<1>2. /\ Standard(m) = [m EXCEPT !.is_true = a, !.is_primed = b]
      /\ Trigger(m) = [m EXCEPT !.is_true = a]
      /\ MeasuredIf(m) = [m EXCEPT !.is_true = a, !.is_primed = b, !.can_measure = d]
  BY DEF Standard, Trigger, MeasuredIf, Evals
<1> HIDE DEF a, b, d
<1>3. /\ Alike(Standard(m), m)
      /\ Standard(m).is_paused = m.is_paused /\ Standard(m).add_hits = m.add_hits
  BY <1>1, <1>2 DEF Alike, Evals
<1>4. /\ Alike(Trigger(m), m)
      /\ Trigger(m).is_paused = m.is_paused /\ Trigger(m).add_hits = m.add_hits
  BY <1>1, <1>2 DEF Alike, Evals
<1>5. /\ Alike(MeasuredIf(m), m)
      /\ MeasuredIf(m).is_paused = m.is_paused /\ MeasuredIf(m).add_hits = m.add_hits
  BY <1>1, <1>2 DEF Alike, Evals
<1>6. /\ Alike(ResetIf(m), m)
      /\ ResetIf(m).is_paused = m.is_paused /\ ResetIf(m).add_hits = m.add_hits
  <2>1. CASE m.valid
    <3>1. ResetIf(m) = [m EXCEPT !.was_reset = TRUE, !.is_true = FALSE, !.is_primed = FALSE]
      BY <2>1 DEF ResetIf
    <3> QED BY <3>1 DEF Alike, Evals
  <2>2. CASE ~m.valid
    BY <2>2 DEF ResetIf, Alike
  <2> QED BY <2>1, <2>2
<1> QED BY <1>3, <1>4, <1>5, <1>6

\* Evaluating a condition turns its slot; it pauses the group only as a PauseIf
\* that has hits.
SlotTurned(s, e, n) ==
  /\ Turned(s, e, n)
  /\ Known(n)
  /\ \/ n.is_paused = e.is_paused
     \/ Cond(s).type = "PauseIf" /\ n.has_hits

\* A PauseIf may take its own hits back, which it counted in this turn or before.
LEMMA PauseIfTurns ==
  ASSUME defn \in Definitions, NEW s \in Slots, NEW e \in Evals, NEW m,
         Turned(s, e, m), Known(m), m.valid => m.has_hits, m.is_paused = e.is_paused,
         Cond(s).type = "PauseIf"
  PROVE  SlotTurned(s, e, PauseIf(Cond(s), s, m))
<1> DEFINE c == Cond(s)
           n == PauseIf(c, s, m)
<1>0. m \in Evals /\ c.required \in Nat
  BY SlotFacts DEF Turned, Conditions
<1>1. CASE m.valid
  <2>1. n = [m EXCEPT !.is_paused = TRUE, !.is_true = FALSE, !.is_primed = FALSE]
    BY <1>1 DEF PauseIf
  <2>2. Alike(n, m) /\ n.add_hits = m.add_hits
    BY <2>1, <1>0 DEF Alike, Evals
  <2> HIDE DEF n, c
  <2>3. Turned(s, e, n)
    BY <2>2, TurnedAlike DEF Alike
  <2> QED BY <2>2, <2>3, <1>1 DEF SlotTurned, Alike, Known, n, c
<1>2. CASE ~m.valid /\ c.required = 0
  <2>1. n = [m EXCEPT !.hits[s] = 0]
    BY <1>2 DEF PauseIf
  <2>2. m.hits \in Capped
    BY <1>0 DEF Evals
  <2>3. [m.hits EXCEPT ![s] = 0] \in Capped
    BY <2>2, <1>0 DEF Capped
  <2>4. /\ n \in Evals /\ n.hits = [m.hits EXCEPT ![s] = 0] /\ n.has_hits = m.has_hits
        /\ n.was_reset = m.was_reset /\ n.was_cond_reset = m.was_cond_reset
        /\ n.add_hits = m.add_hits /\ n.is_paused = m.is_paused
    BY <2>1, <2>3, <1>0 DEF Evals
  <2>5. \A u \in Slots : u # s => n.hits[u] = m.hits[u]
    BY <2>2, <2>4 DEF Capped
  <2>6. Momentary(s)
    BY <1>2 DEF Momentary
  <2> HIDE DEF n, c
  <2>7. Turned(s, e, n)
    BY <2>4, <2>5, <2>6 DEF Turned
  <2> QED BY <2>4, <2>7 DEF SlotTurned, Known, n, c
<1>3. CASE ~m.valid /\ c.required # 0
  <2>1. n = m
    BY <1>3 DEF PauseIf
  <2> QED BY <2>1 DEF SlotTurned
<1> QED BY <1>1, <1>2, <1>3

\* Measured with a target spends the accumulator.
LEMMA MeasuredHitsTurns ==
  ASSUME defn \in Definitions, NEW s \in Slots, NEW e \in Evals, NEW t,
         Turned(s, e, t), t.is_paused = e.is_paused
  PROVE  SlotTurned(s, e, MeasuredHits(Cond(s), s, t))
<1> DEFINE c == Cond(s)
           n == MeasuredHits(c, s, t)
           total == TotalHits(c, s, t)
           a == t.is_true /\ total >= c.required
           b == t.is_primed /\ total >= c.required
<1>0. t \in Evals /\ c.required \in Nat
  BY SlotFacts DEF Turned, Conditions
<1>1. total \in Int
  BY <1>0 DEF TotalHits, Larger, Evals, Capped
<1>2. a \in BOOLEAN /\ b \in BOOLEAN
  OBVIOUS
<1> DEFINE q == [t EXCEPT !.is_true = a, !.is_primed = b]
           o == [q EXCEPT !.measured = total]
           r == [o EXCEPT !.add_hits = 0]
<1>3. n = [r EXCEPT !.from_hits = TRUE, !.reset_next = FALSE]
  BY <1>0 DEF MeasuredHits, Evals
<1> HIDE DEF a, b, total, n, c
<1>4. Alike(n, t) /\ n.add_hits = 0 /\ n.is_paused = t.is_paused
  <2>1. q \in Evals
    BY <1>0, <1>2 DEF Evals
  <2>2. r \in Evals
    <3> HIDE DEF q
    <3>1. o \in Evals
      BY <2>1, <1>1 DEF Evals
    <3> HIDE DEF o
    <3> QED BY <3>1 DEF Evals
  <2>3. /\ r.hits = t.hits /\ r.has_hits = t.has_hits /\ r.was_reset = t.was_reset
        /\ r.was_cond_reset = t.was_cond_reset /\ r.is_paused = t.is_paused
        /\ r.add_hits = 0
    BY <1>0 DEF Evals
  <2> HIDE DEF q, r
  <2>4. n \in Evals /\ n.add_hits = 0
    BY <2>2, <2>3, <1>3 DEF Evals
  <2>5. /\ n.hits = t.hits /\ n.has_hits = t.has_hits /\ n.was_reset = t.was_reset
        /\ n.was_cond_reset = t.was_cond_reset /\ n.is_paused = t.is_paused
    BY <2>2, <2>3, <1>3 DEF Evals
  <2> QED BY <2>4, <2>5 DEF Alike
<1>5. Turned(s, e, n)
  BY <1>4, TurnedAlike DEF Alike
<1> QED BY <1>4, <1>5 DEF SlotTurned, Known, n, c

\* A combining condition counts its own hits, and hands on what the chain carries.
LEMMA CombiningTurns ==
  ASSUME defn \in Definitions, NEW s \in Slots, NEW e \in Evals, Known(e), NEW t,
         Turned(s, e, t), t.is_paused = e.is_paused, t.add_hits = e.add_hits,
         Cond(s).type \in CombiningTypes
  PROVE  SlotTurned(s, e, Combining(Cond(s), s, t))
<1> DEFINE c == Cond(s)
           n == Combining(c, s, t)
<1>1. t \in Evals
  BY DEF Turned
<1>2. t.hits[s] \in Nat /\ t.add_hits \in Int /\ (t.has_hits \/ t.hits[s] = 0)
  BY <1>1 DEF Evals, Capped, Turned, Momentary, CombiningTypes
<1>3. t.add_hits + t.hits[s] \in Int /\ t.add_hits - t.hits[s] \in Int
  BY <1>2
<1> HIDE DEF n
<1>4. /\ Alike(n, t) /\ n.is_paused = t.is_paused
      /\ n.add_hits \in {t.add_hits, t.add_hits + t.hits[s], t.add_hits - t.hits[s]}
  <2>1. CASE c.type = "AddHits"
    <3>1. n = [t EXCEPT !.add_hits = t.add_hits + t.hits[s], !.reset_next = FALSE]
      BY <2>1, <1>1 DEF Combining, Evals, n
    <3> QED BY <3>1, <1>1, <1>3 DEF Alike, Evals
  <2>2. CASE c.type = "SubHits"
    <3>1. n = [t EXCEPT !.add_hits = t.add_hits - t.hits[s], !.reset_next = FALSE]
      BY <2>2, <1>1 DEF Combining, Evals, n
    <3> QED BY <3>1, <1>1, <1>3 DEF Alike, Evals
  <2>3. CASE c.type = "ResetNextIf"
    <3>1. n = [t EXCEPT !.reset_next = t.valid]
      BY <2>3 DEF Combining, n
    <3> QED BY <3>1, <1>1 DEF Alike, Evals
  <2>4. CASE c.type = "AndNext"
    <3>1. n = [t EXCEPT !.and_next = t.valid]
      BY <2>4 DEF Combining, n
    <3> QED BY <3>1, <1>1 DEF Alike, Evals
  <2>5. CASE c.type = "OrNext"
    <3>1. n = [t EXCEPT !.or_next = t.valid]
      BY <2>5 DEF Combining, n
    <3> QED BY <3>1, <1>1 DEF Alike, Evals
  <2> QED BY <2>1, <2>2, <2>3, <2>4, <2>5 DEF CombiningTypes
<1>5. Turned(s, e, n)
  BY <1>4, TurnedAlike DEF Alike
<1>6. Known(n)
  <2>1. e.has_hits => t.has_hits
    BY DEF Turned
  <2>2. n.has_hits = t.has_hits
    BY <1>4 DEF Alike
  <2> QED BY <2>1, <2>2, <1>2, <1>4 DEF Known
<1> QED BY <1>4, <1>5, <1>6 DEF SlotTurned, n

\* One evaluation of any condition, whatever its type and whether or not it holds.
LEMMA EvaluateSlotTurns ==
  ASSUME defn \in Definitions, NEW s \in Slots, NEW holds \in BOOLEAN, NEW e \in Evals,
         Known(e)
  PROVE  SlotTurned(s, e, EvaluateSlot(Cond(s), s, holds, e))
<1> DEFINE c == Cond(s)
           m == EvaluateCondition(c, s, holds, e)
           t == Tally(c, s, holds, e)
           n == EvaluateSlot(c, s, holds, e)
<1>1. /\ Turned(s, e, m) /\ Known(m) /\ (m.valid => m.has_hits)
      /\ m.is_paused = e.is_paused /\ m \in Evals
  BY EvaluateConditionTurns DEF Turned
<1>2. /\ Turned(s, e, t) /\ t.is_paused = e.is_paused /\ t \in Evals
      /\ t.add_hits = e.add_hits
  <2>1. t.add_hits = e.add_hits
    BY DEF Tally, Cleared, Counted, Evals
  <2> HIDE DEF t
  <2> QED BY <2>1, TallyTurns DEF Turned, t
<1>3. c \in Conditions /\ c.type \in ConditionTypes /\ c.required \in Nat
  BY SlotFacts DEF Conditions
<1>4. ASSUME NEW x, Alike(x, m), x.is_paused = m.is_paused, x.add_hits = m.add_hits
      PROVE  SlotTurned(s, e, x)
  <2> HIDE DEF m
  <2>1. Turned(s, e, x)
    BY <1>1, <1>4, TurnedAlike DEF Alike
  <2> QED BY <2>1, <1>1, <1>4 DEF SlotTurned, Known, Alike
<1> SUFFICES SlotTurned(s, e, n)
  OBVIOUS
<1> HIDE DEF m, t, n, c
<1>5. CASE c.type = "Standard"
  <2>1. n = Standard(m)
    BY <1>5 DEF EvaluateSlot, m, n
  <2> QED BY <2>1, <1>1, <1>4, TypesAlike
<1>6. CASE c.type = "PauseIf"
  <2>1. n = PauseIf(c, s, m)
    BY <1>6 DEF EvaluateSlot, m, n
  <2> QED BY <2>1, <1>1, <1>6, PauseIfTurns DEF c
<1>7. CASE c.type = "ResetIf"
  <2>1. n = ResetIf(m)
    BY <1>7 DEF EvaluateSlot, m, n
  <2> QED BY <2>1, <1>1, <1>4, TypesAlike
<1>8. CASE c.type = "Trigger"
  <2>1. n = Trigger(m)
    BY <1>8 DEF EvaluateSlot, m, n
  <2> QED BY <2>1, <1>1, <1>4, TypesAlike
<1>9. CASE c.type = "MeasuredIf"
  <2>1. n = MeasuredIf(m)
    BY <1>9 DEF EvaluateSlot, m, n
  <2> QED BY <2>1, <1>1, <1>4, TypesAlike
<1>10. CASE c.type = "Measured"
  <2>1. n = Measured(c, s, holds, e)
    BY <1>10 DEF EvaluateSlot, n
  <2>2. CASE c.required = 0
    <3> DEFINE x == Standard(m)
               one == IF holds THEN 1 ELSE 0
    <3>0. one \in Int
      OBVIOUS
    <3> DEFINE q == [x EXCEPT !.measured = one]
    <3>1. n = [q EXCEPT !.from_hits = FALSE]
      BY <2>1, <2>2 DEF Measured, m
    <3>2. Alike(x, m) /\ x.is_paused = m.is_paused /\ x.add_hits = m.add_hits
      BY <1>1, TypesAlike
    <3> HIDE DEF x, one
    <3>5. Alike(q, x) /\ q.is_paused = x.is_paused /\ q.add_hits = x.add_hits
      BY <3>0, <3>2 DEF Alike, Evals
    <3> HIDE DEF q
    <3>3. Alike(n, x) /\ n.is_paused = x.is_paused /\ n.add_hits = x.add_hits
      BY <3>1, <3>5 DEF Alike, Evals
    <3>4. Alike(n, m)
      BY <3>2, <3>3 DEF Alike
    <3> QED BY <3>2, <3>3, <3>4, <1>4
  <2>3. CASE c.required # 0
    <3>1. n = MeasuredHits(c, s, t)
      BY <2>1, <2>3 DEF Measured, t
    <3> QED BY <3>1, <1>2, MeasuredHitsTurns DEF c
  <2> QED BY <2>2, <2>3
<1>11. CASE c.type \in CombiningTypes
  <2>1. n = Combining(c, s, t)
    BY <1>11 DEF EvaluateSlot, t, CombiningTypes, n
  <2> QED BY <2>1, <1>2, <1>11, CombiningTurns DEF c
<1> QED BY <1>3, <1>5, <1>6, <1>7, <1>8, <1>9, <1>10, <1>11 DEF ConditionTypes

-----------------------------------------------------------------------------
(* What evaluating a class of a group makes of the evaluation state.        *)

\* A condition that is not combining ends its own chain.
LEMMA OwnChain ==
  ASSUME NEW group \in Seq(Conditions), NEW i \in DOMAIN group,
         Classify(group[i]) # "combining"
  PROVE  ChainEnd(group, i) = i /\ ClassOf(group, i) = Classify(group[i])
<1> DEFINE ends == {j \in i .. Len(group) : Classify(group[j]) # "combining"}
<1>1. i \in ends /\ \A k \in ends : i <= k
  OBVIOUS
<1>2. (CHOOSE j \in ends : \A k \in ends : j <= k) \in ends
      /\ \A k \in ends : (CHOOSE j \in ends : \A k_1 \in ends : j <= k_1) <= k
  BY <1>1
<1>3. i \in 1 .. Len(group)
  OBVIOUS
<1>4. ChainEnd(group, i) = i
  BY <1>1, <1>2, <1>3 DEF ChainEnd
<1> QED BY <1>3, <1>4 DEF ClassOf

\* A PauseIf is in the class that is evaluated first.
LEMMA PausesAreFirst ==
  ASSUME NEW group \in Seq(Conditions), NEW i \in DOMAIN group, group[i].type = "PauseIf"
  PROVE  ClassOf(group, i) = "pause"
<1>1. Classify(group[i]) = "pause"
  BY DEF Classify, CombiningTypes
<1> QED BY <1>1, OwnChain

\* The evaluation states a group may begin with or end in.
Sound == {e \in Evals : Known(e)}

\* The evaluation states h after each turn of a class.
ClassRun(h, g, class, truth, e) ==
  /\ h \in [0 .. Len(defn.groups[g]) -> Sound]
  /\ h[0] = e
  /\ \A k \in 1 .. Len(defn.groups[g]) :
       h[k] = EvaluateMember(g, defn.groups[g], class, truth, h[k - 1], k)
  /\ EvaluateClass(g, defn.groups[g], class, truth, e) = h[Len(defn.groups[g])]

\* The fold over a class is a run: the state it starts in, then one turn after another.
LEMMA ClassUnfolds ==
  ASSUME defn \in Definitions, NEW g \in DOMAIN defn.groups, NEW class, NEW truth,
         NEW e \in Sound
  PROVE  \E h : ClassRun(h, g, class, truth, e)
<1> DEFINE group == defn.groups[g]
           n == Len(group)
           Op(x, i) == EvaluateMember(g, group, class, truth, x, i)
           ids == [i \in DOMAIN group |-> i]
           P(f) == f = [s \in SUBSET (DOMAIN ids) |->
                          IF s = {} THEN e
                          ELSE EvaluateMember(g, group, class, truth,
                                              f[s \ {Max(s)}], ids[Max(s)])]
           it == CHOOSE f : P(f)
<1>1. group \in Seq(Conditions) /\ n \in Nat /\ DOMAIN group = 1 .. n
  BY DefinitionFacts
<1>2. DOMAIN ids = 1 .. n /\ \A i \in 1 .. n : ids[i] = i
  BY <1>1
<1>3. EvaluateClass(g, group, class, truth, e) = it[1 .. n]
  <2> HIDE DEF n
  <2> QED BY <1>2 DEF EvaluateClass, FoldLeftDomain, FoldLeft, MapThenFoldSet
<1>4. ASSUME NEW x \in Sound, NEW i \in 1 .. n PROVE Op(x, i) \in Sound
  <2> DEFINE s == <<g, i>>
             holds == s \in truth
  <2>1. s \in Slots /\ Cond(s) = group[i] /\ holds \in BOOLEAN
    BY <1>1, SlotFacts
  <2>2. x \in Evals /\ Known(x)
    BY DEF Sound
  <2>3. SlotTurned(s, x, EvaluateSlot(Cond(s), s, holds, x))
    <3> HIDE DEF s, holds
    <3> QED BY <2>1, <2>2, EvaluateSlotTurns
  <2>4. EvaluateSlot(group[i], s, holds, x) \in Sound
    BY <2>1, <2>3 DEF SlotTurned, Turned, Sound
  <2> QED BY <2>4 DEF EvaluateMember
<1> DEFINE F == [p \in (1 .. n) \X Sound |-> Op(p[2], p[1])]
<1> HIDE DEF group, Op, n
<1>5. F \in [(1 .. n) \X Sound -> Sound]
  BY <1>4
<1>6. ASSUME NEW i \in 1 .. n, NEW x \in Sound PROVE F[<<i, x>>] = Op(x, i)
  OBVIOUS
<1> HIDE DEF F
<1>7. PICK f : FoldSolution(f, n, Sound, e, F)
  <2>1. n \in Nat
    BY <1>1
  <2> QED BY <2>1, <1>5, FoldExists
<1>8. ASSUME NEW s \in SUBSET (1 .. n), s # {}
      PROVE  Max(s) \in 1 .. n /\ f[s \ {Max(s)}] \in Sound
  <2>1. Max(s) \in s
    BY <1>1, <1>8, MaxFacts
  <2> QED BY <2>1, <1>7 DEF FoldSolution
<1>9. P(f)
  <2>1. ASSUME NEW s \in SUBSET (1 .. n)
        PROVE  f[s] = IF s = {} THEN e ELSE Op(f[s \ {Max(s)}], ids[Max(s)])
    BY <1>2, <1>6, <1>7, <1>8 DEF FoldSolution
  <2>2. f = [s \in SUBSET (1 .. n) |->
               IF s = {} THEN e ELSE Op(f[s \ {Max(s)}], ids[Max(s)])]
    BY <2>1, <1>7 DEF FoldSolution
  <2> QED BY <2>2, <1>2 DEF Op
<1>10. P(it)
  BY <1>9
<1>11. \A s \in SUBSET (1 .. n) :
         it[s] = IF s = {} THEN e ELSE Op(it[s \ {Max(s)}], ids[Max(s)])
  BY <1>10, <1>2 DEF Op
<1> HIDE DEF it, ids
<1>12. it[{}] = e
  BY <1>11
<1>13. ASSUME NEW k \in 1 .. n, it[1 .. (k - 1)] \in Sound
       PROVE  it[1 .. k] = F[<<k, it[1 .. (k - 1)]>>]
  <2>1. 1 .. k # {} /\ Max(1 .. k) = k /\ (1 .. k) \ {k} = 1 .. (k - 1)
    BY <1>1, k \in Nat \ {0}, MaxOfTurns
  <2>2. 1 .. k \in SUBSET (1 .. n)
    BY <1>1
  <2>3. it[1 .. k] = Op(it[1 .. (k - 1)], ids[k])
    BY <2>1, <2>2, <1>11
  <2> QED BY <2>3, <1>2, <1>6, <1>13
<1>14. PICK h : FoldRunTo(h, n, Sound, e, F, it[1 .. n])
  <2>1. n \in Nat
    BY <1>1
  <2>2. \A k \in 1 .. n : it[1 .. (k - 1)] \in Sound
                           => it[1 .. k] = F[<<k, it[1 .. (k - 1)]>>]
    BY <1>13
  <2> QED BY <2>1, <2>2, <1>5, <1>12, FoldRuns
<1>15. /\ h \in [0 .. n -> Sound] /\ h[0] = e
       /\ \A k \in 1 .. n : h[k] = Op(h[k - 1], k)
  <2>1. \A k \in 1 .. n : k - 1 \in 0 .. n
    BY <1>1
  <2> QED BY <2>1, <1>6, <1>14 DEF FoldRunTo
<1> QED BY <1>3, <1>14, <1>15 DEF group, n, Op, ClassRun, FoldRunTo

\* The conditions of group g up to the k-th that belong to the class.
InClass(g, class, k) ==
  {s \in Slots : s[1] = g /\ ClassOf(defn.groups[g], s[2]) = class /\ s[2] <= k}

\* What k turns of a class make of e: only the counts of the class change, a count is
\* lost only when that is noted, and one that is left is known, unless the group was
\* paused before the class; only the pauses pause, and then a hit is known.
ClassTurned(g, class, k, e, n) ==
  /\ n \in Sound
  /\ \A s \in Slots \ InClass(g, class, k) : n.hits[s] = e.hits[s]
  /\ e.has_hits => n.has_hits
  /\ e.was_reset => n.was_reset
  /\ e.was_cond_reset => n.was_cond_reset
  /\ n.was_cond_reset \/ \A s \in Slots : n.hits[s] >= e.hits[s] \/ Momentary(s)
  /\ \/ n.has_hits
     \/ e.is_paused
     \/ \A s \in InClass(g, class, k) : n.hits[s] = 0 \/ Momentary(s)
  /\ \/ n.is_paused = e.is_paused
     \/ class = "pause" /\ n.has_hits

\* What holds of a run after k - 1 turns holds after k.
LEMMA ClassTurn ==
  ASSUME defn \in Definitions, NEW g \in DOMAIN defn.groups, NEW class, NEW truth,
         NEW k \in DOMAIN defn.groups[g], NEW e \in Sound, NEW x,
         ClassTurned(g, class, k - 1, e, x)
  PROVE  ClassTurned(g, class, k, e,
                     EvaluateMember(g, defn.groups[g], class, truth, x, k))
<1> DEFINE group == defn.groups[g]
           s == <<g, k>>
           n == EvaluateMember(g, group, class, truth, x, k)
           holds == s \in truth
<1>1. /\ s \in Slots /\ Cond(s) = group[k] /\ s[1] = g /\ s[2] = k
      /\ group \in Seq(Conditions) /\ k \in Nat \ {0}
  BY SlotFacts, DefinitionFacts
<1>2. \A t \in Slots : t[1] \in DOMAIN defn.groups /\ t[2] \in Nat /\ t = <<t[1], t[2]>>
  <2> SUFFICES ASSUME NEW t \in Slots PROVE t[2] \in Nat
    BY SlotFacts
  <2>1. t[1] \in DOMAIN defn.groups /\ t[2] \in DOMAIN defn.groups[t[1]]
    BY SlotFacts
  <2>2. defn.groups[t[1]] \in Seq(Conditions)
    BY <2>1, DefinitionFacts
  <2> QED BY <2>1, <2>2
<1>3. x \in Evals /\ Known(x) /\ e \in Evals
  BY DEF ClassTurned, Sound
<1>4. \A t \in Slots : x.hits[t] \in Nat /\ e.hits[t] \in Nat
  BY <1>3 DEF Evals, Capped
<1> SUFFICES ClassTurned(g, class, k, e, n)
  OBVIOUS
<1> HIDE DEF s, holds
<1>5. CASE ClassOf(group, k) # class
  <2>1. n = x
    BY <1>5 DEF EvaluateMember
  <2>2. InClass(g, class, k) = InClass(g, class, k - 1)
    <3> SUFFICES ASSUME NEW t \in Slots, t[1] = g, ClassOf(group, t[2]) = class
                 PROVE  t[2] <= k <=> t[2] <= k - 1
      BY DEF InClass
    <3>1. t[2] # k /\ t[2] \in Nat
      BY <1>2, <1>5
    <3> QED BY <3>1, <1>1
  <2> HIDE DEF n
  <2> QED BY <2>1, <2>2 DEF ClassTurned
<1>6. CASE ClassOf(group, k) = class /\ class = "pause" /\ x.is_paused
  <2>1. n = x
    BY <1>6 DEF EvaluateMember
  <2>2. InClass(g, class, k - 1) \subseteq InClass(g, class, k)
    BY <1>1, <1>2 DEF InClass
  <2>3. x.has_hits \/ e.is_paused
    BY <1>6 DEF ClassTurned
  <2> HIDE DEF n
  <2> QED BY <2>1, <2>2, <2>3 DEF ClassTurned
<1>7. CASE ClassOf(group, k) = class /\ ~(class = "pause" /\ x.is_paused)
  <2>1. n = EvaluateSlot(Cond(s), s, holds, x)
    BY <1>1, <1>7 DEF EvaluateMember, s, holds
  <2>2. SlotTurned(s, x, n)
    <3>1. holds \in BOOLEAN
      BY DEF holds
    <3> HIDE DEF n
    <3> QED BY <2>1, <3>1, <1>1, <1>3, EvaluateSlotTurns
  <2>3. Cond(s).type = "PauseIf" => class = "pause"
    BY <1>1, <1>7, PausesAreFirst
  <2>4. s \in InClass(g, class, k)
    BY <1>1, <1>7 DEF InClass
  <2>5. \A t \in InClass(g, class, k) : t = s \/ t \in InClass(g, class, k - 1)
    <3> SUFFICES ASSUME NEW t \in InClass(g, class, k), t[2] # k
                 PROVE  t \in InClass(g, class, k - 1)
      BY <1>1, <1>2 DEF InClass, s
    <3>1. t \in Slots /\ t[2] <= k /\ t[2] \in Nat
      BY <1>2 DEF InClass
    <3> QED BY <3>1, <1>1 DEF InClass
  <2>6. /\ InClass(g, class, k) \subseteq Slots
        /\ InClass(g, class, k - 1) \subseteq InClass(g, class, k)
    BY <1>1, <1>2 DEF InClass
  <2>7. n \in Sound /\ n \in Evals
    BY <2>2 DEF SlotTurned, Turned, Sound
  <2>8. \A t \in Slots : n.hits[t] \in Nat
    BY <2>7 DEF Evals, Capped
  <2> HIDE DEF n
  <2>9. ASSUME NEW t \in Slots \ InClass(g, class, k) PROVE n.hits[t] = e.hits[t]
    <3>1. t # s /\ t \notin InClass(g, class, k - 1)
      BY <2>4, <2>6
    <3> QED BY <3>1, <2>2 DEF SlotTurned, Turned, ClassTurned
  <2>10. /\ e.has_hits => n.has_hits
         /\ e.was_reset => n.was_reset
         /\ e.was_cond_reset => n.was_cond_reset
    BY <2>2 DEF SlotTurned, Turned, ClassTurned
  <2>11. ASSUME ~n.was_cond_reset, NEW t \in Slots
         PROVE  n.hits[t] >= e.hits[t] \/ Momentary(t)
    <3>1. x.hits[t] >= e.hits[t] \/ Momentary(t)
      BY <2>11, <2>2 DEF SlotTurned, Turned, ClassTurned
    <3>2. n.hits[t] >= x.hits[t] \/ Momentary(t)
      <4>1. CASE t = s
        BY <4>1, <2>11, <2>2 DEF SlotTurned, Turned
      <4>2. CASE t # s
        BY <4>2, <2>2, <2>8, <1>4 DEF SlotTurned, Turned
      <4> QED BY <4>1, <4>2
    <3> QED BY <3>1, <3>2, <2>8, <1>4
  <2>12. ASSUME ~n.has_hits, ~e.is_paused, NEW t \in InClass(g, class, k)
         PROVE  n.hits[t] = 0 \/ Momentary(t)
    <3>1. CASE t = s
      BY <3>1, <2>12, <2>2 DEF SlotTurned, Turned
    <3>2. CASE t # s
      <4>1. t \in InClass(g, class, k - 1) /\ n.hits[t] = x.hits[t] /\ ~x.has_hits
        BY <3>2, <2>5, <2>6, <2>12, <2>2 DEF SlotTurned, Turned
      <4> QED BY <4>1, <2>12 DEF ClassTurned
    <3> QED BY <3>1, <3>2
  <2>13. n.is_paused = e.is_paused \/ (class = "pause" /\ n.has_hits)
    <3>1. CASE n.is_paused = x.is_paused
      BY <3>1, <2>2 DEF SlotTurned, Turned, ClassTurned
    <3>2. CASE Cond(s).type = "PauseIf" /\ n.has_hits
      BY <3>2, <2>3
    <3> QED BY <3>1, <3>2, <2>2 DEF SlotTurned
  <2> QED BY <2>7, <2>9, <2>10, <2>11, <2>12, <2>13 DEF ClassTurned
<1> QED BY <1>5, <1>6, <1>7

\* What a whole class has done to the hit counts.
LEMMA ClassTurns ==
  ASSUME defn \in Definitions, NEW g \in DOMAIN defn.groups, NEW class, NEW truth,
         NEW e \in Sound
  PROVE  ClassTurned(g, class, Len(defn.groups[g]), e,
                     EvaluateClass(g, defn.groups[g], class, truth, e))
<1> DEFINE group == defn.groups[g]
           n == Len(group)
<1>1. group \in Seq(Conditions) /\ n \in Nat /\ DOMAIN group = 1 .. n
  BY DefinitionFacts
<1>0. PICK h : ClassRun(h, g, class, truth, e)
  BY ClassUnfolds
<1>2. /\ h \in [0 .. n -> Sound] /\ h[0] = e
      /\ \A k \in 1 .. n : h[k] = EvaluateMember(g, group, class, truth, h[k - 1], k)
      /\ EvaluateClass(g, group, class, truth, e) = h[n]
  BY <1>0 DEF ClassRun
<1> DEFINE S == {k \in Nat : k <= n => ClassTurned(g, class, k, e, h[k])}
<1> HIDE DEF group, n
<1>3. 0 \in S
  <2>1. InClass(g, class, 0) = {}
    <3> SUFFICES ASSUME NEW s \in Slots, s[1] = g PROVE ~(s[2] <= 0)
      BY DEF InClass
    <3>1. s[2] \in DOMAIN group
      BY SlotFacts DEF group
    <3> QED BY <3>1, <1>1
  <2>2. \A s \in Slots : e.hits[s] \in Nat
    BY DEF Sound, Evals, Capped
  <2>3. ClassTurned(g, class, 0, e, e)
    BY <2>1, <2>2 DEF ClassTurned
  <2> QED BY <2>3, <1>2
<1>4. ASSUME NEW k \in Nat, k \in S PROVE k + 1 \in S
  <2> SUFFICES ASSUME k + 1 <= n PROVE ClassTurned(g, class, k + 1, e, h[k + 1])
    OBVIOUS
  <2>1. k + 1 \in 1 .. n /\ k + 1 \in DOMAIN group /\ (k + 1) - 1 = k
    BY <1>1
  <2>2. ClassTurned(g, class, k, e, h[k])
    BY <1>4, <1>1
  <2>3. h[k + 1] = EvaluateMember(g, group, class, truth, h[k], k + 1)
    BY <2>1, <1>2
  <2>4. ClassTurned(g, class, k + 1, e, EvaluateMember(g, group, class, truth, h[k], k + 1))
    BY <2>1, <2>2, ClassTurn DEF group
  <2> QED BY <2>3, <2>4
<1>5. Nat \subseteq S
  <2> HIDE DEF S
  <2> QED BY <1>3, <1>4, Induction
<1>6. ClassTurned(g, class, n, e, h[n])
  BY <1>1, <1>5
<1> QED BY <1>2, <1>6 DEF group, n

-----------------------------------------------------------------------------
(* What evaluating a group makes of the evaluation state.                   *)

\* The slots of a class of group g.
OfClass(g, class) == {s \in Slots : s[1] = g /\ ClassOf(defn.groups[g], s[2]) = class}

\* One class of a group that is not paused, from e to n.
Stage(g, class, e, n) ==
  /\ n \in Sound
  /\ \A s \in Slots \ OfClass(g, class) : n.hits[s] = e.hits[s]
  /\ e.has_hits => n.has_hits
  /\ e.was_reset => n.was_reset
  /\ e.was_cond_reset => n.was_cond_reset
  /\ \/ n.was_cond_reset
     \/ n.was_reset
     \/ \A s \in Slots : n.hits[s] >= e.hits[s] \/ Momentary(s)
  /\ \/ n.has_hits
     \/ n.was_reset
     \/ e.is_paused
     \/ \A s \in OfClass(g, class) : n.hits[s] = 0 \/ Momentary(s)
  /\ \/ n.is_paused = e.is_paused
     \/ class = "pause" /\ n.has_hits

\* The same without the turns: hit counts outside the class are as they were.
LEMMA ClassStage ==
  ASSUME defn \in Definitions, NEW g \in DOMAIN defn.groups, NEW class, NEW truth,
         NEW e \in Sound
  PROVE  Stage(g, class, e, EvaluateClass(g, defn.groups[g], class, truth, e))
<1> DEFINE k == Len(defn.groups[g])
           n == EvaluateClass(g, defn.groups[g], class, truth, e)
<1>1. ClassTurned(g, class, k, e, n)
  BY ClassTurns
<1>2. InClass(g, class, k) = OfClass(g, class)
  <2> SUFFICES ASSUME NEW s \in Slots, s[1] = g PROVE s[2] <= k
    BY DEF InClass, OfClass
  <2>1. s[2] \in DOMAIN defn.groups[g] /\ defn.groups[g] \in Seq(Conditions)
    BY SlotFacts, DefinitionFacts
  <2> QED BY <2>1
<1> SUFFICES Stage(g, class, e, n)
  OBVIOUS
<1> HIDE DEF n, k
<1> QED BY <1>1, <1>2 DEF ClassTurned, Stage

\* A stage that may be left out when a ResetIf was true.
LEMMA StageSkipped ==
  ASSUME NEW g, NEW class, NEW e \in Sound, e.was_reset
  PROVE  Stage(g, class, e, e)
BY DEF Stage

\* Dropping the counts of the measured class.
LEMMA WithoutMeasuredFacts ==
  ASSUME defn \in Definitions, NEW g \in DOMAIN defn.groups, NEW e \in Sound
  PROVE  /\ WithoutMeasuredHits(g, defn.groups[g], e) \in Sound
         /\ \A s \in Slots \ OfClass(g, "measured") :
              WithoutMeasuredHits(g, defn.groups[g], e).hits[s] = e.hits[s]
         /\ e.was_reset \/ WithoutMeasuredHits(g, defn.groups[g], e).hits = e.hits
         /\ WithoutMeasuredHits(g, defn.groups[g], e).has_hits = e.has_hits
         /\ WithoutMeasuredHits(g, defn.groups[g], e).was_reset = e.was_reset
         /\ WithoutMeasuredHits(g, defn.groups[g], e).was_cond_reset = e.was_cond_reset
         /\ WithoutMeasuredHits(g, defn.groups[g], e).is_paused = e.is_paused
<1> DEFINE group == defn.groups[g]
           measured == {i \in DOMAIN group : ClassOf(group, i) = "measured"}
           left == [s \in Slots |->
                      IF e.was_reset /\ s[1] = g /\ s[2] \in measured THEN 0 ELSE e.hits[s]]
           n == WithoutMeasuredHits(g, group, e)
<1>1. e \in Evals /\ e.hits \in Capped /\ e.hits \in [Slots -> Nat]
  BY DEF Sound, Evals, Capped
<1>2. DOMAIN e.hits = Slots
  BY <1>1
<1>3. n = [e EXCEPT !.hits = left]
  BY <1>2 DEF WithoutMeasuredHits
<1>4. left \in Capped
  <2>1. \A s \in Slots : left[s] \in {0, e.hits[s]} /\ e.hits[s] \in Nat
    BY <1>1
  <2>2. left \in [Slots -> Nat]
    BY <1>1
  <2>3. \A s \in Slots : Cond(s).required # 0 => e.hits[s] <= Cond(s).required
    BY <1>1 DEF Capped
  <2>4. \A s \in Slots : Cond(s).required \in Nat
    BY SlotFacts DEF Conditions
  <2> HIDE DEF left
  <2>5. ASSUME NEW s \in Slots, Cond(s).required # 0 PROVE left[s] <= Cond(s).required
    <3>1. CASE left[s] = 0
      BY <3>1, <2>4
    <3>2. CASE left[s] = e.hits[s]
      BY <3>2, <2>3, <2>5
    <3> QED BY <3>1, <3>2, <2>1
  <2> QED BY <2>2, <2>5 DEF Capped
<1>5. \A s \in Slots \ OfClass(g, "measured") : left[s] = e.hits[s]
  BY DEF OfClass
<1>6. ASSUME ~e.was_reset PROVE left = e.hits
  BY <1>1, <1>6
<1> HIDE DEF left
<1>7. /\ n \in Evals /\ n.hits = left /\ n.has_hits = e.has_hits
      /\ n.was_reset = e.was_reset /\ n.was_cond_reset = e.was_cond_reset
      /\ n.is_paused = e.is_paused /\ n.add_hits = e.add_hits
  BY <1>1, <1>3, <1>4 DEF Evals
<1>8. n \in Sound
  BY <1>7 DEF Sound, Known
<1> HIDE DEF n
<1> QED BY <1>5, <1>6, <1>7, <1>8 DEF n

\* Dropping a measured value that MeasuredIf forbids changes no hits.
LEMMA MeasuredOrNothingFacts ==
  ASSUME NEW n \in Sound
  PROVE  /\ MeasuredOrNothing(n) \in Sound
         /\ Alike(MeasuredOrNothing(n), n)
         /\ MeasuredOrNothing(n).is_paused = n.is_paused
         /\ MeasuredOrNothing(n).was_reset = n.was_reset
<1>1. n \in Evals
  BY DEF Sound
<1>2. \/ MeasuredOrNothing(n) = n
      \/ MeasuredOrNothing(n) = [n EXCEPT !.measured = 0]
  BY DEF MeasuredOrNothing
<1>3. [n EXCEPT !.measured = 0] \in Sound
  BY DEF Sound, Known, Evals
<1> QED BY <1>1, <1>2, <1>3 DEF Alike, Evals

\* The measured class, with and without a pass over its hit counts.
LEMMA MeasuredStage ==
  ASSUME defn \in Definitions, NEW g \in DOMAIN defn.groups, NEW truth, NEW e \in Sound
  PROVE  Stage(g, "measured", e, EvaluateMeasured(g, defn.groups[g], truth, e))
<1> DEFINE w == WithoutMeasuredHits(g, defn.groups[g], e)
           x == EvaluateClass(g, defn.groups[g], "measured", truth, w)
           n == EvaluateMeasured(g, defn.groups[g], truth, e)
<1> SUFFICES Stage(g, "measured", e, n)
  OBVIOUS
<1>1. /\ w \in Sound /\ w.has_hits = e.has_hits /\ w.was_reset = e.was_reset
      /\ w.was_cond_reset = e.was_cond_reset /\ w.is_paused = e.is_paused
      /\ \A s \in Slots \ OfClass(g, "measured") : w.hits[s] = e.hits[s]
      /\ e.was_reset \/ w.hits = e.hits
  BY WithoutMeasuredFacts
<1> HIDE DEF w
<1>2. Stage(g, "measured", w, x)
  BY <1>1, ClassStage
<1>3. n = MeasuredOrNothing(x)
  BY DEF EvaluateMeasured, w
<1>4. x \in Sound
  BY <1>2 DEF Stage
<1> HIDE DEF x, n
<1>5. /\ n \in Sound /\ n.hits = x.hits /\ n.has_hits = x.has_hits
      /\ n.was_cond_reset = x.was_cond_reset /\ n.is_paused = x.is_paused
      /\ n.was_reset = x.was_reset
  BY <1>3, <1>4, MeasuredOrNothingFacts DEF Alike
<1> QED BY <1>1, <1>2, <1>5 DEF Stage

\* Every condition belongs to one of the classes that are evaluated.
LEMMA ClassCases ==
  ASSUME NEW group \in Seq(Conditions), NEW i \in DOMAIN group
  PROVE  ClassOf(group, i) \in {"pause", "reset", "hittarget", "measured", "other"}
<1> DEFINE end == ChainEnd(group, i)
           ends == {j \in i .. Len(group) : Classify(group[j]) # "combining"}
<1>1. CASE end = 0
  BY <1>1 DEF ClassOf
<1>2. CASE end # 0
  <2>1. ends # {} /\ end = CHOOSE j \in ends : \A k \in ends : j <= k
    BY <1>2 DEF ChainEnd
  <2>2. ends \in SUBSET Nat
    OBVIOUS
  <2>3. \E j \in ends : \A k \in ends : j <= k
    <3> HIDE DEF ends
    <3> QED BY <2>1, <2>2, Least
  <2>4. end \in ends
    <3> HIDE DEF ends, end
    <3> QED BY <2>1, <2>3
  <2>5. ClassOf(group, i) = Classify(group[end]) /\ Classify(group[end]) # "combining"
    BY <1>2, <2>4 DEF ClassOf
  <2>6. Classify(group[end]) \in
          {"pause", "reset", "combining", "hittarget", "measured", "other"}
    BY DEF Classify, CombiningTypes
  <2> QED BY <2>5, <2>6
<1> QED BY <1>1, <1>2

\* A group of the trigger, from e to n: only its counts change, and those of a paused
\* group only by its pauses; a count is lost only when that is noted, or a ResetIf
\* was true, and one that is left is known.
GroupTurned(g, e, n) ==
  /\ n \in Sound
  /\ \A s \in Slots : s[1] # g => n.hits[s] = e.hits[s]
  /\ e.has_hits => n.has_hits
  /\ e.was_reset => n.was_reset
  /\ e.was_cond_reset => n.was_cond_reset
  /\ \/ n.was_cond_reset
     \/ n.was_reset
     \/ \A s \in Slots : n.hits[s] >= e.hits[s] \/ Momentary(s)
  /\ \/ n.has_hits
     \/ n.was_reset
     \/ \A s \in Slots : s[1] = g => n.hits[s] = 0 \/ Momentary(s)
  /\ n.is_paused =>
       \A s \in Slots : s[1] = g /\ ClassOf(defn.groups[g], s[2]) # "pause"
                         => n.hits[s] = e.hits[s]

\* A group is begun with nothing decided; the hits go on from the group before.
LEMMA BeginGroupFacts ==
  ASSUME NEW e \in Evals
  PROVE  /\ BeginGroup(e) \in Sound /\ BeginGroup(e).hits = e.hits
         /\ BeginGroup(e).has_hits = e.has_hits /\ BeginGroup(e).was_reset = e.was_reset
         /\ BeginGroup(e).was_cond_reset = e.was_cond_reset
         /\ BeginGroup(e).is_paused = FALSE
<1> DEFINE a == [e EXCEPT !.measured = NoMeasure]
           b == [a EXCEPT !.add_hits = 0]
<1>1. a \in Evals /\ NoMeasure \in Int
  BY DEF Evals, NoMeasure
<1>2. /\ a.hits = e.hits /\ a.has_hits = e.has_hits /\ a.was_reset = e.was_reset
      /\ a.was_cond_reset = e.was_cond_reset
  BY DEF Evals
<1>3. BeginGroup(e) =
        [b EXCEPT !.from_hits = FALSE, !.can_measure = TRUE, !.is_true = TRUE,
                  !.is_primed = TRUE, !.is_paused = FALSE, !.and_next = TRUE,
                  !.or_next = FALSE, !.reset_next = FALSE]
  BY DEF BeginGroup, Evals
<1> HIDE DEF a
<1>4. /\ b \in Evals /\ b.hits = a.hits /\ b.has_hits = a.has_hits
      /\ b.was_reset = a.was_reset /\ b.was_cond_reset = a.was_cond_reset
      /\ b.add_hits = 0
  BY <1>1 DEF Evals
<1> HIDE DEF b
<1> DEFINE n == BeginGroup(e)
<1> HIDE DEF n
<1>5. /\ n \in Evals /\ n.hits = b.hits /\ n.has_hits = b.has_hits
      /\ n.was_reset = b.was_reset /\ n.was_cond_reset = b.was_cond_reset
      /\ n.add_hits = b.add_hits /\ n.is_paused = FALSE
  BY <1>3, <1>4 DEF Evals, n
<1> QED BY <1>2, <1>4, <1>5 DEF Sound, Known, n

\* What rc_test_condset does to the hit counts of its group, and to no other.
LEMMA TestCondsetTurns ==
  ASSUME defn \in Definitions, NEW g \in DOMAIN defn.groups, NEW truth, NEW e \in Evals
  PROVE  GroupTurned(g, e, TestCondset(g, defn.groups[g], truth, e))
<1> DEFINE group == defn.groups[g]
           b == BeginGroup(e)
           p == EvaluateClass(g, group, "pause", truth, b)
           r == EvaluateClass(g, group, "reset", truth, p)
           t == EvaluateHitTargets(g, group, truth, r)
           m == EvaluateMeasured(g, group, truth, t)
           o == EvaluateOther(g, group, truth, m)
           n == TestCondset(g, group, truth, e)
<1> SUFFICES GroupTurned(g, e, n)
  OBVIOUS
<1>1. /\ b \in Sound /\ b.hits = e.hits /\ b.has_hits = e.has_hits
      /\ b.was_reset = e.was_reset /\ b.was_cond_reset = e.was_cond_reset
      /\ b.is_paused = FALSE
  BY BeginGroupFacts
<1>2. n = IF p.is_paused THEN p ELSE o
  BY DEF TestCondset, EvaluateUnpaused, EvaluateRest
<1> HIDE DEF n, b
<1>3. Stage(g, "pause", b, p)
  BY <1>1, ClassStage
<1>4. p \in Sound
  BY <1>3 DEF Stage
<1> HIDE DEF p
<1>5. Stage(g, "reset", p, r)
  BY <1>4, ClassStage
<1>6. r \in Sound
  BY <1>5 DEF Stage
<1> HIDE DEF r
<1>7. Stage(g, "hittarget", r, t)
  <2>1. CASE r.was_reset
    BY <2>1, <1>6, StageSkipped DEF EvaluateHitTargets
  <2>2. CASE ~r.was_reset
    <3>1. t = EvaluateClass(g, group, "hittarget", truth, r)
      BY <2>2 DEF EvaluateHitTargets
    <3> QED BY <3>1, <1>6, ClassStage
  <2> QED BY <2>1, <2>2
<1>8. t \in Sound
  BY <1>7 DEF Stage
<1> HIDE DEF t
<1>9. Stage(g, "measured", t, m)
  BY <1>8, MeasuredStage
<1>10. m \in Sound
  BY <1>9 DEF Stage
<1> HIDE DEF m
<1>11. Stage(g, "other", m, o)
  <2>1. CASE ~(m.is_true \/ ~m.was_reset)
    BY <2>1, <1>10, StageSkipped DEF EvaluateOther
  <2>2. CASE m.is_true \/ ~m.was_reset
    <3>1. o = EvaluateClass(g, group, "other", truth, m)
      BY <2>2 DEF EvaluateOther
    <3> QED BY <3>1, <1>10, ClassStage
  <2> QED BY <2>1, <2>2
<1> HIDE DEF o
<1>12. \A s \in Slots : /\ b.hits[s] \in Nat /\ p.hits[s] \in Nat /\ r.hits[s] \in Nat
                        /\ t.hits[s] \in Nat /\ m.hits[s] \in Nat /\ o.hits[s] \in Nat
  BY <1>1, <1>4, <1>6, <1>8, <1>10, <1>11 DEF Stage, Sound, Evals, Capped
<1>13. CASE p.is_paused
  <2>1. n = p /\ p.has_hits
    BY <1>1, <1>2, <1>3, <1>13 DEF Stage
  <2>2. \A s \in Slots \ OfClass(g, "pause") : p.hits[s] = e.hits[s]
    BY <1>1, <1>3 DEF Stage
  <2> QED BY <2>1, <2>2, <1>1, <1>3, <1>4 DEF Stage, GroupTurned, OfClass
<1>14. CASE ~p.is_paused
  <2>1. n = o
    BY <1>2, <1>14
  <2>2. ~r.is_paused /\ ~t.is_paused /\ ~m.is_paused /\ ~o.is_paused
    BY <1>5, <1>7, <1>9, <1>11, <1>14 DEF Stage
  <2>3. ASSUME NEW s \in Slots, s[1] # g PROVE o.hits[s] = e.hits[s]
    <3>1. \A class : s \notin OfClass(g, class)
      BY <2>3 DEF OfClass
    <3> QED BY <3>1, <1>1, <1>3, <1>5, <1>7, <1>9, <1>11 DEF Stage
  <2>4. /\ e.has_hits => o.has_hits
        /\ e.was_reset => o.was_reset
        /\ e.was_cond_reset => o.was_cond_reset
    BY <1>1, <1>3, <1>5, <1>7, <1>9, <1>11 DEF Stage
  <2>5. ASSUME ~o.was_reset, ~o.was_cond_reset, NEW s \in Slots
        PROVE  o.hits[s] >= e.hits[s] \/ Momentary(s)
    <3>1. /\ ~m.was_reset /\ ~m.was_cond_reset /\ ~t.was_reset /\ ~t.was_cond_reset
          /\ ~r.was_reset /\ ~r.was_cond_reset /\ ~p.was_reset /\ ~p.was_cond_reset
      BY <2>5, <1>5, <1>7, <1>9, <1>11 DEF Stage
    <3>2. /\ p.hits[s] >= b.hits[s] \/ Momentary(s)
          /\ r.hits[s] >= p.hits[s] \/ Momentary(s)
          /\ t.hits[s] >= r.hits[s] \/ Momentary(s)
          /\ m.hits[s] >= t.hits[s] \/ Momentary(s)
          /\ o.hits[s] >= m.hits[s] \/ Momentary(s)
      BY <2>5, <3>1, <1>3, <1>5, <1>7, <1>9, <1>11 DEF Stage
    <3> QED BY <3>2, <1>12, <1>1
  <2>6. ASSUME ~o.was_reset, ~o.has_hits, NEW s \in Slots, s[1] = g
        PROVE  o.hits[s] = 0 \/ Momentary(s)
    <3>1. /\ ~m.was_reset /\ ~m.has_hits /\ ~t.was_reset /\ ~t.has_hits
          /\ ~r.was_reset /\ ~r.has_hits /\ ~p.was_reset /\ ~p.has_hits
      BY <2>6, <1>5, <1>7, <1>9, <1>11 DEF Stage
    <3>2. PICK class \in {"pause", "reset", "hittarget", "measured", "other"} :
            ClassOf(group, s[2]) = class
      BY <2>6, SlotFacts, DefinitionFacts, ClassCases
    <3>3. s \in OfClass(g, class) /\ \A c : c # class => s \notin OfClass(g, c)
      BY <2>6, <3>2 DEF OfClass
    <3>4. CASE class = "pause"
      BY <3>4, <3>1, <3>3, <1>1, <1>3, <1>5, <1>7, <1>9, <1>11 DEF Stage
    <3>5. CASE class = "reset"
      BY <3>5, <3>1, <3>3, <1>14, <1>5, <1>7, <1>9, <1>11 DEF Stage
    <3>6. CASE class = "hittarget"
      BY <3>6, <3>1, <3>3, <2>2, <1>7, <1>9, <1>11 DEF Stage
    <3>7. CASE class = "measured"
      BY <3>7, <3>1, <3>3, <2>2, <1>9, <1>11 DEF Stage
    <3>8. CASE class = "other"
      BY <3>8, <2>6, <3>3, <2>2, <1>11 DEF Stage
    <3> QED BY <3>4, <3>5, <3>6, <3>7, <3>8
  <2>7. o \in Sound
    BY <1>11 DEF Stage
  <2> QED BY <2>1, <2>2, <2>3, <2>4, <2>5, <2>6, <2>7 DEF GroupTurned
<1> QED BY <1>13, <1>14

-----------------------------------------------------------------------------
(* The groups of a trigger in order.                                        *)

\* The results of the groups: each goes on from the one before it.
Before(all, g) == IF g = 1 THEN FreshEval ELSE all[g - 1]

\* A frame is begun with the hit counts of the trigger.
LEMMA FreshFacts ==
  ASSUME hits \in Capped
  PROVE  FreshEval \in Sound /\ FreshEval.hits = hits /\ FreshEval.is_paused = FALSE
<1> DEFINE r == [measured |-> NoMeasure, from_hits |-> FALSE, can_measure |-> TRUE,
                 is_true |-> TRUE, is_primed |-> TRUE, is_paused |-> FALSE,
                 add_hits |-> 0, and_next |-> TRUE, or_next |-> FALSE,
                 reset_next |-> FALSE, valid |-> FALSE, has_hits |-> FALSE,
                 was_reset |-> FALSE, was_cond_reset |-> FALSE, hits |-> hits]
<1>1. r \in Evals /\ r.hits = hits
  BY DEF Evals, NoMeasure
<1>2. FreshEval = BeginGroup(r)
  BY DEF FreshEval
<1> HIDE DEF r
<1> QED BY <1>1, <1>2, BeginGroupFacts

\* The fold over the groups: each is evaluated in the state that the one before left.
LEMMA GroupsUnfold ==
  ASSUME defn \in Definitions, hits \in Capped, NEW truth
  PROVE  /\ GroupResults(truth) \in Seq(Sound)
         /\ Len(GroupResults(truth)) = Len(defn.groups)
         /\ \A g \in DOMAIN defn.groups :
              GroupResults(truth)[g] =
                TestCondset(g, defn.groups[g], truth, Before(GroupResults(truth), g))
<1> DEFINE groups == defn.groups
           n == Len(groups)
           Op(done, g) == Append(done, TestCondset(g, groups[g], truth, done[Len(done)]))
           Good == {d \in Seq(Sound) : d # <<>>}
           base == <<FreshEval>>
           ids == [i \in DOMAIN groups |-> i]
           P(f) == f = [s \in SUBSET (DOMAIN ids) |->
                          IF s = {} THEN base
                          ELSE Append(f[s \ {Max(s)}],
                                      TestCondset(ids[Max(s)], groups[ids[Max(s)]], truth,
                                        f[s \ {Max(s)}][Len(f[s \ {Max(s)}])]))]
           it == CHOOSE f : P(f)
<1>1. n \in Nat /\ DOMAIN groups = 1 .. n
  BY DefinitionFacts
<1>2. DOMAIN ids = 1 .. n /\ \A i \in 1 .. n : ids[i] = i
  BY <1>1
<1>3. GroupResults(truth) = Tail(it[1 .. n])
  <2> HIDE DEF n
  <2> QED BY <1>2 DEF GroupResults, FoldLeftDomain, FoldLeft, MapThenFoldSet
<1>4. ASSUME NEW d \in Good, NEW g \in 1 .. n PROVE Op(d, g) \in Good
  <2>1. d \in Seq(Sound) /\ Len(d) \in DOMAIN d
    OBVIOUS
  <2>2. d[Len(d)] \in Evals
    BY <2>1 DEF Sound
  <2>3. TestCondset(g, groups[g], truth, d[Len(d)]) \in Sound
    BY <1>1, <2>2, TestCondsetTurns DEF GroupTurned
  <2> HIDE DEF groups
  <2> QED BY <2>1, <2>3
<1>5. base \in Good
  BY FreshFacts
<1> DEFINE F == [p \in (1 .. n) \X Good |-> Op(p[2], p[1])]
<1> HIDE DEF groups, Op, n, Good, base
<1>6. F \in [(1 .. n) \X Good -> Good]
  BY <1>4
<1>7. ASSUME NEW i \in 1 .. n, NEW x \in Good PROVE F[<<i, x>>] = Op(x, i)
  OBVIOUS
<1> HIDE DEF F
<1>8. PICK f : FoldSolution(f, n, Good, base, F)
  <2>1. n \in Nat
    BY <1>1
  <2> QED BY <2>1, <1>5, <1>6, FoldExists
<1>9. ASSUME NEW s \in SUBSET (1 .. n), s # {}
      PROVE  Max(s) \in 1 .. n /\ f[s \ {Max(s)}] \in Good
  <2>1. Max(s) \in s
    BY <1>1, <1>9, MaxFacts
  <2> QED BY <2>1, <1>8 DEF FoldSolution
<1>10. P(f)
  <2>1. ASSUME NEW s \in SUBSET (1 .. n)
        PROVE  f[s] = IF s = {} THEN base ELSE Op(f[s \ {Max(s)}], ids[Max(s)])
    BY <1>2, <1>7, <1>8, <1>9 DEF FoldSolution
  <2>2. f = [s \in SUBSET (1 .. n) |->
               IF s = {} THEN base ELSE Op(f[s \ {Max(s)}], ids[Max(s)])]
    BY <2>1, <1>8 DEF FoldSolution
  <2> QED BY <2>2, <1>2 DEF Op
<1>11. P(it)
  BY <1>10
<1>12. \A s \in SUBSET (1 .. n) :
         it[s] = IF s = {} THEN base ELSE Op(it[s \ {Max(s)}], ids[Max(s)])
  BY <1>11, <1>2 DEF Op
<1> HIDE DEF it, ids
<1>13. it[{}] = base
  BY <1>12
<1>14. ASSUME NEW k \in 1 .. n, it[1 .. (k - 1)] \in Good
       PROVE  it[1 .. k] = F[<<k, it[1 .. (k - 1)]>>]
  <2>1. 1 .. k # {} /\ Max(1 .. k) = k /\ (1 .. k) \ {k} = 1 .. (k - 1)
    BY <1>1, k \in Nat \ {0}, MaxOfTurns
  <2>2. 1 .. k \in SUBSET (1 .. n)
    BY <1>1
  <2> QED BY <2>1, <2>2, <1>2, <1>7, <1>12, <1>14
<1>15. PICK h : FoldRunTo(h, n, Good, base, F, it[1 .. n])
  <2>1. n \in Nat
    BY <1>1
  <2>2. \A k \in 1 .. n : it[1 .. (k - 1)] \in Good
                           => it[1 .. k] = F[<<k, it[1 .. (k - 1)]>>]
    BY <1>14
  <2> QED BY <2>1, <2>2, <1>5, <1>6, <1>13, FoldRuns
<1>16. /\ h \in [0 .. n -> Good] /\ h[0] = base
       /\ \A k \in 1 .. n : h[k] = Op(h[k - 1], k)
  <2>1. \A k \in 1 .. n : k - 1 \in 0 .. n
    BY <1>1
  <2> QED BY <2>1, <1>7, <1>15 DEF FoldRunTo
<1> DEFINE Done(k) == /\ Len(h[k]) = k + 1
                      /\ h[k][1] = FreshEval
                      /\ \A g \in 1 .. k :
                           h[k][g + 1] = TestCondset(g, groups[g], truth, h[k][g])
           S == {k \in Nat : k <= n => Done(k)}
<1>17. \A k \in 0 .. n : h[k] \in Seq(Sound)
  BY <1>16 DEF Good
<1>18. 0 \in S
  <2>1. Done(0)
    BY <1>16 DEF base
  <2> HIDE DEF Done
  <2> QED BY <2>1
<1>19. ASSUME NEW k \in Nat, k \in S PROVE k + 1 \in S
  <2> SUFFICES ASSUME k + 1 <= n PROVE Done(k + 1)
    <3> HIDE DEF Done
    <3> QED OBVIOUS
  <2>1. k + 1 \in 1 .. n /\ (k + 1) - 1 = k /\ k \in 0 .. n
    BY <1>1
  <2>2. Done(k)
    <3> HIDE DEF Done
    <3> QED BY <2>1, <1>19
  <2>3. h[k] \in Seq(Sound)
    BY <2>1, <1>17
  <2>4. h[k + 1] = Append(h[k], TestCondset(k + 1, groups[k + 1], truth, h[k][k + 1]))
    BY <2>1, <2>2, <1>16 DEF Op
  <2>5. /\ Len(h[k + 1]) = k + 2
        /\ h[k + 1][k + 2] = TestCondset(k + 1, groups[k + 1], truth, h[k][k + 1])
        /\ \A g \in 1 .. (k + 1) : h[k + 1][g] = h[k][g]
    BY <2>2, <2>3, <2>4
  <2>6. ASSUME NEW g \in 1 .. (k + 1)
        PROVE  h[k + 1][g + 1] = TestCondset(g, groups[g], truth, h[k + 1][g])
    <3>1. CASE g = k + 1
      BY <3>1, <2>5
    <3>2. CASE g # k + 1
      <4>1. g \in 1 .. k /\ g + 1 \in 1 .. (k + 1)
        BY <3>2
      <4> QED BY <4>1, <2>2, <2>5
    <3> QED BY <3>1, <3>2
  <2>7. h[k + 1][1] = FreshEval
    BY <2>2, <2>5
  <2> QED BY <2>5, <2>6, <2>7
<1>20. Nat \subseteq S
  <2> HIDE DEF S
  <2> QED BY <1>18, <1>19, Induction
<1>21. Done(n)
  <2> HIDE DEF Done
  <2> QED BY <1>1, <1>20
<1> DEFINE all == Tail(h[n])
<1>22. GroupResults(truth) = all
  BY <1>3, <1>15 DEF FoldRunTo
<1>23. h[n] \in Seq(Sound) /\ h[n] # <<>>
  BY <1>1, <1>16, <1>17 DEF Good
<1>24. /\ all \in Seq(Sound) /\ Len(all) = n
       /\ \A g \in 1 .. n : all[g] = h[n][g + 1]
  BY <1>1, <1>21, <1>23
<1>25. ASSUME NEW g \in 1 .. n
       PROVE  all[g] = TestCondset(g, groups[g], truth, Before(all, g))
  <2>1. all[g] = TestCondset(g, groups[g], truth, h[n][g])
    BY <1>21, <1>24
  <2>2. CASE g = 1
    BY <2>1, <2>2, <1>21 DEF Before
  <2>3. CASE g # 1
    <3>1. g - 1 \in 1 .. n /\ (g - 1) + 1 = g
      BY <1>1, <2>3
    <3>2. all[g - 1] = h[n][g]
      BY <3>1, <1>24
    <3> HIDE DEF all
    <3> QED BY <2>1, <2>3, <3>2 DEF Before
  <2> QED BY <2>2, <2>3
<1> HIDE DEF all
<1> QED BY <1>1, <1>22, <1>24, <1>25 DEF groups, n

\* The measured value of the trigger is the greatest of its groups'.
LEMMA BestFacts ==
  ASSUME NEW all \in Seq(Sound)
  PROVE  FoldLeft(LAMBDA m, r : IF r.measured > m.measured THEN r ELSE m, FreshEval, all)
           \in {FreshEval} \cup {all[i] : i \in DOMAIN all}
<1> DEFINE n == Len(all)
           Good == {FreshEval} \cup {all[i] : i \in DOMAIN all}
           Op(m, r) == IF r.measured > m.measured THEN r ELSE m
           P(f) == f = [s \in SUBSET (DOMAIN all) |->
                          IF s = {} THEN FreshEval
                          ELSE IF all[Max(s)].measured > f[s \ {Max(s)}].measured
                               THEN all[Max(s)] ELSE f[s \ {Max(s)}]]
           it == CHOOSE f : P(f)
           F == [p \in (1 .. n) \X Good |-> Op(p[2], all[p[1]])]
           best == FoldLeft(LAMBDA m, r : IF r.measured > m.measured THEN r ELSE m,
                            FreshEval, all)
<1> SUFFICES best \in Good
  OBVIOUS
<1>1. n \in Nat /\ DOMAIN all = 1 .. n /\ FreshEval \in Good
      /\ \A i \in 1 .. n : all[i] \in Good
  OBVIOUS
<1>2. best = it[1 .. n]
  <2> HIDE DEF n
  <2> QED BY <1>1 DEF FoldLeft, MapThenFoldSet
<1> HIDE DEF n, best, Good
<1>3. F \in [(1 .. n) \X Good -> Good]
  BY <1>1
<1>4. ASSUME NEW i \in 1 .. n, NEW x \in Good PROVE F[<<i, x>>] = Op(x, all[i])
  OBVIOUS
<1> HIDE DEF F, Op
<1>5. PICK f : FoldSolution(f, n, Good, FreshEval, F)
  <2>1. n \in Nat /\ FreshEval \in Good
    BY <1>1
  <2> QED BY <2>1, <1>3, FoldExists
<1>6. ASSUME NEW s \in SUBSET (1 .. n), s # {}
      PROVE  Max(s) \in 1 .. n /\ f[s \ {Max(s)}] \in Good
  <2>1. Max(s) \in s
    BY <1>1, <1>6, MaxFacts
  <2> QED BY <2>1, <1>5 DEF FoldSolution
<1>7. P(f)
  <2>1. ASSUME NEW s \in SUBSET (1 .. n)
        PROVE  f[s] = IF s = {} THEN FreshEval ELSE Op(f[s \ {Max(s)}], all[Max(s)])
    BY <1>4, <1>5, <1>6 DEF FoldSolution
  <2>2. f = [s \in SUBSET (1 .. n) |->
               IF s = {} THEN FreshEval ELSE Op(f[s \ {Max(s)}], all[Max(s)])]
    BY <2>1, <1>5 DEF FoldSolution
  <2> QED BY <2>2, <1>1 DEF Op
<1>8. P(it)
  BY <1>7
<1>9. \A s \in SUBSET (1 .. n) :
        it[s] = IF s = {} THEN FreshEval ELSE Op(it[s \ {Max(s)}], all[Max(s)])
  BY <1>8, <1>1 DEF Op
<1> HIDE DEF it
<1>10. it[{}] = FreshEval
  BY <1>9
<1>11. \A k \in 1 .. n : it[1 .. (k - 1)] \in Good
                          => it[1 .. k] = F[<<k, it[1 .. (k - 1)]>>]
  <2> SUFFICES ASSUME NEW k \in 1 .. n, it[1 .. (k - 1)] \in Good
               PROVE  it[1 .. k] = F[<<k, it[1 .. (k - 1)]>>]
    OBVIOUS
  <2>1. 1 .. k # {} /\ Max(1 .. k) = k /\ (1 .. k) \ {k} = 1 .. (k - 1)
    BY <1>1, k \in Nat \ {0}, MaxOfTurns
  <2>2. 1 .. k \in SUBSET (1 .. n)
    BY <1>1
  <2>3. it[1 .. k] = Op(it[1 .. (k - 1)], all[k])
    BY <2>1, <2>2, <1>9
  <2> QED BY <2>3, <1>4
<1>12. PICK h : FoldRunTo(h, n, Good, FreshEval, F, it[1 .. n])
  <2>1. n \in Nat /\ FreshEval \in Good
    BY <1>1
  <2> QED BY <2>1, <1>3, <1>10, <1>11, FoldRuns
<1> QED BY <1>1, <1>2, <1>12 DEF FoldRunTo

\* The first g groups, from the counts before the frame to those of e.
GroupsTurned(all, g, e) ==
  /\ e \in Sound
  /\ \A s \in Slots : s[1] > g => e.hits[s] = hits[s]
  /\ \/ e.was_cond_reset
     \/ e.was_reset
     \/ \A s \in Slots : e.hits[s] >= hits[s] \/ Momentary(s)
  /\ \/ e.has_hits
     \/ e.was_reset
     \/ \A s \in Slots : s[1] <= g => e.hits[s] = 0 \/ Momentary(s)
  /\ \A s \in Slots :
       s[1] <= g /\ all[s[1]].is_paused /\ ClassOf(defn.groups[s[1]], s[2]) # "pause"
         => e.hits[s] = hits[s]

\* What holds of the first g - 1 groups holds of the first g.
LEMMA GroupsTurn ==
  ASSUME defn \in Definitions, hits \in Capped, NEW truth,
         NEW g \in DOMAIN defn.groups, NEW all, NEW e, NEW n,
         GroupsTurned(all, g - 1, e), GroupTurned(g, e, n), n = all[g]
  PROVE  GroupsTurned(all, g, n)
<1>1. \A s \in Slots : s[1] \in Nat /\ hits[s] \in Nat /\ e.hits[s] \in Nat /\ n.hits[s] \in Nat
  <2>1. \A s \in Slots : s[1] \in Nat
    BY SlotFacts, DefinitionFacts
  <2>2. {hits, e.hits, n.hits} \subseteq [Slots -> Nat]
    BY DEF GroupsTurned, GroupTurned, Sound, Evals, Capped
  <2> QED BY <2>1, <2>2
<1>2. g \in Nat \ {0}
  BY DefinitionFacts
<1>3. ASSUME NEW s \in Slots, s[1] > g PROVE n.hits[s] = hits[s]
  <2>1. s[1] # g /\ s[1] > g - 1
    BY <1>1, <1>2, <1>3
  <2> QED BY <2>1 DEF GroupsTurned, GroupTurned
<1>4. ASSUME ~n.was_cond_reset, ~n.was_reset, NEW s \in Slots
      PROVE  n.hits[s] >= hits[s] \/ Momentary(s)
  <2>1. ~e.was_cond_reset /\ ~e.was_reset
    BY <1>4 DEF GroupTurned
  <2>2. /\ n.hits[s] >= e.hits[s] \/ Momentary(s)
        /\ e.hits[s] >= hits[s] \/ Momentary(s)
    BY <1>4, <2>1 DEF GroupTurned, GroupsTurned
  <2> QED BY <2>2, <1>1
<1>5. ASSUME ~n.has_hits, ~n.was_reset, NEW s \in Slots, s[1] <= g
      PROVE  n.hits[s] = 0 \/ Momentary(s)
  <2>1. ~e.has_hits /\ ~e.was_reset
    BY <1>5 DEF GroupTurned
  <2>2. CASE s[1] = g
    BY <2>2, <1>5 DEF GroupTurned
  <2>3. CASE s[1] # g
    <3>1. s[1] <= g - 1
      BY <2>3, <1>1, <1>2, <1>5
    <3> QED BY <3>1, <2>1, <2>3 DEF GroupTurned, GroupsTurned
  <2> QED BY <2>2, <2>3
<1>6. ASSUME NEW s \in Slots, s[1] <= g, all[s[1]].is_paused,
             ClassOf(defn.groups[s[1]], s[2]) # "pause"
      PROVE  n.hits[s] = hits[s]
  <2>1. CASE s[1] = g
    <3>1. n.hits[s] = e.hits[s]
      BY <2>1, <1>6 DEF GroupTurned
    <3>2. s[1] > g - 1
      BY <2>1, <1>2
    <3> QED BY <3>1, <3>2 DEF GroupsTurned
  <2>2. CASE s[1] # g
    <3>1. s[1] <= g - 1
      BY <2>2, <1>1, <1>2, <1>6
    <3> QED BY <3>1, <2>2, <1>6 DEF GroupTurned, GroupsTurned
  <2> QED BY <2>1, <2>2
<1> QED BY <1>3, <1>4, <1>5, <1>6 DEF GroupsTurned, GroupTurned

\* What a frame makes of the counts.
FrameTurned(o) ==
  /\ o.hits \in Capped
  /\ o.has_hits \in BOOLEAN /\ o.was_reset \in BOOLEAN /\ o.was_cond_reset \in BOOLEAN
  /\ o.ready \in BOOLEAN /\ o.primed \in BOOLEAN /\ o.paused \in BOOLEAN
  /\ o.measured \in Int
  /\ o.groups \subseteq DOMAIN defn.groups
  /\ \/ o.was_cond_reset
     \/ o.was_reset
     \/ \A s \in Slots : o.hits[s] >= hits[s] \/ Momentary(s)
  /\ \/ o.has_hits
     \/ o.was_reset
     \/ \A s \in Slots : o.hits[s] = 0 \/ Momentary(s)
  /\ \A s \in Slots :
       s[1] \in o.groups /\ ClassOf(defn.groups[s[1]], s[2]) # "pause"
         => o.hits[s] = hits[s]

\* What a whole frame has done to the hit counts, before its resets.
LEMMA FrameTurns ==
  ASSUME defn \in Definitions, hits \in Capped, NEW truth
  PROVE  FrameTurned(Evaluation(truth))
<1> DEFINE all == GroupResults(truth)
           n == Len(defn.groups)
           o == Evaluation(truth)
           At(g) == Before(all, g + 1)
           end == IF all = <<>> THEN FreshEval ELSE all[Len(all)]
<1>1. /\ all \in Seq(Sound) /\ Len(all) = n
      /\ \A g \in DOMAIN defn.groups :
           all[g] = TestCondset(g, defn.groups[g], truth, Before(all, g))
  BY GroupsUnfold
<1>2. n \in Nat /\ DOMAIN defn.groups = 1 .. n
  BY DefinitionFacts
<1>3. o = Outcome(all)
  BY DEF Evaluation
<1>4. FreshEval \in Sound /\ FreshEval.hits = hits
  BY FreshFacts
<1> HIDE DEF o, all, n
<1> DEFINE S == {g \in Nat : g <= n => GroupsTurned(all, g, At(g))}
<1>5. 0 \in S
  <2>1. \A s \in Slots : s[1] \in Nat /\ s[1] > 0 /\ hits[s] \in Nat
    BY SlotFacts, <1>2 DEF Capped
  <2>2. GroupsTurned(all, 0, FreshEval)
    BY <1>4, <2>1 DEF GroupsTurned
  <2> QED BY <2>2 DEF Before
<1>6. ASSUME NEW g \in Nat, g \in S PROVE g + 1 \in S
  <2> SUFFICES ASSUME g + 1 <= n PROVE GroupsTurned(all, g + 1, At(g + 1))
    OBVIOUS
  <2>1. g + 1 \in DOMAIN defn.groups /\ (g + 1) - 1 = g /\ (g + 1) + 1 # 1
        /\ ((g + 1) + 1) - 1 = g + 1
    BY <1>2
  <2>2. GroupsTurned(all, g, At(g))
    BY <1>6, <1>2
  <2>3. At(g) \in Evals
    BY <2>2 DEF GroupsTurned, Sound
  <2>4. all[g + 1] = TestCondset(g + 1, defn.groups[g + 1], truth, At(g))
    BY <1>1, <2>1
  <2>5. At(g + 1) = all[g + 1]
    BY <2>1 DEF Before
  <2> HIDE DEF At
  <2>6. GroupTurned(g + 1, At(g), all[g + 1])
    BY <2>1, <2>3, <2>4, TestCondsetTurns
  <2> QED BY <2>1, <2>2, <2>5, <2>6, GroupsTurn
<1>7. Nat \subseteq S
  <2> HIDE DEF S
  <2> QED BY <1>5, <1>6, Induction
<1>8. GroupsTurned(all, n, At(n))
  BY <1>2, <1>7
<1>9. end = At(n)
  <2>1. CASE n = 0
    BY <2>1, <1>1 DEF Before
  <2>2. CASE n # 0
    <3>1. all # <<>> /\ n + 1 # 1 /\ (n + 1) - 1 = n
      BY <2>2, <1>1, <1>2
    <3> QED BY <3>1, <1>1 DEF Before
  <2> QED BY <2>1, <2>2
<1>10. /\ o.hits = end.hits /\ o.has_hits = end.has_hits
       /\ o.was_reset = end.was_reset /\ o.was_cond_reset = end.was_cond_reset
       /\ o.groups = {g \in DOMAIN all : all[g].is_paused}
  BY <1>3 DEF Outcome
<1>11. o.ready \in BOOLEAN /\ o.primed \in BOOLEAN /\ o.paused \in BOOLEAN
  <2>1. \A g \in DOMAIN all : /\ all[g].is_true \in BOOLEAN /\ all[g].is_primed \in BOOLEAN
                              /\ all[g].is_paused \in BOOLEAN
    BY <1>1 DEF Sound, Evals
  <2> QED BY <2>1, <1>3 DEF Outcome
<1>12. o.measured \in Int
  <2> DEFINE best == FoldLeft(LAMBDA m, r : IF r.measured > m.measured THEN r ELSE m,
                              FreshEval, all)
  <2>1. best \in {FreshEval} \cup {all[i] : i \in DOMAIN all}
    BY <1>1, BestFacts
  <2>2. o.measured = best.measured
    BY <1>3 DEF Outcome
  <2> HIDE DEF best
  <2>3. best \in Sound
    BY <2>1, <1>1, <1>4
  <2> QED BY <2>2, <2>3 DEF Sound, Evals
<1>13. o.groups \subseteq DOMAIN defn.groups /\ \A g \in o.groups : all[g].is_paused
  BY <1>1, <1>2, <1>10
<1> HIDE DEF end, At
<1>14. end \in Sound
  BY <1>8, <1>9 DEF GroupsTurned
<1>15. \A s \in Slots : s[1] <= n
  BY SlotFacts, <1>2
<1>16. o.hits \in Capped /\ o.has_hits \in BOOLEAN /\ o.was_reset \in BOOLEAN
       /\ o.was_cond_reset \in BOOLEAN
  BY <1>10, <1>14 DEF Sound, Evals
<1> SUFFICES FrameTurned(o)
  BY DEF o
<1> QED BY <1>8, <1>9, <1>10, <1>11, <1>12, <1>13, <1>15, <1>16 DEF GroupsTurned, FrameTurned

-----------------------------------------------------------------------------
(* The invariant.                                                           *)

\* How a trigger is stored in a save state.
Saves == [state : Lifecycle!ActiveStates, measured_value : Nat \cup {Unknown},
          hits : Capped, paused : SUBSET DOMAIN defn.groups, calm : BOOLEAN]

\* The types, in the save state too; hit counts are capped.
TypesHold ==
  /\ defn \in Definitions
  /\ state \in Lifecycle!ActiveStates \cup Lifecycle!IdleStates
  /\ result \in Lifecycle!ActiveStates \cup {"none", "INACTIVE", "RESET", "TRIGGERED"}
  /\ has_hits \in BOOLEAN
  /\ hits \in Capped
  /\ measured_value \in Nat \cup {Unknown}
  /\ paused \subseteq DOMAIN defn.groups
  /\ calm \in BOOLEAN
  /\ saved \subseteq Saves

\* A trigger that has left WAITING has seen a frame that was not ready, also when it
\* is restored.
CalmHolds ==
  /\ state \in Lifecycle!Settled \cup {"TRIGGERED"} => calm
  /\ \A s \in saved : s.state # "WAITING" => s.calm

\* A trigger whose owner writes no save states knows of every hit it has counted, and
\* has none when it begins to wait.
HitsKnown ==
  ~defn.saves =>
    /\ state \in Lifecycle!ActiveStates /\ ~has_hits =>
         \A s \in Slots : hits[s] = 0 \/ Momentary(s)
    /\ state = "WAITING" => ~has_hits

\* The inductive invariant: every part of the state stays in its range; a trigger that can
\* fire has seen a frame that was not ready; and has_hits is set while any hit is counted.
IInv == TypesHold /\ CalmHolds /\ HitsKnown

USE DEF Lifecycle!ActiveStates, Lifecycle!IdleStates, Lifecycle!Settled

\* Hit counts that are all zero are within their targets.
LEMMA NoHitsFacts ==
  ASSUME defn \in Definitions
  PROVE  NoHits \in Capped /\ \A s \in Slots : NoHits[s] = 0
<1>1. \A s \in Slots : Cond(s).required \in Nat
  BY SlotFacts DEF Conditions
<1> QED BY <1>1 DEF NoHits, Capped

\* A trigger begins with no hits, nothing saved and nothing decided.
LEMMA InitIInv == Init => IInv
<1> SUFFICES ASSUME Init PROVE IInv
  OBVIOUS
<1>1. defn \in Definitions /\ hits = NoHits /\ NoHits \in Capped /\ \A s \in Slots : hits[s] = 0
  BY NoHitsFacts DEF Init
<1>2. InitialMeasure \in Nat \cup {Unknown}
  BY DEF InitialMeasure
<1> QED BY <1>1, <1>2 DEF Init, IInv, TypesHold, CalmHolds, HitsKnown

\* What belongs to the definition does not change.
LEMMA SameDefinition ==
  ASSUME defn' = defn
  PROVE  /\ Slots' = Slots /\ Capped' = Capped /\ NoHits' = NoHits /\ Saves' = Saves
         /\ \A s : Cond(s)' = Cond(s) /\ (Momentary(s)' <=> Momentary(s))
BY DEF Slots, Capped, NoHits, Saves, Cond, Momentary

\* The ways a frame ends: the next state and counts, and what they are known by.
FrameEnds(o) ==
  \/ FrameReset(o) \/ FrameResetNothing(o) \/ FrameWaits(o)
  \/ FrameFires(o) \/ FrameSettles(o)

\* The measured value stays a number or unknown.
LEMMA MeasureFacts ==
  ASSUME measured_value \in Nat \cup {Unknown}, NEW o, FrameTurned(o)
  PROVE  NewMeasure(o) \in Nat \cup {Unknown} /\ ResetMeasure(o) \in Nat \cup {Unknown}
<1>1. Larger(o.measured, 0) \in Nat
  BY DEF Larger, FrameTurned
<1>2. NewMeasure(o) \in Nat \cup {Unknown}
  BY <1>1 DEF NewMeasure
<1> QED BY <1>2 DEF ResetMeasure

\* A frame of an active trigger keeps the invariant.
LEMMA FrameNext == IInv /\ Frame => IInv'
<1> SUFFICES ASSUME IInv, Frame PROVE IInv'
  OBVIOUS
<1>1. PICK truth \in SUBSET Slots :
        /\ paused' = Evaluation(truth).groups
        /\ calm' = (calm \/ Evaluation(truth).was_reset \/ ~Evaluation(truth).ready)
        /\ FrameEnds(Evaluation(truth))
  BY DEF Frame, FrameEnds
<1> DEFINE o == Evaluation(truth)
<1>2. /\ defn \in Definitions /\ hits \in Capped /\ calm \in BOOLEAN
      /\ measured_value \in Nat \cup {Unknown} /\ has_hits \in BOOLEAN /\ saved \subseteq Saves
      /\ state \in {"WAITING", "ACTIVE", "PAUSED", "PRIMED"} /\ defn' = defn /\ saved' = saved
  BY DEF IInv, TypesHold, Frame
<1>3. FrameTurned(o)
  BY <1>2, FrameTurns
<1>4. NoHits \in Capped /\ \A s \in Slots : NoHits[s] = 0
  BY <1>2, NoHitsFacts
<1>5. NewMeasure(o) \in Nat \cup {Unknown} /\ ResetMeasure(o) \in Nat \cup {Unknown}
  BY <1>2, <1>3, MeasureFacts
<1>6. /\ Slots' = Slots /\ Capped' = Capped /\ Saves' = Saves
      /\ \A s : Cond(s)' = Cond(s) /\ (Momentary(s)' <=> Momentary(s))
  BY <1>2, SameDefinition
<1> HIDE DEF o
<1>7. \A b : SettledState(o, b) \in {"ACTIVE", "PAUSED", "PRIMED"}
  BY DEF SettledState
<1>8. paused' = o.groups /\ calm' = (calm \/ o.was_reset \/ ~o.ready) /\ FrameEnds(o)
  BY <1>1 DEF o
<1>9. /\ state' \in {"WAITING", "ACTIVE", "PAUSED", "PRIMED", "TRIGGERED"}
      /\ result' \in {"WAITING", "ACTIVE", "PAUSED", "PRIMED", "RESET", "TRIGGERED"}
      /\ has_hits' \in BOOLEAN
      /\ hits' \in Capped
      /\ measured_value' \in Nat \cup {Unknown}
  <2>1. CASE FrameReset(o)
    BY <2>1, <1>2, <1>3, <1>4, <1>5 DEF FrameReset
  <2>2. CASE FrameResetNothing(o)
    BY <2>2, <1>3, <1>4, <1>5, <1>7 DEF FrameResetNothing
  <2>3. CASE FrameWaits(o)
    BY <2>3, <1>4, <1>5 DEF FrameWaits
  <2>4. CASE FrameFires(o)
    BY <2>4, <1>2, <1>3, <1>5 DEF FrameFires, FrameTurned
  <2>5. CASE FrameSettles(o)
    BY <2>5, <1>3, <1>5, <1>7 DEF FrameSettles, FrameTurned
  <2> QED BY <2>1, <2>2, <2>3, <2>4, <2>5, <1>8 DEF FrameEnds
<1>10. TypesHold'
  <2>1. paused' \subseteq DOMAIN defn.groups /\ calm' \in BOOLEAN
    BY <1>2, <1>3, <1>8 DEF FrameTurned
  <2> QED BY <2>1, <1>2, <1>6, <1>9 DEF TypesHold
<1>11. CalmHolds'
  <2>1. \A s \in saved : s.state # "WAITING" => s.calm
    BY DEF IInv, CalmHolds
  <2>2. state \in {"ACTIVE", "PAUSED", "PRIMED"} => calm
    BY DEF IInv, CalmHolds
  <2>3. state' \in {"ACTIVE", "PAUSED", "PRIMED", "TRIGGERED"} => calm'
    <3>1. CASE FrameReset(o)
      BY <3>1, <1>8 DEF FrameReset
    <3>2. CASE FrameResetNothing(o)
      BY <3>2, <1>8 DEF FrameResetNothing
    <3>3. CASE FrameWaits(o)
      BY <3>3 DEF FrameWaits
    <3>4. CASE FrameFires(o)
      BY <3>4, <2>2, <1>2, <1>8 DEF FrameFires
    <3>5. CASE FrameSettles(o)
      BY <3>5, <1>8 DEF FrameSettles
    <3> QED BY <3>1, <3>2, <3>3, <3>4, <3>5, <1>8 DEF FrameEnds
  <2> QED BY <2>1, <2>3, <1>2 DEF CalmHolds
<1>12. HitsKnown'
  <2>1. CASE hits' = NoHits /\ has_hits' = FALSE
    BY <2>1, <1>4, <1>6 DEF HitsKnown
  <2>2. CASE FrameFires(o)
    BY <2>2 DEF FrameFires, HitsKnown
  <2>3. CASE FrameSettles(o)
    <3>1. has_hits' \/ \A s \in Slots : hits'[s] = 0 \/ Momentary(s)
      BY <2>3, <1>3 DEF FrameSettles, FrameTurned
    <3>2. state' # "WAITING"
      BY <2>3, <1>7 DEF FrameSettles
    <3> QED BY <3>1, <3>2, <1>6 DEF HitsKnown
  <2> QED BY <2>1, <2>2, <2>3, <1>8 DEF FrameEnds, FrameReset, FrameResetNothing, FrameWaits
<1> QED BY <1>10, <1>11, <1>12 DEF IInv

\* Every step keeps the invariant: frames, resets, stops, save states and restores.
LEMMA IInvNext == IInv /\ [Next]_vars => IInv'
<1> SUFFICES ASSUME IInv, [Next]_vars PROVE IInv'
  OBVIOUS
<1>1. /\ TypesHold /\ CalmHolds /\ HitsKnown /\ defn' = defn
      /\ defn \in Definitions
  BY DEF IInv, TypesHold, Next, FrameIgnored, Frame, Owner, Reset, Stop, Serialize,
         Deserialize, vars
<1>2. /\ Slots' = Slots /\ Capped' = Capped /\ Saves' = Saves
      /\ \A s : Cond(s)' = Cond(s) /\ (Momentary(s)' <=> Momentary(s))
  BY <1>1, SameDefinition
<1>3. NoHits \in Capped /\ \A s \in Slots : NoHits[s] = 0
  BY <1>1, NoHitsFacts
<1>4. CASE FrameIgnored
  BY <1>1, <1>2, <1>4 DEF FrameIgnored, progress, IInv, TypesHold, CalmHolds, HitsKnown
<1>5. CASE Frame
  BY <1>5, FrameNext
<1>6. CASE Reset
  BY <1>1, <1>2, <1>3, <1>6 DEF Reset, Rewound, IInv, TypesHold, CalmHolds, HitsKnown
<1>7. CASE Stop
  BY <1>1, <1>2, <1>7 DEF Stop, progress, IInv, TypesHold, CalmHolds, HitsKnown
<1>8. CASE Serialize
  <2>1. saved' \subseteq Saves /\ \A s \in saved' : s.state # "WAITING" => s.calm
    <3>1. CASE state \in {"WAITING", "ACTIVE", "PAUSED", "PRIMED"}
      <4> DEFINE r == [state |-> state, measured_value |-> measured_value,
                       hits |-> hits, paused |-> paused, calm |-> calm]
      <4>1. saved' = {r}
        BY <3>1, <1>8 DEF Serialize
      <4>2. r \in Saves
        BY <3>1, <1>1 DEF Saves, TypesHold
      <4>3. r.state # "WAITING" => r.calm
        BY <3>1, <1>1 DEF CalmHolds
      <4> HIDE DEF r
      <4> QED BY <4>1, <4>2, <4>3
    <3>2. CASE state \notin {"WAITING", "ACTIVE", "PAUSED", "PRIMED"}
      BY <3>2, <1>8 DEF Serialize
    <3> QED BY <3>1, <3>2
  <2> QED BY <2>1, <1>1, <1>2, <1>8
          DEF Serialize, progress, IInv, TypesHold, CalmHolds, HitsKnown
<1>9. CASE Deserialize
  <2>0. defn.saves /\ saved' = saved /\ result' = "none"
    BY <1>9 DEF Deserialize
  <2>1. CASE Rewound
    BY <2>0, <2>1, <1>1, <1>2, <1>3 DEF Rewound, IInv, TypesHold, CalmHolds, HitsKnown
  <2>2. ASSUME NEW s \in saved,
               /\ state' = s.state /\ measured_value' = s.measured_value
               /\ hits' = s.hits /\ paused' = s.paused /\ calm' = s.calm
               /\ UNCHANGED has_hits
        PROVE  IInv'
    <3>1. s \in Saves /\ (s.state # "WAITING" => s.calm)
      BY <1>1 DEF TypesHold, CalmHolds
    <3>2. /\ s.state \in {"WAITING", "ACTIVE", "PAUSED", "PRIMED"} /\ s.hits \in Capped
          /\ s.measured_value \in Nat \cup {Unknown} /\ s.paused \subseteq DOMAIN defn.groups
          /\ s.calm \in BOOLEAN
      BY <3>1 DEF Saves
    <3> QED BY <2>0, <2>2, <3>1, <3>2, <1>1, <1>2
            DEF IInv, TypesHold, CalmHolds, HitsKnown
  <2> QED BY <2>1, <2>2, <1>9 DEF Deserialize
<1>10. CASE UNCHANGED vars
  BY <1>1, <1>2, <1>10 DEF vars, progress, IInv, TypesHold, CalmHolds, HitsKnown
<1> QED BY <1>4, <1>5, <1>6, <1>7, <1>8, <1>9, <1>10 DEF Next, Owner

\* Types, caps and what is known of the hits, for every definition of a trigger.
THEOREM TriggerInvariant == Spec => []IInv
BY InitIInv, IInvNext, PTL DEF Spec

\* A hit count with a target stops at the target.
THEOREM HitsStayWithinTarget == Spec => []HitsWithinTarget
<1>1. IInv => HitsWithinTarget
  BY DEF IInv, TypesHold, HitsWithinTarget, TypeOK, Capped
<1> QED BY <1>1, TriggerInvariant, PTL

-----------------------------------------------------------------------------
(* What a step may do to the hit counts.                                    *)

\* A frame of a trigger, in terms of what its groups made of the counts.
LEMMA FrameOutcome ==
  ASSUME IInv, Frame
  PROVE  \E o : /\ FrameTurned(o) /\ FrameEnds(o)
                /\ paused' = o.groups
                /\ calm' = (calm \/ o.was_reset \/ ~o.ready)
<1>1. PICK truth \in SUBSET Slots :
        /\ paused' = Evaluation(truth).groups
        /\ calm' = (calm \/ Evaluation(truth).was_reset \/ ~Evaluation(truth).ready)
        /\ FrameEnds(Evaluation(truth))
  BY DEF Frame, FrameEnds
<1>2. FrameTurned(Evaluation(truth))
  BY FrameTurns DEF IInv, TypesHold
<1> HIDE DEF FrameEnds
<1> QED BY <1>1, <1>2

\* What is known of the counts when a frame begins, if the owner saves nothing.
LEMMA UnsavedFacts ==
  ASSUME IInv, ~defn.saves, state \in {"WAITING", "ACTIVE", "PAUSED", "PRIMED"}
  PROVE  /\ \A s \in Slots : hits[s] \in Nat
         /\ ~has_hits => \A s \in Slots : hits[s] = 0 \/ Momentary(s)
         /\ state = "WAITING" => ~has_hits
BY DEF IInv, TypesHold, HitsKnown, Capped

\* A frame never drops a hit count silently.
THEOREM LostHitsAlwaysAnnounced == Spec => LostHitsAnnounced
<1>1. IInv /\ [Next]_vars =>
        [(/\ result' # "none" /\ ~defn.saves
          /\ \E s \in Slots : /\ hits'[s] < hits[s]
                              /\ ~(Cond(s).type = "PauseIf" /\ Cond(s).required = 0))
           => result' \in {"RESET", "TRIGGERED"}]_vars
  <2> SUFFICES ASSUME IInv, Next, result' # "none", ~defn.saves,
                      result' \notin {"RESET", "TRIGGERED"},
                      NEW s \in Slots, hits'[s] < hits[s], ~Momentary(s)
               PROVE  FALSE
    BY DEF Momentary
  <2>1. hits[s] \in Nat
    BY DEF IInv, TypesHold, Capped
  <2>2. CASE FrameIgnored
    BY <2>1, <2>2 DEF FrameIgnored, progress
  <2>3. CASE Frame
    <3>1. PICK o : FrameTurned(o) /\ FrameEnds(o)
      BY <2>3, FrameOutcome
    <3>2. state \in {"WAITING", "ACTIVE", "PAUSED", "PRIMED"}
      BY <2>3 DEF Frame
    <3>3. /\ ~has_hits => hits[s] = 0
          /\ state = "WAITING" => ~has_hits
      BY <3>2, UnsavedFacts
    <3>4. NoHits[s] = 0
      BY NoHitsFacts DEF IInv, TypesHold
    <3>5. CASE FrameResetNothing(o)
      BY <3>3, <3>4, <3>5 DEF FrameResetNothing
    <3>6. CASE FrameWaits(o)
      BY <3>3, <3>4, <3>6 DEF FrameWaits
    <3>7. CASE FrameSettles(o)
      <4>1. hits' = o.hits /\ ~o.was_reset /\ ~o.was_cond_reset
        BY <3>7 DEF FrameSettles
      <4>2. o.hits[s] >= hits[s] /\ o.hits[s] \in Nat
        BY <3>1, <4>1 DEF FrameTurned, Capped
      <4> QED BY <4>1, <4>2, <2>1
    <3> QED BY <3>1, <3>5, <3>6, <3>7 DEF FrameEnds, FrameReset, FrameFires
  <2>4. CASE Owner
    BY <2>4 DEF Owner, Reset, Stop, Serialize, Deserialize
  <2> QED BY <2>2, <2>3, <2>4 DEF Next
<1> QED BY <1>1, TriggerInvariant, PTL DEF Spec, LostHitsAnnounced

\* The hit counts of a paused group are frozen.
THEOREM PausedGroupsAlwaysKeepHits == Spec => PausedGroupsKeepHits
<1>1. IInv /\ [Next]_vars =>
        [(~defn.saves /\ result' \notin {"none", "RESET"}) =>
           \A s \in Slots :
             (s[1] \in paused' /\ ClassOf(defn.groups[s[1]], s[2]) # "pause")
               => hits'[s] = hits[s]]_vars
  <2> SUFFICES ASSUME IInv, Next, ~defn.saves, result' \notin {"none", "RESET"},
                      NEW s \in Slots, s[1] \in paused',
                      ClassOf(defn.groups[s[1]], s[2]) # "pause"
               PROVE  hits'[s] = hits[s]
    OBVIOUS
  <2>1. CASE FrameIgnored
    BY <2>1 DEF FrameIgnored, progress
  <2>2. CASE Frame
    <3>1. PICK o : FrameTurned(o) /\ FrameEnds(o) /\ paused' = o.groups
      BY <2>2, FrameOutcome
    <3>2. o.hits[s] = hits[s]
      BY <3>1 DEF FrameTurned
    <3>3. ~Momentary(s)
      <4>1. defn \in Definitions
        BY DEF IInv, TypesHold
      <4>2. /\ s[1] \in DOMAIN defn.groups /\ s[2] \in DOMAIN defn.groups[s[1]]
            /\ Cond(s) = defn.groups[s[1]][s[2]]
        BY <4>1, SlotFacts DEF Cond
      <4>3. defn.groups[s[1]] \in Seq(Conditions)
        BY <4>1, <4>2, DefinitionFacts
      <4> QED BY <4>2, <4>3, PausesAreFirst DEF Momentary
    <3>4. /\ ~has_hits => hits[s] = 0
          /\ state = "WAITING" => ~has_hits
      BY <2>2, <3>3, UnsavedFacts DEF Frame
    <3>5. NoHits[s] = 0
      BY NoHitsFacts DEF IInv, TypesHold
    <3>6. CASE FrameResetNothing(o)
      BY <3>4, <3>5, <3>6 DEF FrameResetNothing
    <3>7. CASE FrameWaits(o)
      BY <3>4, <3>5, <3>7 DEF FrameWaits
    <3>8. CASE FrameFires(o) \/ FrameSettles(o)
      BY <3>2, <3>8 DEF FrameFires, FrameSettles
    <3> QED BY <3>1, <3>6, <3>7, <3>8 DEF FrameEnds, FrameReset
  <2>3. CASE Owner
    BY <2>3 DEF Owner, Reset, Stop, Serialize, Deserialize
  <2> QED BY <2>1, <2>2, <2>3 DEF Next
<1> QED BY <1>1, TriggerInvariant, PTL DEF Spec, PausedGroupsKeepHits

-----------------------------------------------------------------------------
(* The lifecycle: what every trigger promises its owner.                    *)

\* A new trigger is a new abstract trigger.
LEMMA LifecycleInit == Init => Lifecycle!Init
BY DEF Init, Lifecycle!Init

\* Every step is a step of the lifecycle: a frame maps to the outcome it has there.
LEMMA LifecycleStep == IInv /\ [Next]_vars => [Lifecycle!Next]_(Lifecycle!vars)
<1> SUFFICES ASSUME IInv, [Next]_vars PROVE [Lifecycle!Next]_(Lifecycle!vars)
  OBVIOUS
<1> USE DEF Lifecycle!Next, Lifecycle!Frame, Lifecycle!Host, Lifecycle!vars
<1>1. /\ state \in {"ACTIVE", "PAUSED", "PRIMED", "TRIGGERED"} => calm
      /\ calm \in BOOLEAN
      /\ \A s \in saved : s \in Saves /\ (s.state # "WAITING" => s.calm)
  BY DEF IInv, TypesHold, CalmHolds
<1>2. CASE FrameIgnored
  BY <1>2 DEF FrameIgnored, Lifecycle!FrameIgnored
<1>3. CASE Frame
  <2>1. PICK o : /\ FrameTurned(o) /\ FrameEnds(o)
                 /\ calm' = (calm \/ o.was_reset \/ ~o.ready)
    BY <1>3, FrameOutcome
  <2>2. state \in {"WAITING", "ACTIVE", "PAUSED", "PRIMED"}
    BY <1>3 DEF Frame
  <2>3. \A b : SettledState(o, b) \in {"ACTIVE", "PAUSED", "PRIMED"}
    BY DEF SettledState
  <2>4. CASE FrameReset(o)
    BY <2>1, <2>2, <2>4 DEF FrameReset, Lifecycle!FrameReset
  <2>5. CASE FrameResetNothing(o)
    BY <2>1, <2>2, <2>3, <2>5 DEF FrameResetNothing, Lifecycle!FrameSettles
  <2>6. CASE FrameWaits(o)
    BY <2>1, <1>1, <2>6 DEF FrameWaits, Lifecycle!FrameWaits
  <2>7. CASE FrameFires(o)
    BY <2>1, <2>2, <1>1, <2>7 DEF FrameFires, Lifecycle!FrameFires
  <2>8. CASE FrameSettles(o)
    BY <2>1, <2>2, <2>3, <2>8 DEF FrameSettles, Lifecycle!FrameSettles
  <2> QED BY <2>1, <2>4, <2>5, <2>6, <2>7, <2>8 DEF FrameEnds
<1>4. CASE Reset
  BY <1>4 DEF Reset, Rewound, Lifecycle!HostResets
<1>5. CASE Stop
  BY <1>5 DEF Stop, Lifecycle!HostStops
<1>6. CASE Serialize
  BY <1>6 DEF Serialize, Lifecycle!HostSaves
<1>7. CASE Deserialize
  <2>1. CASE Rewound
    BY <1>7, <2>1 DEF Deserialize, Rewound, Lifecycle!HostResets
  <2>2. ASSUME NEW s \in saved, state' = s.state, calm' = s.calm
        PROVE  Lifecycle!HostRestores
    <3>1. s \in Saves /\ (s.state # "WAITING" => s.calm)
      BY <1>1
    <3> QED BY <1>7, <2>2, <3>1 DEF Deserialize, Lifecycle!HostRestores, Saves
  <2> QED BY <2>1, <2>2, <1>7 DEF Deserialize
<1>8. CASE UNCHANGED vars
  BY <1>8 DEF vars
<1> QED BY <1>2, <1>3, <1>4, <1>5, <1>6, <1>7, <1>8 DEF Next, Owner

\* Every frame of the conditions is one the callers of the trigger may expect.
THEOREM ImplementsLifecycle == Spec => RefinesLifecycle
BY LifecycleInit, LifecycleStep, TriggerInvariant, PTL DEF Spec, RefinesLifecycle, Lifecycle!Spec

-----------------------------------------------------------------------------
(* What a condition decides.                                                *)

\* The hits a condition adds to the total of the condition its chain ends at.
Added(counts, s) ==
  CASE Cond(s).type = "AddHits" -> counts[s]
    [] Cond(s).type = "SubHits" -> -counts[s]
    [] OTHER -> 0

\* The types whose target a group has to meet to be true.
Targets == {"Standard", "Trigger", "Measured", "MeasuredIf"}

\* A turn over slot s from e to n: a group stays true only while its targets are met
\* by the hits counted for them, what is added goes to the accumulator, a target
\* spends it, and only Measured measures.
Judged(s, e, n) ==
  /\ n.is_true => e.is_true
  /\ n.is_paused => e.is_paused \/ ~n.is_true
  /\ Cond(s).type # "PauseIf" => n.is_paused = e.is_paused
  /\ e.is_paused => n.is_paused
  /\ Cond(s).type # "ResetIf" => n.was_reset = e.was_reset
  /\ Cond(s).type \in CombiningTypes => n.add_hits = e.add_hits + Added(n.hits, s)
  /\ Cond(s).type \notin CombiningTypes =>
       n.add_hits = IF Cond(s).required # 0 THEN 0 ELSE e.add_hits
  /\ Cond(s).required # 0 /\ Cond(s).type \in Targets /\ n.is_true =>
       Larger(n.hits[s] + e.add_hits, 0) >= Cond(s).required
  /\ Cond(s).type = "Measured" /\ Cond(s).required # 0 =>
       n.from_hits /\ n.measured = Larger(n.hits[s] + e.add_hits, 0)
  /\ Cond(s).type # "Measured" => n.measured = e.measured /\ n.from_hits = e.from_hits

\* What a condition has counted before its type is looked at.
Evaluated(s, e, n) ==
  /\ n \in Evals
  /\ n.is_true = e.is_true
  /\ n.is_paused = e.is_paused
  /\ n.was_reset = e.was_reset
  /\ n.measured = e.measured
  /\ n.from_hits = e.from_hits

\* A counted condition that is valid has the hits its target asks for.
LEMMA TallyJudges ==
  ASSUME defn \in Definitions, NEW s \in Slots, NEW holds \in BOOLEAN, NEW e \in Evals
  PROVE  /\ Evaluated(s, e, Tally(Cond(s), s, holds, e))
         /\ Tally(Cond(s), s, holds, e).add_hits = e.add_hits
         /\ Tally(Cond(s), s, holds, e).valid =>
              \/ Cond(s).required = 0
              \/ Tally(Cond(s), s, holds, e).hits[s] >= Cond(s).required
<1> DEFINE c == Cond(s)
           true == (holds /\ e.and_next) \/ e.or_next
           chain == [e EXCEPT !.and_next = TRUE, !.or_next = FALSE]
           n == Tally(c, s, holds, e)
<1>0. n \in Evals /\ c.required \in Nat
  BY TallyTurns, SlotFacts DEF Turned, Conditions
<1>1. /\ chain \in Evals /\ chain.hits = e.hits /\ chain.is_true = e.is_true
      /\ chain.is_paused = e.is_paused /\ chain.measured = e.measured
      /\ chain.was_reset = e.was_reset
      /\ chain.from_hits = e.from_hits /\ chain.add_hits = e.add_hits
  BY DEF Evals
<1>2. e.hits[s] \in Nat /\ e.hits \in [Slots -> Nat] /\ e.reset_next \in BOOLEAN
  BY DEF Evals, Capped
<1> SUFFICES /\ Evaluated(s, e, n) /\ n.add_hits = e.add_hits
             /\ n.valid => c.required = 0 \/ n.hits[s] >= c.required
  OBVIOUS
<1> HIDE DEF chain, true, c
<1>3. CASE e.reset_next
  <2>1. n = Cleared(s, chain)
    BY <1>3 DEF Tally, chain
  <2>2. n = [chain EXCEPT !.was_cond_reset = @ \/ chain.hits[s] # 0, !.hits[s] = 0,
                          !.valid = FALSE]
    BY <2>1 DEF Cleared
  <2> HIDE DEF n
  <2>3. n.valid = FALSE /\ n.add_hits = chain.add_hits
    BY <2>2, <1>1 DEF Evals
  <2>4. /\ n.is_true = chain.is_true /\ n.is_paused = chain.is_paused
        /\ n.was_reset = chain.was_reset
        /\ n.measured = chain.measured /\ n.from_hits = chain.from_hits
    BY <2>2, <1>1 DEF Evals
  <2> QED BY <2>3, <2>4, <1>0, <1>1 DEF Evaluated
<1>4. CASE ~e.reset_next
  <2> DEFINE new == IF true /\ (c.required = 0 \/ e.hits[s] < c.required)
                    THEN e.hits[s] + 1 ELSE e.hits[s]
             valid == IF true THEN c.required = 0 \/ new >= c.required
                      ELSE e.hits[s] > 0 /\ e.hits[s] = c.required
             some == e.has_hits \/ true \/ e.hits[s] > 0
  <2>1. n = Counted(c, s, true, chain)
    BY <1>4 DEF Tally, chain, true
  <2>2. n = [chain EXCEPT !.has_hits = @ \/ true \/ e.hits[s] > 0, !.hits[s] = new,
                          !.valid = valid]
    BY <2>1, <1>1 DEF Counted
  <2>3. new \in Nat
    BY <1>2
  <2>4. valid => c.required = 0 \/ new >= c.required
    BY <1>0, <1>2
  <2> HIDE DEF n, new, valid
  <2>5. n.valid = valid /\ n.hits = [e.hits EXCEPT ![s] = new]
    BY <2>2, <1>1 DEF Evals
  <2>6. n.hits[s] = new
    BY <2>5, <1>2
  <2>7. /\ n.is_true = chain.is_true /\ n.is_paused = chain.is_paused
        /\ n.was_reset = chain.was_reset
        /\ n.measured = chain.measured /\ n.from_hits = chain.from_hits
        /\ n.add_hits = chain.add_hits
    BY <2>2, <1>1 DEF Evals
  <2> QED BY <2>4, <2>5, <2>6, <2>7, <1>0, <1>1 DEF Evaluated
<1> QED BY <1>2, <1>3, <1>4

\* A condition that is valid has its target met with the hits of its chain.
LEMMA EvaluateConditionJudges ==
  ASSUME defn \in Definitions, NEW s \in Slots, NEW holds \in BOOLEAN, NEW e \in Evals
  PROVE  /\ Evaluated(s, e, EvaluateCondition(Cond(s), s, holds, e))
         /\ EvaluateCondition(Cond(s), s, holds, e).add_hits =
              IF Cond(s).required # 0 THEN 0 ELSE e.add_hits
         /\ EvaluateCondition(Cond(s), s, holds, e).valid =>
              \/ Cond(s).required = 0
              \/ Larger(EvaluateCondition(Cond(s), s, holds, e).hits[s] + e.add_hits, 0)
                   >= Cond(s).required
<1> DEFINE c == Cond(s)
           t == Tally(c, s, holds, e)
           p == Spent(c, s, t)
           n == EvaluateCondition(c, s, holds, e)
<1>1. /\ Evaluated(s, e, t) /\ t.add_hits = e.add_hits
      /\ t.valid => c.required = 0 \/ t.hits[s] >= c.required
  BY TallyJudges
<1>2. c \in Conditions /\ c.required \in Nat
  BY SlotFacts DEF Conditions
<1>3. n = [p EXCEPT !.reset_next = FALSE]
  BY DEF EvaluateCondition
<1> SUFFICES /\ Evaluated(s, e, n)
             /\ n.add_hits = IF c.required # 0 THEN 0 ELSE e.add_hits
             /\ n.valid => c.required = 0 \/ Larger(n.hits[s] + e.add_hits, 0) >= c.required
  OBVIOUS
<1> HIDE DEF t, n, c
<1>4. t \in Evals /\ t.hits[s] \in Nat /\ t.add_hits \in Int
  BY <1>1 DEF Evaluated, Evals, Capped
<1>5. /\ p \in Evals /\ p.hits = t.hits /\ p.is_paused = t.is_paused
      /\ p.was_reset = t.was_reset
  BY <1>2, <1>4, SpentFacts
<1>6. /\ p.is_true = t.is_true /\ p.measured = t.measured /\ p.from_hits = t.from_hits
      /\ p.add_hits = IF c.required # 0 THEN 0 ELSE t.add_hits
      /\ p.valid => c.required = 0 \/ Larger(t.hits[s] + t.add_hits, 0) >= c.required
  <2>1. CASE t.add_hits # 0 /\ c.required # 0
    <3> DEFINE valid == TotalHits(c, s, t) >= c.required
               q == [t EXCEPT !.valid = valid]
    <3>1. p = [q EXCEPT !.add_hits = 0]
      BY <2>1 DEF Spent
    <3>2. valid \in BOOLEAN /\ (valid => Larger(t.hits[s] + t.add_hits, 0) >= c.required)
      BY <2>1 DEF TotalHits
    <3> HIDE DEF valid, p
    <3>3. /\ q \in Evals /\ q.is_true = t.is_true /\ q.measured = t.measured
          /\ q.from_hits = t.from_hits /\ q.valid = valid
      BY <3>2, <1>4 DEF Evals
    <3> HIDE DEF q
    <3>4. /\ p.is_true = q.is_true /\ p.measured = q.measured
          /\ p.from_hits = q.from_hits /\ p.valid = q.valid /\ p.add_hits = 0
      BY <3>1, <3>3 DEF Evals
    <3> QED BY <3>2, <3>3, <3>4, <2>1
  <2>2. CASE ~(t.add_hits # 0 /\ c.required # 0)
    <3>1. p = t
      BY <2>2 DEF Spent
    <3>2. t.hits[s] >= c.required /\ t.add_hits = 0
             => Larger(t.hits[s] + t.add_hits, 0) >= c.required
      BY <1>2, <1>4 DEF Larger
    <3> HIDE DEF p
    <3> QED BY <3>1, <3>2, <2>2, <1>1
  <2> QED BY <2>1, <2>2
<1> HIDE DEF p
<1>7. /\ n \in Evals /\ n.hits = p.hits /\ n.valid = p.valid /\ n.add_hits = p.add_hits
      /\ n.was_reset = p.was_reset
      /\ n.is_true = p.is_true /\ n.is_paused = p.is_paused
      /\ n.measured = p.measured /\ n.from_hits = p.from_hits
  BY <1>3, <1>5 DEF Evals
<1> QED BY <1>1, <1>5, <1>6, <1>7 DEF Evaluated

\* Every type but Measured makes of a valid condition what Judged asks for.
LEMMA TypesJudge ==
  ASSUME defn \in Definitions, NEW s \in Slots, NEW e \in Evals, NEW m,
         Evaluated(s, e, m),
         m.add_hits = IF Cond(s).required # 0 THEN 0 ELSE e.add_hits,
         m.valid => \/ Cond(s).required = 0
                    \/ Larger(m.hits[s] + e.add_hits, 0) >= Cond(s).required
  PROVE  /\ Cond(s).type = "Standard" => Judged(s, e, Standard(m))
         /\ Cond(s).type = "PauseIf" => Judged(s, e, PauseIf(Cond(s), s, m))
         /\ Cond(s).type = "ResetIf" => Judged(s, e, ResetIf(m))
         /\ Cond(s).type = "Trigger" => Judged(s, e, Trigger(m))
         /\ Cond(s).type = "MeasuredIf" => Judged(s, e, MeasuredIf(m))
<1> DEFINE c == Cond(s)
           a == m.is_true /\ m.valid
           b == m.is_primed /\ m.valid
           d == m.can_measure /\ m.valid
<1>0. m \in Evals /\ c.required \in Nat /\ (m.is_paused => e.is_paused)
  BY SlotFacts DEF Evaluated, Conditions
<1>1. a \in BOOLEAN /\ b \in BOOLEAN /\ d \in BOOLEAN
      /\ (a => m.is_true /\ m.valid)
  BY <1>0 DEF Evals
<1>2. /\ Standard(m) = [m EXCEPT !.is_true = a, !.is_primed = b]
      /\ Trigger(m) = [m EXCEPT !.is_true = a]
      /\ MeasuredIf(m) = [m EXCEPT !.is_true = a, !.is_primed = b, !.can_measure = d]
  BY <1>0 DEF Standard, Trigger, MeasuredIf, Evals
<1> DEFINE Like(x) == /\ x.hits = m.hits /\ x.is_paused = m.is_paused
                      /\ x.was_reset = m.was_reset /\ x.add_hits = m.add_hits
                      /\ x.measured = m.measured /\ x.from_hits = m.from_hits
<1>3. Like(Standard(m)) /\ Standard(m).is_true = a
  <2> HIDE DEF a, b, d
  <2> QED BY <1>0, <1>1, <1>2 DEF Evals
<1>4. Like(Trigger(m)) /\ Trigger(m).is_true = a
  <2> HIDE DEF a, b, d
  <2> QED BY <1>0, <1>1, <1>2 DEF Evals
<1>5. Like(MeasuredIf(m)) /\ MeasuredIf(m).is_true = a
  <2> HIDE DEF a, b, d
  <2> QED BY <1>0, <1>1, <1>2 DEF Evals
<1>6. ASSUME NEW x, Like(x), x.is_true = a, c.type \in {"Standard", "Trigger", "MeasuredIf"}
      PROVE  Judged(s, e, x)
  <2> HIDE DEF a
  <2> QED BY <1>0, <1>1, <1>6 DEF Judged, Evaluated, CombiningTypes
<1>7. ASSUME c.type = "PauseIf" PROVE Judged(s, e, PauseIf(c, s, m))
  <2> DEFINE x == PauseIf(c, s, m)
  <2> SUFFICES Judged(s, e, x)
    OBVIOUS
  <2>1. CASE m.valid
    <3>1. x = [m EXCEPT !.is_paused = TRUE, !.is_true = FALSE, !.is_primed = FALSE]
      BY <2>1 DEF PauseIf
    <3> HIDE DEF x
    <3>2. /\ x.is_paused = TRUE /\ x.is_true = FALSE /\ x.hits = m.hits
          /\ x.was_reset = m.was_reset /\ x.add_hits = m.add_hits
          /\ x.measured = m.measured /\ x.from_hits = m.from_hits
      BY <3>1, <1>0 DEF Evals
    <3> QED BY <3>2, <1>0, <1>7 DEF Judged, Evaluated, CombiningTypes, Targets
  <2>2. CASE ~m.valid /\ c.required = 0
    <3>1. x = [m EXCEPT !.hits[s] = 0]
      BY <2>2 DEF PauseIf
    <3> HIDE DEF x
    <3>2. /\ x.is_paused = m.is_paused /\ x.is_true = m.is_true
          /\ x.was_reset = m.was_reset /\ x.add_hits = m.add_hits
          /\ x.measured = m.measured /\ x.from_hits = m.from_hits
      BY <3>1, <1>0 DEF Evals
    <3> QED BY <3>2, <1>0, <1>7 DEF Judged, Evaluated, CombiningTypes, Targets
  <2>3. CASE ~m.valid /\ c.required # 0
    <3>1. x = m
      BY <2>3 DEF PauseIf
    <3> QED BY <3>1, <1>0, <1>7 DEF Judged, Evaluated, CombiningTypes, Targets
  <2> QED BY <2>1, <2>2, <2>3
<1>8. ASSUME c.type = "ResetIf" PROVE Judged(s, e, ResetIf(m))
  <2> DEFINE x == ResetIf(m)
  <2> SUFFICES Judged(s, e, x)
    OBVIOUS
  <2>1. CASE m.valid
    <3>1. x = [m EXCEPT !.was_reset = TRUE, !.is_true = FALSE, !.is_primed = FALSE]
      BY <2>1 DEF ResetIf
    <3> HIDE DEF x
    <3>2. /\ x.is_paused = m.is_paused /\ x.is_true = FALSE /\ x.hits = m.hits
          /\ x.add_hits = m.add_hits
          /\ x.measured = m.measured /\ x.from_hits = m.from_hits
      BY <3>1, <1>0 DEF Evals
    <3> QED BY <3>2, <1>0, <1>8 DEF Judged, Evaluated, CombiningTypes, Targets
  <2>2. CASE ~m.valid
    <3>1. x = m
      BY <2>2 DEF ResetIf
    <3> QED BY <3>1, <1>0, <1>8 DEF Judged, Evaluated, CombiningTypes, Targets
  <2> QED BY <2>1, <2>2
<1> QED BY <1>3, <1>4, <1>5, <1>6, <1>7, <1>8

\* A Measured condition measures its hits when its target is hits, and values when not.
LEMMA MeasuredJudges ==
  ASSUME defn \in Definitions, NEW s \in Slots, NEW holds \in BOOLEAN, NEW e \in Evals,
         Cond(s).type = "Measured"
  PROVE  Judged(s, e, Measured(Cond(s), s, holds, e))
<1> DEFINE c == Cond(s)
           n == Measured(c, s, holds, e)
           m == EvaluateCondition(c, s, holds, e)
           t == Tally(c, s, holds, e)
<1> SUFFICES Judged(s, e, n)
  OBVIOUS
<1>0. c.required \in Nat
  BY SlotFacts DEF Conditions
<1>1. CASE c.required = 0
  <2> DEFINE x == Standard(m)
             a == m.is_true /\ m.valid
             b == m.is_primed /\ m.valid
             one == IF holds THEN 1 ELSE 0
             q == [x EXCEPT !.measured = one]
  <2>1. Evaluated(s, e, m) /\ m.add_hits = e.add_hits /\ m \in Evals
    BY <1>1, EvaluateConditionJudges DEF Evaluated
  <2>2. n = [q EXCEPT !.from_hits = FALSE]
    BY <1>1 DEF Measured
  <2>3. one \in Int
    OBVIOUS
  <2>4. x = [m EXCEPT !.is_true = a, !.is_primed = b]
    BY DEF Standard
  <2> HIDE DEF m, n, x, one
  <2>5. a \in BOOLEAN /\ b \in BOOLEAN /\ (a => m.is_true)
    BY <2>1 DEF Evals
  <2> HIDE DEF a, b
  <2>6. x \in Evals
    BY <2>1, TypesAlike DEF Alike, x
  <2>9. /\ x.is_true = a /\ x.is_paused = m.is_paused
        /\ x.was_reset = m.was_reset /\ x.add_hits = m.add_hits
    BY <2>1, <2>4 DEF Evals
  <2>7. /\ q \in Evals /\ q.is_true = x.is_true /\ q.is_paused = x.is_paused
        /\ q.was_reset = x.was_reset /\ q.add_hits = x.add_hits
    BY <2>3, <2>6 DEF Evals
  <2> HIDE DEF q
  <2>8. /\ n.is_true = q.is_true /\ n.is_paused = q.is_paused
        /\ n.was_reset = q.was_reset /\ n.add_hits = q.add_hits
    BY <2>2, <2>7 DEF Evals
  <2> QED BY <2>1, <2>5, <2>6, <2>7, <2>8, <2>9, <1>1 DEF Judged, Evaluated, CombiningTypes, Targets
<1>2. CASE c.required # 0
  <2> DEFINE total == TotalHits(c, s, t)
             a == t.is_true /\ total >= c.required
             b == t.is_primed /\ total >= c.required
             q == [t EXCEPT !.is_true = a, !.is_primed = b]
             o == [q EXCEPT !.measured = total]
             r == [o EXCEPT !.add_hits = 0]
  <2>1. Evaluated(s, e, t) /\ t.add_hits = e.add_hits /\ t \in Evals
    BY TallyJudges DEF Evaluated
  <2>2. t.hits[s] \in Nat /\ t.add_hits \in Int
    BY <2>1 DEF Evals, Capped
  <2>3. total = Larger(t.hits[s] + e.add_hits, 0) /\ total \in Int
    BY <1>2, <2>1, <2>2 DEF TotalHits, Larger
  <2>4. n = [r EXCEPT !.from_hits = TRUE, !.reset_next = FALSE]
    BY <1>2, <2>1 DEF Measured, MeasuredHits, Evals
  <2>5. a \in BOOLEAN /\ b \in BOOLEAN /\ (a => t.is_true /\ total >= c.required)
    BY <2>1 DEF Evals
  <2> HIDE DEF t, total, a, b, n
  <2>6. q \in Evals
    BY <2>1, <2>5 DEF Evals
  <2>10. /\ q.is_true = a /\ q.is_paused = t.is_paused
         /\ q.was_reset = t.was_reset /\ q.hits = t.hits
    BY <2>1 DEF Evals
  <2> HIDE DEF q
  <2>7. /\ o \in Evals /\ o.is_true = q.is_true /\ o.is_paused = q.is_paused
        /\ o.was_reset = q.was_reset /\ o.hits = q.hits /\ o.measured = total
    BY <2>3, <2>6 DEF Evals
  <2> HIDE DEF o
  <2>8. /\ r \in Evals /\ r.is_true = o.is_true /\ r.is_paused = o.is_paused
        /\ r.was_reset = o.was_reset /\ r.hits = o.hits /\ r.measured = o.measured
        /\ r.add_hits = 0
    BY <2>7 DEF Evals
  <2> HIDE DEF r
  <2>9. /\ n.is_true = r.is_true /\ n.is_paused = r.is_paused
        /\ n.was_reset = r.was_reset /\ n.hits = r.hits /\ n.measured = r.measured
        /\ n.add_hits = 0 /\ n.from_hits = TRUE
    BY <2>4, <2>8 DEF Evals
  <2> QED BY <2>1, <2>3, <2>5, <2>6, <2>7, <2>8, <2>9, <2>10, <1>2
          DEF Judged, Evaluated, CombiningTypes, Targets
<1> QED BY <1>1, <1>2

\* A combining condition decides nothing; AddHits and SubHits add to the chain.
LEMMA CombiningJudges ==
  ASSUME defn \in Definitions, NEW s \in Slots, NEW holds \in BOOLEAN, NEW e \in Evals,
         Cond(s).type \in CombiningTypes
  PROVE  Judged(s, e, Combining(Cond(s), s, Tally(Cond(s), s, holds, e)))
<1> DEFINE c == Cond(s)
           t == Tally(c, s, holds, e)
           n == Combining(c, s, t)
<1> SUFFICES Judged(s, e, n)
  OBVIOUS
<1>1. Evaluated(s, e, t) /\ t.add_hits = e.add_hits /\ t \in Evals
  BY TallyJudges DEF Evaluated
<1>2. t.hits[s] \in Nat /\ t.add_hits \in Int
  BY <1>1 DEF Evals, Capped
<1> HIDE DEF t, n
<1>3. /\ n.is_true = t.is_true /\ n.is_paused = t.is_paused /\ n.was_reset = t.was_reset
      /\ n.measured = t.measured /\ n.from_hits = t.from_hits /\ n.hits = t.hits
      /\ n.add_hits = t.add_hits + Added(t.hits, s)
  <2>1. CASE c.type = "AddHits"
    <3>1. n = [t EXCEPT !.add_hits = t.add_hits + t.hits[s], !.reset_next = FALSE]
      BY <2>1, <1>1 DEF Combining, Evals, n
    <3>2. Added(t.hits, s) = t.hits[s] /\ t.add_hits + t.hits[s] \in Int
      BY <2>1, <1>2 DEF Added
    <3> QED BY <3>1, <3>2, <1>1 DEF Evals
  <2>2. CASE c.type = "SubHits"
    <3>1. n = [t EXCEPT !.add_hits = t.add_hits - t.hits[s], !.reset_next = FALSE]
      BY <2>2, <1>1 DEF Combining, Evals, n
    <3>2. Added(t.hits, s) = -t.hits[s]
      BY <2>2 DEF Added
    <3>3. t.add_hits - t.hits[s] = t.add_hits + Added(t.hits, s) /\ t.add_hits - t.hits[s] \in Int
      BY <3>2, <1>2
    <3> QED BY <3>1, <3>3, <1>1 DEF Evals
  <2>3. CASE c.type \in {"ResetNextIf", "AndNext", "OrNext"}
    <3>1. \/ n = [t EXCEPT !.reset_next = t.valid]
          \/ n = [t EXCEPT !.and_next = t.valid]
          \/ n = [t EXCEPT !.or_next = t.valid]
      BY <2>3 DEF Combining, n
    <3>2. Added(t.hits, s) = 0
      BY <2>3 DEF Added
    <3>3. /\ n.is_true = t.is_true /\ n.is_paused = t.is_paused /\ n.was_reset = t.was_reset
          /\ n.measured = t.measured /\ n.from_hits = t.from_hits /\ n.hits = t.hits
          /\ n.add_hits = t.add_hits
      BY <3>1, <1>1 DEF Evals
    <3> QED BY <3>2, <3>3, <1>2
  <2> QED BY <2>1, <2>2, <2>3 DEF CombiningTypes
<1> QED BY <1>1, <1>3 DEF Judged, Evaluated, CombiningTypes, Targets

\* One evaluation of any condition decides as Judged asks for.
LEMMA EvaluateSlotJudges ==
  ASSUME defn \in Definitions, NEW s \in Slots, NEW holds \in BOOLEAN, NEW e \in Evals
  PROVE  Judged(s, e, EvaluateSlot(Cond(s), s, holds, e))
<1> DEFINE c == Cond(s)
           m == EvaluateCondition(c, s, holds, e)
           t == Tally(c, s, holds, e)
           n == EvaluateSlot(c, s, holds, e)
<1>1. c.type \in ConditionTypes
  BY SlotFacts DEF Conditions
<1>2. /\ c.type = "Standard" => Judged(s, e, Standard(m))
      /\ c.type = "PauseIf" => Judged(s, e, PauseIf(c, s, m))
      /\ c.type = "ResetIf" => Judged(s, e, ResetIf(m))
      /\ c.type = "Trigger" => Judged(s, e, Trigger(m))
      /\ c.type = "MeasuredIf" => Judged(s, e, MeasuredIf(m))
  <2>1. /\ Evaluated(s, e, m)
        /\ m.add_hits = IF c.required # 0 THEN 0 ELSE e.add_hits
        /\ m.valid => c.required = 0 \/ Larger(m.hits[s] + e.add_hits, 0) >= c.required
    BY EvaluateConditionJudges
  <2> HIDE DEF m
  <2> QED BY <2>1, TypesJudge
<1>3. c.type = "Measured" => Judged(s, e, Measured(c, s, holds, e))
  BY MeasuredJudges
<1>4. c.type \in CombiningTypes => Judged(s, e, Combining(c, s, t))
  BY CombiningJudges
<1>5. /\ c.type = "Standard" => n = Standard(m)
      /\ c.type = "PauseIf" => n = PauseIf(c, s, m)
      /\ c.type = "ResetIf" => n = ResetIf(m)
      /\ c.type = "Trigger" => n = Trigger(m)
      /\ c.type = "Measured" => n = Measured(c, s, holds, e)
      /\ c.type = "MeasuredIf" => n = MeasuredIf(m)
      /\ c.type \in CombiningTypes => n = Combining(c, s, t)
  <2> HIDE DEF c, m, t
  <2> QED BY DEF EvaluateSlot, CombiningTypes, c, m, t
<1> HIDE DEF m, t, n
<1>6. Judged(s, e, n)
  BY <1>1, <1>2, <1>3, <1>4, <1>5 DEF ConditionTypes
<1> QED BY <1>6 DEF n

-----------------------------------------------------------------------------
(* Chains, and the totals counted over them.                                *)

\* A chain ends at the next condition that is not combining.
LEMMA ChainFacts ==
  ASSUME NEW group \in Seq(Conditions), NEW i \in DOMAIN group
  PROVE  /\ ChainEnd(group, i) # 0 =>
              /\ ChainEnd(group, i) \in i .. Len(group)
              /\ Classify(group[ChainEnd(group, i)]) # "combining"
              /\ \A j \in i .. Len(group) :
                   Classify(group[j]) # "combining" => ChainEnd(group, i) <= j
         /\ ChainEnd(group, i) = 0 =>
              \A j \in i .. Len(group) : Classify(group[j]) = "combining"
<1> DEFINE ends == {j \in i .. Len(group) : Classify(group[j]) # "combining"}
           end == ChainEnd(group, i)
<1>1. i \in Nat \ {0} /\ Len(group) \in Nat /\ i <= Len(group)
  OBVIOUS
<1>2. end = IF ends = {} THEN 0 ELSE CHOOSE j \in ends : \A k \in ends : j <= k
  BY DEF ChainEnd
<1>3. ASSUME ends # {} PROVE end \in ends /\ \A k \in ends : end <= k
  <2>1. ends \in SUBSET Nat
    BY <1>1
  <2>2. \E j \in ends : \A k \in ends : j <= k
    <3> HIDE DEF ends
    <3> QED BY <2>1, <1>3, Least
  <2> HIDE DEF ends, end
  <2> QED BY <2>2, <1>2, <1>3
<1>4. \A j \in ends : j # 0
  BY <1>1
<1> SUFFICES /\ end # 0 => /\ end \in i .. Len(group)
                           /\ Classify(group[end]) # "combining"
                           /\ \A j \in i .. Len(group) :
                                Classify(group[j]) # "combining" => end <= j
             /\ end = 0 => \A j \in i .. Len(group) : Classify(group[j]) = "combining"
  OBVIOUS
<1>5. CASE ends = {}
  <2>1. end = 0
    BY <1>2, <1>5
  <2> QED BY <2>1, <1>5
<1>6. CASE ends # {}
  <2>1. end \in ends /\ (\A k \in ends : end <= k) /\ end # 0
    BY <1>3, <1>4, <1>6
  <2> HIDE DEF end
  <2> QED BY <2>1
<1> QED BY <1>5, <1>6

\* The members of a chain share its end, and its class.
LEMMA ChainStep ==
  ASSUME NEW group \in Seq(Conditions), NEW k \in 1 .. (Len(group) - 1),
         Classify(group[k]) = "combining"
  PROVE  ChainEnd(group, k) = ChainEnd(group, k + 1)
<1> DEFINE a == ChainEnd(group, k)
           b == ChainEnd(group, k + 1)
<1>1. k \in DOMAIN group /\ k + 1 \in DOMAIN group /\ k \in Nat /\ Len(group) \in Nat
  OBVIOUS
<1>2. /\ a # 0 => /\ a \in k .. Len(group) /\ Classify(group[a]) # "combining"
                  /\ \A j \in k .. Len(group) : Classify(group[j]) # "combining" => a <= j
      /\ a = 0 => \A j \in k .. Len(group) : Classify(group[j]) = "combining"
  BY <1>1, ChainFacts
<1>3. /\ b # 0 => /\ b \in (k + 1) .. Len(group) /\ Classify(group[b]) # "combining"
                  /\ \A j \in (k + 1) .. Len(group) :
                       Classify(group[j]) # "combining" => b <= j
      /\ b = 0 => \A j \in (k + 1) .. Len(group) : Classify(group[j]) = "combining"
  BY <1>1, ChainFacts
<1> SUFFICES a = b
  OBVIOUS
<1> HIDE DEF a, b
<1>4. CASE a = 0
  <2>1. b # 0 => b \in k .. Len(group)
    BY <1>1, <1>3
  <2> QED BY <2>1, <1>2, <1>3, <1>4
<1>5. CASE a # 0
  <2>1. a # k /\ a \in (k + 1) .. Len(group)
    BY <1>1, <1>2, <1>5
  <2>2. b # 0 /\ b <= a
    BY <2>1, <1>2, <1>3, <1>5
  <2>3. b \in k .. Len(group)
    BY <2>2, <1>1, <1>3
  <2>4. a <= b
    BY <2>2, <2>3, <1>2, <1>3, <1>5
  <2> QED BY <2>2, <2>3, <2>4, <2>1
<1> QED BY <1>4, <1>5

\* Slot k of a group ends a chain: what comes before it does not feed what follows.
LEMMA ChainBreaks ==
  ASSUME NEW group \in Seq(Conditions), NEW k \in DOMAIN group,
         Classify(group[k]) # "combining", NEW j \in 1 .. k
  PROVE  ChainEnd(group, j) # 0 /\ ChainEnd(group, j) <= k
<1>1. j \in DOMAIN group /\ k \in j .. Len(group)
  OBVIOUS
<1> QED BY <1>1, ChainFacts

\* The sums of the shares of the first conditions of the group in the total of s.
SumRun(sums, counts, s) ==
  /\ sums \in [0 .. Len(defn.groups[s[1]]) -> Int]
  /\ sums[0] = 0
  /\ \A k \in 1 .. Len(defn.groups[s[1]]) :
       sums[k] = sums[k - 1] + Share(counts, <<s[1], k>>, s)
  /\ Total(counts, s) = Larger(counts[s] + sums[Len(defn.groups[s[1]])], 0)

\* The running sums of the shares of the conditions of the group of s.
Sums(counts, s) == CHOOSE sums : SumRun(sums, counts, s)

\* What a condition adds to a total is a number.
LEMMA ShareFacts ==
  ASSUME defn \in Definitions, NEW counts \in [Slots -> Nat], NEW t \in Slots, NEW s
  PROVE  Share(counts, t, s) \in Int
BY DEF Share

\* The sum of the shares of a group, condition by condition.
LEMMA SumsFacts ==
  ASSUME defn \in Definitions, NEW s \in Slots, NEW counts \in [Slots -> Nat]
  PROVE  SumRun(Sums(counts, s), counts, s)
<1> DEFINE g == s[1]
           group == defn.groups[g]
           n == Len(group)
           Op(x, i) == x + Share(counts, <<g, i>>, s)
           ids == [i \in DOMAIN group |-> i]
           P(f) == f = [r \in SUBSET (DOMAIN ids) |->
                          IF r = {} THEN 0
                          ELSE f[r \ {Max(r)}] + Share(counts, <<g, ids[Max(r)]>>, s)]
           it == CHOOSE f : P(f)
           sum == FoldLeftDomain(LAMBDA x, i : x + Share(counts, <<s[1], i>>, s),
                                 0, defn.groups[s[1]])
<1>0. g \in DOMAIN defn.groups
  BY SlotFacts
<1>1. group \in Seq(Conditions) /\ n \in Nat /\ DOMAIN group = 1 .. n
  BY <1>0, DefinitionFacts
<1>2. DOMAIN ids = 1 .. n /\ \A i \in 1 .. n : ids[i] = i
  BY <1>1
<1>3. sum = it[1 .. n]
  <2> HIDE DEF n
  <2> QED BY <1>2 DEF FoldLeftDomain, FoldLeft, MapThenFoldSet
<1>4. ASSUME NEW x \in Int, NEW i \in 1 .. n PROVE Op(x, i) \in Int
  <2>1. <<g, i>> \in Slots
    BY <1>0, <1>1, SlotFacts
  <2>2. Share(counts, <<g, i>>, s) \in Int
    BY <2>1, ShareFacts
  <2> QED BY <2>2
<1>15. Total(counts, s) = Larger(counts[s] + sum, 0)
  BY DEF Total
<1> DEFINE F == [p \in (1 .. n) \X Int |-> Op(p[2], p[1])]
<1> HIDE DEF group, Op, n, g, sum
<1>5. F \in [(1 .. n) \X Int -> Int]
  BY <1>4
<1>6. ASSUME NEW i \in 1 .. n, NEW x \in Int PROVE F[<<i, x>>] = Op(x, i)
  OBVIOUS
<1> HIDE DEF F
<1>7. PICK f : FoldSolution(f, n, Int, 0, F)
  <2>1. n \in Nat /\ 0 \in Int
    BY <1>1
  <2> QED BY <2>1, <1>5, FoldExists
<1>8. ASSUME NEW r \in SUBSET (1 .. n), r # {}
      PROVE  Max(r) \in 1 .. n /\ f[r \ {Max(r)}] \in Int
  <2>1. Max(r) \in r
    BY <1>1, <1>8, MaxFacts
  <2> QED BY <2>1, <1>7 DEF FoldSolution
<1>9. P(f)
  <2>1. ASSUME NEW r \in SUBSET (1 .. n)
        PROVE  f[r] = IF r = {} THEN 0 ELSE Op(f[r \ {Max(r)}], ids[Max(r)])
    BY <1>2, <1>6, <1>7, <1>8 DEF FoldSolution
  <2>2. f = [r \in SUBSET (1 .. n) |->
               IF r = {} THEN 0 ELSE Op(f[r \ {Max(r)}], ids[Max(r)])]
    BY <2>1, <1>7 DEF FoldSolution
  <2> QED BY <2>2, <1>2 DEF Op
<1>10. P(it)
  BY <1>9
<1>11. \A r \in SUBSET (1 .. n) :
         it[r] = IF r = {} THEN 0 ELSE Op(it[r \ {Max(r)}], ids[Max(r)])
  BY <1>10, <1>2 DEF Op
<1> HIDE DEF it, ids
<1>12. it[{}] = 0
  BY <1>11
<1>13. ASSUME NEW k \in 1 .. n, it[1 .. (k - 1)] \in Int
       PROVE  it[1 .. k] = F[<<k, it[1 .. (k - 1)]>>]
  <2>1. 1 .. k # {} /\ Max(1 .. k) = k /\ (1 .. k) \ {k} = 1 .. (k - 1)
    BY <1>1, k \in Nat \ {0}, MaxOfTurns
  <2>2. 1 .. k \in SUBSET (1 .. n)
    BY <1>1
  <2>3. it[1 .. k] = Op(it[1 .. (k - 1)], ids[k])
    BY <2>1, <2>2, <1>11
  <2> QED BY <2>3, <1>2, <1>6, <1>13
<1>14. PICK h : FoldRunTo(h, n, Int, 0, F, it[1 .. n])
  <2>1. n \in Nat /\ 0 \in Int
    BY <1>1
  <2>2. \A k \in 1 .. n : it[1 .. (k - 1)] \in Int
                           => it[1 .. k] = F[<<k, it[1 .. (k - 1)]>>]
    BY <1>13
  <2> QED BY <2>1, <2>2, <1>5, <1>12, FoldRuns
<1>16. /\ h \in [0 .. n -> Int] /\ h[0] = 0 /\ h[n] = sum
       /\ \A k \in 1 .. n : h[k] = Op(h[k - 1], k)
  <2>1. \A k \in 1 .. n : k - 1 \in 0 .. n
    BY <1>1
  <2> QED BY <2>1, <1>3, <1>6, <1>14 DEF FoldRunTo
<1>17. SumRun(h, counts, s)
  BY <1>15, <1>16 DEF SumRun, group, n, g, Op
<1> QED BY <1>17 DEF Sums

\* Equal shares make equal sums.
LEMMA SumsAlike ==
  ASSUME defn \in Definitions,
         NEW s \in Slots, NEW counts \in [Slots -> Nat],
         NEW u \in Slots, NEW others \in [Slots -> Nat], u[1] = s[1],
         NEW m \in 0 .. Len(defn.groups[s[1]]),
         \A j \in 1 .. m : Share(counts, <<s[1], j>>, s) = Share(others, <<s[1], j>>, u)
  PROVE  Sums(counts, s)[m] = Sums(others, u)[m]
<1> DEFINE a == Sums(counts, s)
           b == Sums(others, u)
           n == Len(defn.groups[s[1]])
           S == {k \in Nat : k <= m => a[k] = b[k]}
<1>0. n \in Nat
  BY SlotFacts, DefinitionFacts
<1>1. SumRun(a, counts, s) /\ SumRun(b, others, u)
  BY SumsFacts
<1>2. /\ a[0] = 0 /\ b[0] = 0
      /\ \A k \in 1 .. n : a[k] = a[k - 1] + Share(counts, <<s[1], k>>, s)
      /\ \A k \in 1 .. n : b[k] = b[k - 1] + Share(others, <<s[1], k>>, u)
  BY <1>1 DEF SumRun
<1> SUFFICES a[m] = b[m]
  OBVIOUS
<1> HIDE DEF a, b, n
<1>3. 0 \in S
  BY <1>2
<1>4. ASSUME NEW k \in Nat, k \in S PROVE k + 1 \in S
  <2> SUFFICES ASSUME k + 1 <= m PROVE a[k + 1] = b[k + 1]
    OBVIOUS
  <2>1. k + 1 \in 1 .. n /\ k + 1 \in 1 .. m /\ (k + 1) - 1 = k /\ k <= m
    BY <1>0 DEF n
  <2>2. a[k] = b[k]
    BY <2>1, <1>4
  <2> QED BY <2>1, <2>2, <1>2
<1>5. Nat \subseteq S
  <2> HIDE DEF S
  <2> QED BY <1>3, <1>4, Induction
<1> QED BY <1>0, <1>5 DEF n

\* Conditions without a share do not change the sum.
LEMMA SumsIdle ==
  ASSUME defn \in Definitions,
         NEW s \in Slots, NEW counts \in [Slots -> Nat],
         NEW m \in 0 .. Len(defn.groups[s[1]]), NEW l \in 0 .. m,
         \A j \in (l + 1) .. m : Share(counts, <<s[1], j>>, s) = 0
  PROVE  Sums(counts, s)[m] = Sums(counts, s)[l]
<1> DEFINE a == Sums(counts, s)
           n == Len(defn.groups[s[1]])
           S == {k \in Nat : k \in l .. m => a[k] = a[l]}
<1>0. n \in Nat
  BY SlotFacts, DefinitionFacts
<1>1. SumRun(a, counts, s)
  BY SumsFacts
<1>2. /\ a \in [0 .. n -> Int]
      /\ \A k \in 1 .. n : a[k] = a[k - 1] + Share(counts, <<s[1], k>>, s)
  BY <1>1 DEF SumRun
<1> SUFFICES a[m] = a[l]
  OBVIOUS
<1> HIDE DEF a, n
<1>3. 0 \in S
  BY <1>0 DEF n
<1>4. ASSUME NEW k \in Nat, k \in S PROVE k + 1 \in S
  <2> SUFFICES ASSUME k + 1 \in l .. m, k + 1 # l PROVE a[k + 1] = a[l]
    OBVIOUS
  <2>1. k + 1 \in 1 .. n /\ k + 1 \in (l + 1) .. m /\ (k + 1) - 1 = k /\ k \in l .. m
        /\ k \in 0 .. n
    BY <1>0 DEF n
  <2>2. a[k] = a[l] /\ a[k] \in Int
    BY <2>1, <1>2, <1>4
  <2>3. Share(counts, <<s[1], k + 1>>, s) = 0
    BY <2>1
  <2> QED BY <2>1, <2>2, <2>3, <1>2
<1>5. Nat \subseteq S
  <2> HIDE DEF S
  <2> QED BY <1>3, <1>4, Induction
<1> QED BY <1>0, <1>5 DEF n

\* The total of s takes the hits of s and of what feeds s, and no others.
LEMMA TotalFacts ==
  ASSUME defn \in Definitions, NEW s \in Slots, NEW counts \in [Slots -> Nat]
  PROVE  Total(counts, s) = Larger(counts[s] + Sums(counts, s)[s[2] - 1], 0)
<1> DEFINE n == Len(defn.groups[s[1]])
           l == s[2] - 1
<1>1. n \in Nat /\ s[2] \in 1 .. n
  BY SlotFacts, DefinitionFacts
<1>2. n \in 0 .. n /\ l \in 0 .. n
  BY <1>1
<1>3. \A j \in (l + 1) .. n : Share(counts, <<s[1], j>>, s) = 0
  <2> SUFFICES ASSUME NEW j \in (l + 1) .. n PROVE ~Feeds(<<s[1], j>>, s)
    BY DEF Share
  <2>1. ~(j < s[2])
    BY <1>1
  <2> QED BY <2>1 DEF Feeds
<1>4. Sums(counts, s)[n] = Sums(counts, s)[l]
  <2> HIDE DEF l, n
  <2> QED BY <1>2, <1>3, SumsIdle DEF n
<1>5. SumRun(Sums(counts, s), counts, s)
  BY SumsFacts
<1> QED BY <1>4, <1>5 DEF SumRun

\* A total depends on the hits of the condition and of its chain only.
LEMMA TotalAlike ==
  ASSUME defn \in Definitions, NEW s \in Slots,
         NEW counts \in [Slots -> Nat], NEW others \in [Slots -> Nat],
         others[s] = counts[s],
         \A t \in Slots : Feeds(t, s) => others[t] = counts[t]
  PROVE  Total(others, s) = Total(counts, s)
<1> DEFINE n == Len(defn.groups[s[1]])
           a == Sums(counts, s)
           b == Sums(others, s)
<1>0. s[1] \in DOMAIN defn.groups
  BY SlotFacts
<1>1. n \in Nat /\ n \in 0 .. n /\ DOMAIN defn.groups[s[1]] = 1 .. n
  BY <1>0, DefinitionFacts
<1>2. ASSUME NEW j \in 1 .. n
      PROVE  Share(counts, <<s[1], j>>, s) = Share(others, <<s[1], j>>, s)
  <2>1. <<s[1], j>> \in Slots
    BY <1>0, <1>1, SlotFacts
  <2>2. Feeds(<<s[1], j>>, s) => others[<<s[1], j>>] = counts[<<s[1], j>>]
    BY <2>1
  <2> QED BY <2>2 DEF Share
<1>3. a[n] = b[n]
  <2> HIDE DEF n
  <2> QED BY <1>1, <1>2, SumsAlike DEF n
<1>4. SumRun(a, counts, s) /\ SumRun(b, others, s)
  BY SumsFacts
<1> QED BY <1>3, <1>4 DEF SumRun

\* No hits were left behind by a condition without a target among those evaluated up
\* to the k-th of a class.
NothingSpilled(g, class, k) ==
  \A t \in Slots :
    LET group == defn.groups[g]
        end   == ChainEnd(group, t[2])
    IN ~(/\ t[1] = g /\ Cond(t).type \in {"AddHits", "SubHits"}
         /\ end # 0 /\ group[end].required = 0
         /\ \/ Rank[ClassOf(group, end)] < Rank[class]
            \/ ClassOf(group, end) = class /\ end <= k)

\* The classes of conditions, in order.
Classes == {"pause", "reset", "hittarget", "measured", "other"}

\* Before a condition that gets no stray hits, no chain of its class ends without a target.
LEMMA SpilledFacts ==
  ASSUME defn \in Definitions, NEW s \in Slots, ~Spilled(s)
  PROVE  NothingSpilled(s[1], ClassOf(defn.groups[s[1]], s[2]), s[2] - 1)
<1> DEFINE group == defn.groups[s[1]]
<1> SUFFICES ASSUME NEW t \in Slots, t[1] = s[1], Cond(t).type \in {"AddHits", "SubHits"},
                    ChainEnd(group, t[2]) # 0, group[ChainEnd(group, t[2])].required = 0,
                    \/ Rank[ClassOf(group, ChainEnd(group, t[2]))] < Rank[ClassOf(group, s[2])]
                    \/ /\ ClassOf(group, ChainEnd(group, t[2])) = ClassOf(group, s[2])
                       /\ ChainEnd(group, t[2]) <= s[2] - 1
             PROVE  FALSE
  BY DEF NothingSpilled
<1> DEFINE end == ChainEnd(group, t[2])
<1>1. s[1] \in DOMAIN defn.groups /\ s[2] \in DOMAIN group /\ t[2] \in DOMAIN group
      /\ group \in Seq(Conditions)
  BY SlotFacts, DefinitionFacts
<1>2. end \in Nat /\ s[2] \in Nat
  <2>1. end \in t[2] .. Len(group) /\ t[2] \in Nat /\ Len(group) \in Nat
    BY <1>1, ChainFacts
  <2> QED BY <2>1, <1>1
<1>3. EvaluatedBefore(group, end, s[2])
  BY <1>2 DEF EvaluatedBefore
<1> QED BY <1>3 DEF Spilled

\* Nor did one in a class that was evaluated before.
LEMMA NothingSpilledEarlier ==
  ASSUME defn \in Definitions, NEW g \in DOMAIN defn.groups, NEW class \in Classes
  PROVE  /\ \A k \in Nat : NothingSpilled(g, class, k + 1) => NothingSpilled(g, class, k)
         /\ \A c \in Classes : \A k \in Nat :
              NothingSpilled(g, class, k) /\ Rank[c] < Rank[class]
                => NothingSpilled(g, c, Len(defn.groups[g]))
<1> DEFINE group == defn.groups[g]
<1>1. group \in Seq(Conditions)
  BY DefinitionFacts
<1>2. ASSUME NEW t \in Slots, t[1] = g, ChainEnd(group, t[2]) # 0
      PROVE  /\ ChainEnd(group, t[2]) \in Nat
             /\ Rank[ClassOf(group, ChainEnd(group, t[2]))] \in Nat
  <2>1. t[2] \in DOMAIN group
    BY <1>2, SlotFacts
  <2>2. ChainEnd(group, t[2]) \in t[2] .. Len(group) /\ t[2] \in Nat \ {0} /\ Len(group) \in Nat
    BY <1>1, <1>2, <2>1, ChainFacts
  <2>3. ClassOf(group, ChainEnd(group, t[2])) \in Classes
    BY <1>1, <2>2, ClassCases DEF Classes
  <2> QED BY <2>2, <2>3 DEF Rank, Classes
<1>3. \A c \in Classes : Rank[c] \in Nat
  BY DEF Rank, Classes
<1>4. ASSUME NEW k \in Nat, NothingSpilled(g, class, k + 1) PROVE NothingSpilled(g, class, k)
  <2>1. \A j \in Nat : j <= k => j <= k + 1
    OBVIOUS
  <2> QED BY <2>1, <1>2, <1>4 DEF NothingSpilled
<1>5. ASSUME NEW c \in Classes, NEW k \in Nat, NothingSpilled(g, class, k), Rank[c] < Rank[class]
      PROVE  NothingSpilled(g, c, Len(group))
  <2>1. \A i \in Nat : i < Rank[c] => i < Rank[class]
    BY <1>3, <1>5
  <2> QED BY <2>1, <1>2, <1>5 DEF NothingSpilled
<1> QED BY <1>4, <1>5

\* After k turns of a class the accumulator holds the hits added so far to the next
\* condition, if that is of the class.
Accumulates(g, class, k, x) ==
  LET group == defn.groups[g]
  IN /\ k < Len(group) /\ ClassOf(group, k + 1) = class /\ ChainEnd(group, k + 1) # 0 =>
          x.add_hits = Sums(x.hits, <<g, ChainEnd(group, k + 1)>>)[k]
     /\ /\ k < Len(group) => ClassOf(group, k + 1) # class
        /\ k = Len(group) => class # "other"
        => x.add_hits = 0

\* Once a chain ended, nothing has been added to the next.
LEMMA NothingAdded ==
  ASSUME defn \in Definitions, NEW g \in DOMAIN defn.groups,
         NEW k \in 0 .. Len(defn.groups[g]), NEW counts \in [Slots -> Nat],
         k # 0 => Classify(defn.groups[g][k]) # "combining",
         k < Len(defn.groups[g]), ChainEnd(defn.groups[g], k + 1) # 0
  PROVE  Sums(counts, <<g, ChainEnd(defn.groups[g], k + 1)>>)[k] = 0
<1> DEFINE group == defn.groups[g]
           end == ChainEnd(group, k + 1)
           s == <<g, end>>
           n == Len(group)
<1>1. group \in Seq(Conditions) /\ n \in Nat /\ DOMAIN group = 1 .. n
  BY DefinitionFacts
<1>2. k + 1 \in DOMAIN group /\ k \in Nat
  BY <1>1
<1>3. end \in (k + 1) .. n
  BY <1>1, <1>2, ChainFacts
<1>4. s \in Slots /\ s[1] = g /\ s[2] = end
  BY <1>1, <1>2, <1>3, SlotFacts
<1>5. ASSUME NEW j \in 1 .. k PROVE Share(counts, <<g, j>>, s) = 0
  <2>1. k \in DOMAIN group /\ k # 0
    BY <1>1, <1>2
  <2>2. ChainEnd(group, j) <= k
    BY <1>1, <2>1, ChainBreaks
  <2>3. ChainEnd(group, j) # end
    BY <2>2, <1>1, <1>2, <1>3
  <2>4. ~Feeds(<<g, j>>, s)
    BY <2>3, <1>4 DEF Feeds
  <2> QED BY <2>4 DEF Share
<1>6. SumRun(Sums(counts, s), counts, s)
  BY <1>4, SumsFacts
<1>7. Sums(counts, s)[k] = Sums(counts, s)[0]
  <2>1. k \in 0 .. Len(defn.groups[s[1]]) /\ 0 \in 0 .. k
    BY <1>2, <1>4
  <2>2. \A j \in (0 + 1) .. k : Share(counts, <<s[1], j>>, s) = 0
    BY <1>4, <1>5
  <2> HIDE DEF s
  <2> QED BY <2>1, <2>2, <1>4, SumsIdle
<1> QED BY <1>6, <1>7 DEF SumRun

\* A turn leaves the state alone, or evaluates the condition.
Passed(g, class, k, x, n) ==
  /\ n = x
  /\ ClassOf(defn.groups[g], k) # class \/ (class = "pause" /\ x.is_paused)

\* The turn of condition k, which is of the class and is evaluated.
Taken(g, class, k, x, n) ==
  /\ ClassOf(defn.groups[g], k) = class
  /\ Turned(<<g, k>>, x, n)
  /\ Judged(<<g, k>>, x, n)

\* A turn of a class passes a condition over or evaluates it.
LEMMA MemberFacts ==
  ASSUME defn \in Definitions, NEW g \in DOMAIN defn.groups, NEW class, NEW truth,
         NEW k \in DOMAIN defn.groups[g], NEW x \in Sound
  PROVE  \/ Passed(g, class, k, x, EvaluateMember(g, defn.groups[g], class, truth, x, k))
         \/ Taken(g, class, k, x, EvaluateMember(g, defn.groups[g], class, truth, x, k))
<1> DEFINE group == defn.groups[g]
           s == <<g, k>>
           holds == s \in truth
           n == EvaluateMember(g, group, class, truth, x, k)
<1>1. s \in Slots /\ Cond(s) = group[k] /\ x \in Evals /\ Known(x) /\ holds \in BOOLEAN
  BY SlotFacts DEF Sound
<1>2. CASE ClassOf(group, k) # class \/ (class = "pause" /\ x.is_paused)
  BY <1>2 DEF EvaluateMember, Passed
<1>3. CASE ~(ClassOf(group, k) # class \/ (class = "pause" /\ x.is_paused))
  <2>1. n = EvaluateSlot(Cond(s), s, holds, x)
    BY <1>1, <1>3 DEF EvaluateMember
  <2> HIDE DEF s, holds, n
  <2>2. Turned(s, x, n) /\ Judged(s, x, n)
    BY <2>1, <1>1, EvaluateSlotTurns, EvaluateSlotJudges DEF SlotTurned
  <2> QED BY <2>2, <1>3 DEF Taken, s, n
<1> QED BY <1>2, <1>3

\* A combining condition adds its share to the accumulator.
LEMMA CombiningAccumulates ==
  ASSUME defn \in Definitions, NEW g \in DOMAIN defn.groups, NEW class,
         NEW k \in DOMAIN defn.groups[g], NEW x \in Sound, NEW n \in Sound,
         Taken(g, class, k, x, n), Cond(<<g, k>>).type \in CombiningTypes,
         Accumulates(g, class, k - 1, x)
  PROVE  Accumulates(g, class, k, n)
<1> DEFINE group == defn.groups[g]
           end == ChainEnd(group, k)
           t == <<g, k>>
           s == <<g, end>>
<1>1. group \in Seq(Conditions) /\ Len(group) \in Nat /\ DOMAIN group = 1 .. Len(group)
      /\ k \in Nat \ {0} /\ k <= Len(group)
  BY DefinitionFacts
<1>2. t \in Slots /\ Cond(t) = group[k] /\ Classify(group[k]) = "combining"
  BY SlotFacts DEF Classify, CombiningTypes
<1>3. ClassOf(group, k) = class
  BY DEF Taken
<1>4. CASE k = Len(group)
  <2>1. end = 0
    <3>1. end # 0 => end = k
      BY <1>1, <1>4, ChainFacts
    <3> QED BY <3>1, <1>1, <1>2, ChainFacts
  <2>2. class = "other"
    BY <2>1, <1>3 DEF ClassOf
  <2> QED BY <2>2, <1>1, <1>4 DEF Accumulates
<1>5. CASE k < Len(group)
  <2>1. ChainEnd(group, k + 1) = end
    BY <1>1, <1>2, <1>5, ChainStep, k \in 1 .. (Len(group) - 1)
  <2>2. ClassOf(group, k + 1) = class
    BY <2>1, <1>3 DEF ClassOf
  <2>3. ASSUME end # 0 PROVE n.add_hits = Sums(n.hits, s)[k]
    <3>1. end \in (k + 1) .. Len(group)
      <4>1. end \in k .. Len(group) /\ Classify(group[end]) # "combining"
        BY <1>1, <2>3, ChainFacts
      <4> QED BY <4>1, <1>1, <1>2
    <3>2. s \in Slots /\ s[1] = g /\ s[2] = end
      BY <3>1, <1>1, SlotFacts
    <3>3. /\ x.hits \in [Slots -> Nat] /\ n.hits \in [Slots -> Nat]
          /\ x.add_hits \in Int
      BY DEF Sound, Evals, Capped
    <3>4. x.add_hits = Sums(x.hits, s)[k - 1]
      <4>1. (k - 1) + 1 = k /\ k - 1 < Len(group)
        BY <1>1
      <4> QED BY <4>1, <1>3, <2>3 DEF Accumulates
    <3>5. n.add_hits = x.add_hits + Added(n.hits, t)
      BY DEF Taken, Judged
    <3>6. Share(n.hits, t, s) = Added(n.hits, t)
      <4>1. Feeds(t, s)
        BY <3>1, <3>2, <1>1 DEF Feeds
      <4> QED BY <4>1 DEF Share, Added
    <3>7. Sums(n.hits, s)[k] = Sums(n.hits, s)[k - 1] + Share(n.hits, t, s)
      <4>1. SumRun(Sums(n.hits, s), n.hits, s)
        BY <3>2, <3>3, SumsFacts
      <4> QED BY <4>1, <3>2, <1>1 DEF SumRun
    <3>8. Sums(x.hits, s)[k - 1] = Sums(n.hits, s)[k - 1]
      <4>1. ASSUME NEW j \in 1 .. (k - 1)
            PROVE  Share(x.hits, <<g, j>>, s) = Share(n.hits, <<g, j>>, s)
        <5>1. <<g, j>> \in Slots /\ <<g, j>> # t
          BY <1>1, SlotFacts
        <5>2. n.hits[<<g, j>>] = x.hits[<<g, j>>]
          BY <5>1 DEF Taken, Turned
        <5> QED BY <5>2 DEF Share
      <4>2. k - 1 \in 0 .. Len(defn.groups[s[1]])
        BY <3>2, <1>1
      <4>3. s[1] = s[1] /\ \A j \in 1 .. (k - 1) :
              Share(x.hits, <<s[1], j>>, s) = Share(n.hits, <<s[1], j>>, s)
        BY <3>2, <4>1
      <4> HIDE DEF s
      <4> QED BY <4>2, <4>3, <3>2, <3>3, SumsAlike
    <3> QED BY <3>4, <3>5, <3>6, <3>7, <3>8
  <2> QED BY <2>1, <2>2, <2>3, <1>1, <1>5 DEF Accumulates
<1> QED BY <1>1, <1>4, <1>5

\* The end of a chain spends the accumulator, or there was nothing in it.
LEMMA EndAccumulates ==
  ASSUME defn \in Definitions, NEW g \in DOMAIN defn.groups, NEW class,
         NEW k \in DOMAIN defn.groups[g], NEW x \in Sound, NEW n \in Sound,
         Taken(g, class, k, x, n), Cond(<<g, k>>).type \notin CombiningTypes,
         Accumulates(g, class, k - 1, x)
  PROVE  /\ x.add_hits = Sums(x.hits, <<g, k>>)[k - 1]
         /\ NothingSpilled(g, class, k) => Accumulates(g, class, k, n)
<1> DEFINE group == defn.groups[g]
           s == <<g, k>>
<1>1. group \in Seq(Conditions) /\ Len(group) \in Nat /\ DOMAIN group = 1 .. Len(group)
      /\ k \in Nat \ {0} /\ k <= Len(group)
  BY DefinitionFacts
<1>2. s \in Slots /\ Cond(s) = group[k] /\ Classify(group[k]) # "combining"
      /\ s[1] = g /\ s[2] = k
  BY SlotFacts DEF Classify, CombiningTypes
<1>3. ClassOf(group, k) = class /\ ChainEnd(group, k) = k
  BY <1>1, <1>2, OwnChain DEF Taken
<1>4. x.hits \in [Slots -> Nat] /\ n.hits \in [Slots -> Nat]
  BY DEF Sound, Evals, Capped
<1>5. x.add_hits = Sums(x.hits, s)[k - 1]
  <2>1. (k - 1) + 1 = k /\ k - 1 < Len(group) /\ k # 0
    BY <1>1
  <2> QED BY <2>1, <1>3 DEF Accumulates
<1>6. n.add_hits = IF Cond(s).required # 0 THEN 0 ELSE x.add_hits
  BY DEF Taken, Judged
<1>7. ASSUME Cond(s).required = 0, NothingSpilled(g, class, k)
      PROVE  Sums(x.hits, s)[k - 1] = 0
  <2>1. ASSUME NEW j \in 1 .. (k - 1) PROVE Share(x.hits, <<g, j>>, s) = 0
    <3>1. <<g, j>> \in Slots /\ <<g, j>>[1] = g /\ <<g, j>>[2] = j
      BY <1>1, SlotFacts
    <3>2. ASSUME Feeds(<<g, j>>, s)
          PROVE  Cond(<<g, j>>).type \notin {"AddHits", "SubHits"}
      <4>1. ChainEnd(group, j) = k
        BY <3>2, <1>2 DEF Feeds
      <4> QED BY <4>1, <3>1, <1>1, <1>2, <1>3, <1>7 DEF NothingSpilled
    <3> QED BY <3>2 DEF Share
  <2>2. SumRun(Sums(x.hits, s), x.hits, s)
    BY <1>2, <1>4, SumsFacts
  <2>3. k - 1 \in 0 .. Len(defn.groups[s[1]]) /\ 0 \in 0 .. (k - 1)
    BY <1>1, <1>2
  <2>4. \A j \in (0 + 1) .. (k - 1) : Share(x.hits, <<s[1], j>>, s) = 0
    BY <1>2, <2>1
  <2>5. Sums(x.hits, s)[k - 1] = Sums(x.hits, s)[0]
    <3> HIDE DEF s
    <3> QED BY <2>3, <2>4, <1>2, <1>4, SumsIdle
  <2> QED BY <2>2, <2>5 DEF SumRun
<1>8. NothingSpilled(g, class, k) => n.add_hits = 0
  BY <1>5, <1>6, <1>7
<1>9. k < Len(group) /\ ChainEnd(group, k + 1) # 0
        => Sums(n.hits, <<g, ChainEnd(group, k + 1)>>)[k] = 0
  <2>1. k \in 0 .. Len(group)
    BY <1>1
  <2> QED BY <2>1, <1>2, <1>4, NothingAdded
<1> QED BY <1>5, <1>8, <1>9 DEF Accumulates

\* A condition of another class leaves it alone.
LEMMA PassedAccumulates ==
  ASSUME defn \in Definitions, NEW g \in DOMAIN defn.groups, NEW class,
         NEW k \in DOMAIN defn.groups[g], NEW x \in Sound,
         ClassOf(defn.groups[g], k) # class,
         Accumulates(g, class, k - 1, x)
  PROVE  Accumulates(g, class, k, x)
<1> DEFINE group == defn.groups[g]
<1>1. group \in Seq(Conditions) /\ Len(group) \in Nat /\ DOMAIN group = 1 .. Len(group)
      /\ k \in Nat \ {0} /\ k <= Len(group)
  BY DefinitionFacts
<1>2. x.add_hits = 0
  <2>1. (k - 1) + 1 = k /\ k - 1 < Len(group) /\ k - 1 # Len(group)
    BY <1>1
  <2> QED BY <2>1 DEF Accumulates
<1>3. x.hits \in [Slots -> Nat]
  BY DEF Sound, Evals, Capped
<1>4. ASSUME k < Len(group), ClassOf(group, k + 1) = class, ChainEnd(group, k + 1) # 0
      PROVE  Sums(x.hits, <<g, ChainEnd(group, k + 1)>>)[k] = 0
  <2>1. Classify(group[k]) # "combining"
    <3>1. SUFFICES ASSUME Classify(group[k]) = "combining" PROVE FALSE
      OBVIOUS
    <3>2. ChainEnd(group, k) = ChainEnd(group, k + 1)
      BY <3>1, <1>1, <1>4, ChainStep, k \in 1 .. (Len(group) - 1)
    <3> QED BY <3>2, <1>4 DEF ClassOf
  <2>2. k \in 0 .. Len(group)
    BY <1>1
  <2> QED BY <2>1, <2>2, <1>3, <1>4, NothingAdded
<1> QED BY <1>2, <1>4 DEF Accumulates

\* What the end of a chain compares with its target is its total.
LEMMA EndTotal ==
  ASSUME defn \in Definitions, NEW g \in DOMAIN defn.groups, NEW class,
         NEW k \in DOMAIN defn.groups[g], NEW x \in Sound, NEW n \in Sound,
         Taken(g, class, k, x, n), Cond(<<g, k>>).type \notin CombiningTypes,
         Accumulates(g, class, k - 1, x)
  PROVE  Total(n.hits, <<g, k>>) = Larger(n.hits[<<g, k>>] + x.add_hits, 0)
<1> DEFINE group == defn.groups[g]
           s == <<g, k>>
<1>1. group \in Seq(Conditions) /\ Len(group) \in Nat /\ DOMAIN group = 1 .. Len(group)
      /\ k \in Nat \ {0} /\ k <= Len(group)
  BY DefinitionFacts
<1>2. s \in Slots /\ s[1] = g /\ s[2] = k
  BY SlotFacts
<1>3. x.hits \in [Slots -> Nat] /\ n.hits \in [Slots -> Nat]
  BY DEF Sound, Evals, Capped
<1>4. x.add_hits = Sums(x.hits, s)[k - 1]
  BY EndAccumulates
<1>5. ASSUME NEW j \in 1 .. (k - 1)
      PROVE  Share(x.hits, <<g, j>>, s) = Share(n.hits, <<g, j>>, s)
  <2>1. <<g, j>> \in Slots /\ <<g, j>> # s
    BY <1>1, SlotFacts
  <2>2. n.hits[<<g, j>>] = x.hits[<<g, j>>]
    BY <2>1 DEF Taken, Turned
  <2> QED BY <2>2 DEF Share
<1>6. Sums(x.hits, s)[k - 1] = Sums(n.hits, s)[k - 1]
  <2>1. k - 1 \in 0 .. Len(defn.groups[s[1]])
    BY <1>1, <1>2
  <2>2. \A j \in 1 .. (k - 1) :
          Share(x.hits, <<s[1], j>>, s) = Share(n.hits, <<s[1], j>>, s)
    BY <1>2, <1>5
  <2> HIDE DEF s
  <2> QED BY <2>1, <2>2, <1>2, <1>3, SumsAlike
<1>7. Total(n.hits, s) = Larger(n.hits[s] + Sums(n.hits, s)[s[2] - 1], 0)
  <2> HIDE DEF s
  <2> QED BY <1>2, <1>3, TotalFacts
<1> QED BY <1>2, <1>4, <1>6, <1>7

-----------------------------------------------------------------------------
(* What a class, a group and a frame decide.                                *)

\* Group g has a PauseIf.
MayPause(g) == \E s \in Slots : s[1] = g /\ Cond(s).type = "PauseIf"

\* The number in n was measured by s.
MeasuredBy(s, n) ==
  /\ Cond(s).type = "Measured"
  /\ Cond(s).required # 0 => n.from_hits
  /\ Cond(s).required # 0 /\ ~Spilled(s) => n.measured = Total(n.hits, s)

\* After k turns of a class of a group that was not paused, what was true of the
\* accumulator, of the targets and of the number measured.
Counts(g, class, k, e, n) ==
  /\ NothingSpilled(g, class, k) => Accumulates(g, class, k, n)
  /\ n.is_true => \A s \in InClass(g, class, k) :
                    MustBeMet(s) => Total(n.hits, s) >= Cond(s).required
  /\ \/ n.measured = e.measured /\ n.from_hits = e.from_hits
     \/ \E s \in InClass(g, class, k) : MeasuredBy(s, n)

\* What k turns of a class of the group decide, from e to n.
ClassJudged(g, class, k, e, n) ==
  /\ n \in Sound
  /\ n.is_true => e.is_true
  /\ n.is_paused => e.is_paused \/ ~n.is_true
  /\ n.is_paused # e.is_paused => class = "pause" /\ MayPause(g)
  /\ class # "reset" => n.was_reset = e.was_reset
  /\ class # "measured" => n.measured = e.measured /\ n.from_hits = e.from_hits
  /\ ~n.is_paused => Counts(g, class, k, e, n)

\* The class of a condition that pauses, resets or measures.
LEMMA OwnClasses ==
  ASSUME defn \in Definitions, NEW g \in DOMAIN defn.groups,
         NEW k \in DOMAIN defn.groups[g]
  PROVE  /\ Cond(<<g, k>>).type = "PauseIf" => ClassOf(defn.groups[g], k) = "pause"
         /\ Cond(<<g, k>>).type = "ResetIf" => ClassOf(defn.groups[g], k) = "reset"
         /\ Cond(<<g, k>>).type = "Measured" => ClassOf(defn.groups[g], k) = "measured"
<1> DEFINE group == defn.groups[g]
<1>1. group \in Seq(Conditions) /\ Cond(<<g, k>>) = group[k]
  BY SlotFacts, DefinitionFacts
<1>2. /\ group[k].type = "PauseIf" => Classify(group[k]) = "pause"
      /\ group[k].type = "ResetIf" => Classify(group[k]) = "reset"
      /\ group[k].type = "Measured" => Classify(group[k]) = "measured"
  BY DEF Classify, CombiningTypes
<1>3. Classify(group[k]) # "combining" => ClassOf(group, k) = Classify(group[k])
  BY <1>1, OwnChain
<1> QED BY <1>1, <1>2, <1>3

\* The slots of a class up to k are those up to k - 1, and slot k if it is of the class.
LEMMA InClassStep ==
  ASSUME defn \in Definitions, NEW g \in DOMAIN defn.groups, NEW class,
         NEW k \in DOMAIN defn.groups[g]
  PROVE  /\ InClass(g, class, k - 1) \subseteq InClass(g, class, k)
         /\ InClass(g, class, k) \subseteq Slots
         /\ \A t \in InClass(g, class, k - 1) : t[2] \in Nat /\ t[2] < k
         /\ \A t \in InClass(g, class, k) :
              \/ t \in InClass(g, class, k - 1)
              \/ t = <<g, k>> /\ ClassOf(defn.groups[g], k) = class
         /\ ClassOf(defn.groups[g], k) = class => <<g, k>> \in InClass(g, class, k)
<1>1. defn.groups[g] \in Seq(Conditions) /\ k \in Nat \ {0} /\ <<g, k>> \in Slots
  BY SlotFacts, DefinitionFacts
<1>2. \A t \in Slots : t[1] = g => t[2] \in Nat /\ t = <<t[1], t[2]>>
  <2> SUFFICES ASSUME NEW t \in Slots, t[1] = g PROVE t[2] \in Nat /\ t = <<t[1], t[2]>>
    OBVIOUS
  <2>1. t[2] \in DOMAIN defn.groups[g] /\ t = <<t[1], t[2]>>
    BY SlotFacts
  <2> QED BY <2>1, <1>1
<1>3. ASSUME NEW t \in InClass(g, class, k), t \notin InClass(g, class, k - 1)
      PROVE  t = <<g, k>> /\ ClassOf(defn.groups[g], k) = class
  <2>1. t \in Slots /\ t[1] = g /\ t[2] <= k /\ ~(t[2] <= k - 1) /\ t[2] \in Nat
        /\ ClassOf(defn.groups[g], t[2]) = class /\ t = <<t[1], t[2]>>
    BY <1>2, <1>3 DEF InClass
  <2>2. t[2] = k
    BY <2>1, <1>1
  <2> QED BY <2>1, <2>2
<1>4. /\ InClass(g, class, k - 1) \subseteq InClass(g, class, k)
      /\ \A t \in InClass(g, class, k - 1) : t[2] \in Nat /\ t[2] < k
  BY <1>1, <1>2 DEF InClass
<1>5. ClassOf(defn.groups[g], k) = class => <<g, k>> \in InClass(g, class, k)
  BY <1>1 DEF InClass
<1>6. InClass(g, class, k) \subseteq Slots
  BY DEF InClass
<1> QED BY <1>3, <1>4, <1>5, <1>6

\* What a class has decided after k - 1 turns, and what the kth adds.
LEMMA ClassJudgesTurn ==
  ASSUME defn \in Definitions, NEW g \in DOMAIN defn.groups, NEW class,
         NEW k \in DOMAIN defn.groups[g], NEW e, NEW x \in Sound, NEW n \in Sound,
         ClassJudged(g, class, k - 1, e, x),
         Passed(g, class, k, x, n) \/ Taken(g, class, k, x, n)
  PROVE  ClassJudged(g, class, k, e, n)
<1> DEFINE group == defn.groups[g]
           s == <<g, k>>
<1>1. /\ group \in Seq(Conditions) /\ k \in Nat \ {0} /\ k <= Len(group)
      /\ s \in Slots /\ s[1] = g /\ s[2] = k
  BY SlotFacts, DefinitionFacts
<1>2. /\ InClass(g, class, k - 1) \subseteq InClass(g, class, k)
      /\ InClass(g, class, k) \subseteq Slots
      /\ \A t \in InClass(g, class, k - 1) : t[2] \in Nat /\ t[2] < k
      /\ \A t \in InClass(g, class, k) :
           t \in InClass(g, class, k - 1) \/ (t = s /\ ClassOf(group, k) = class)
      /\ ClassOf(group, k) = class => s \in InClass(g, class, k)
  BY InClassStep
<1>3. x.hits \in [Slots -> Nat] /\ n.hits \in [Slots -> Nat]
      /\ x.is_paused \in BOOLEAN /\ n.is_paused \in BOOLEAN
  BY DEF Sound, Evals, Capped
<1>4. NothingSpilled(g, class, k) => NothingSpilled(g, class, k - 1)
  <2>1. \A j : j \in Nat /\ j <= k - 1 => j <= k
    BY <1>1
  <2>2. ASSUME NEW t \in Slots, t[1] = g, ChainEnd(group, t[2]) # 0
        PROVE  ChainEnd(group, t[2]) \in Nat
    <3>1. t[2] \in DOMAIN group
      BY <2>2, SlotFacts
    <3>2. ChainEnd(group, t[2]) \in t[2] .. Len(group) /\ t[2] \in Nat
      BY <1>1, <2>2, <3>1, ChainFacts
    <3> QED BY <3>2, <1>1
  <2> QED BY <2>1, <2>2 DEF NothingSpilled
<1> HIDE DEF s
<1>5. CASE Passed(g, class, k, x, n)
  <2>1. n = x
    BY <1>5 DEF Passed
  <2>2. ASSUME ~n.is_paused PROVE Counts(g, class, k, e, n)
    <3>1. ClassOf(group, k) # class
      BY <2>1, <2>2, <1>5 DEF Passed
    <3>2. InClass(g, class, k) = InClass(g, class, k - 1)
      BY <3>1, <1>2
    <3>3. Counts(g, class, k - 1, e, x)
      BY <2>1, <2>2 DEF ClassJudged
    <3>4. NothingSpilled(g, class, k) => Accumulates(g, class, k, x)
      BY <3>1, <3>3, <1>4, PassedAccumulates DEF Counts
    <3> HIDE DEF group
    <3> QED BY <2>1, <3>2, <3>3, <3>4 DEF Counts
  <2> QED BY <2>1, <2>2 DEF ClassJudged
<1>6. CASE Taken(g, class, k, x, n)
  <2>1. /\ ClassOf(group, k) = class /\ Turned(s, x, n) /\ Judged(s, x, n)
        /\ s \in InClass(g, class, k)
    BY <1>2, <1>6 DEF Taken, s
  <2>2. /\ Cond(s).type = "PauseIf" => class = "pause"
        /\ Cond(s).type = "ResetIf" => class = "reset"
        /\ Cond(s).type = "Measured" => class = "measured"
    BY <2>1, OwnClasses DEF s
  <2>3. /\ n.is_true => x.is_true
        /\ n.is_paused => x.is_paused \/ ~n.is_true
        /\ Cond(s).type # "PauseIf" => n.is_paused = x.is_paused
        /\ x.is_paused => n.is_paused
        /\ Cond(s).type # "ResetIf" => n.was_reset = x.was_reset
        /\ Cond(s).type # "Measured" => n.measured = x.measured /\ n.from_hits = x.from_hits
    BY <2>1 DEF Judged
  <2>4. /\ n.is_true => e.is_true
        /\ n.is_paused => e.is_paused \/ ~n.is_true
        /\ n.is_paused # e.is_paused => class = "pause" /\ MayPause(g)
        /\ class # "reset" => n.was_reset = e.was_reset
        /\ class # "measured" => n.measured = e.measured /\ n.from_hits = e.from_hits
    <3>1. Cond(s).type = "PauseIf" => MayPause(g)
      BY <1>1 DEF MayPause
    <3> QED BY <2>2, <2>3, <3>1, <1>3 DEF ClassJudged
  <2>5. ASSUME ~n.is_paused PROVE Counts(g, class, k, e, n)
    <3>1. Counts(g, class, k - 1, e, x)
      BY <2>3, <2>5 DEF ClassJudged
    <3>2. NothingSpilled(g, class, k) => Accumulates(g, class, k, n)
      <4>1. NothingSpilled(g, class, k) => Accumulates(g, class, k - 1, x)
        BY <3>1, <1>4 DEF Counts
      <4>2. CASE Cond(s).type \in CombiningTypes
        BY <4>1, <4>2, <1>6, CombiningAccumulates DEF s
      <4>3. CASE Cond(s).type \notin CombiningTypes
        BY <4>1, <4>3, <1>6, EndAccumulates DEF s
      <4> QED BY <4>2, <4>3
    <3>3. ASSUME NEW t \in InClass(g, class, k - 1)
          PROVE  Total(n.hits, t) = Total(x.hits, t)
      <4>1. t \in Slots /\ t[2] \in Nat /\ t[2] < k
        BY <1>2
      <4>2. t # s /\ ~Feeds(s, t)
        BY <4>1, <1>1 DEF Feeds
      <4>3. \A u \in Slots : u # s => n.hits[u] = x.hits[u]
        BY <2>1 DEF Turned
      <4> QED BY <4>1, <4>2, <4>3, <1>3, TotalAlike
    <3>4. ASSUME ~Spilled(s), Cond(s).type \notin CombiningTypes
          PROVE  Total(n.hits, s) = Larger(n.hits[s] + x.add_hits, 0)
      <4>1. NothingSpilled(g, class, k - 1)
        BY <3>4, <2>1, <1>1, SpilledFacts
      <4>2. Accumulates(g, class, k - 1, x)
        BY <4>1, <3>1 DEF Counts
      <4> QED BY <4>2, <3>4, <1>6, EndTotal DEF s
    <3>5. ASSUME n.is_true, NEW t \in InClass(g, class, k), MustBeMet(t)
          PROVE  Total(n.hits, t) >= Cond(t).required
      <4>1. CASE t \in InClass(g, class, k - 1)
        BY <4>1, <3>1, <3>3, <3>5, <2>3 DEF Counts
      <4>2. CASE t = s
        <5>1. /\ ~Spilled(s) /\ Cond(s).required # 0 /\ Cond(s).type \in Targets
              /\ Cond(s).type \notin CombiningTypes
          BY <3>5, <4>2 DEF MustBeMet, Targets, CombiningTypes
        <5>2. Larger(n.hits[s] + x.add_hits, 0) >= Cond(s).required
          BY <5>1, <3>5, <2>1 DEF Judged
        <5> QED BY <5>1, <5>2, <3>4, <4>2
      <4> QED BY <4>1, <4>2, <1>2, <3>5
    <3>6. \/ n.measured = e.measured /\ n.from_hits = e.from_hits
          \/ \E t \in InClass(g, class, k) : MeasuredBy(t, n)
      <4>1. CASE Cond(s).type = "Measured" /\ Cond(s).required # 0
        <5>1. n.from_hits /\ n.measured = Larger(n.hits[s] + x.add_hits, 0)
          BY <4>1, <2>1 DEF Judged
        <5>2. Cond(s).type \notin CombiningTypes
          BY <4>1 DEF CombiningTypes
        <5>3. MeasuredBy(s, n)
          BY <5>1, <5>2, <4>1, <3>4 DEF MeasuredBy
        <5> QED BY <5>3, <2>1
      <4>2. CASE Cond(s).type = "Measured" /\ Cond(s).required = 0
        <5>1. MeasuredBy(s, n)
          BY <4>2 DEF MeasuredBy
        <5> QED BY <5>1, <2>1
      <4>3. CASE Cond(s).type # "Measured"
        <5>1. n.measured = x.measured /\ n.from_hits = x.from_hits
          BY <4>3, <2>3
        <5>2. \A t \in InClass(g, class, k - 1) : MeasuredBy(t, x) => MeasuredBy(t, n)
          BY <5>1, <3>3 DEF MeasuredBy
        <5> QED BY <5>1, <5>2, <3>1, <1>2 DEF Counts
      <4> QED BY <4>1, <4>2, <4>3
    <3> QED BY <3>2, <3>5, <3>6 DEF Counts
  <2> QED BY <2>4, <2>5 DEF ClassJudged
<1> QED BY <1>5, <1>6

\* What a class has decided when it ends: every target that must be met was, or the
\* group is false; and a measured number is a total of the class.
LEMMA ClassJudges ==
  ASSUME defn \in Definitions, NEW g \in DOMAIN defn.groups, NEW class, NEW truth,
         NEW e \in Sound, NothingSpilled(g, class, 0) => e.add_hits = 0
  PROVE  ClassJudged(g, class, Len(defn.groups[g]), e,
                     EvaluateClass(g, defn.groups[g], class, truth, e))
<1> DEFINE group == defn.groups[g]
           n == Len(group)
<1>1. group \in Seq(Conditions) /\ n \in Nat /\ DOMAIN group = 1 .. n
  BY DefinitionFacts
<1>0. PICK h : ClassRun(h, g, class, truth, e)
  BY ClassUnfolds
<1>2. /\ h \in [0 .. n -> Sound] /\ h[0] = e
      /\ \A k \in 1 .. n : h[k] = EvaluateMember(g, group, class, truth, h[k - 1], k)
      /\ EvaluateClass(g, group, class, truth, e) = h[n]
  BY <1>0 DEF ClassRun
<1>3. ClassJudged(g, class, 0, e, e)
  <2>1. InClass(g, class, 0) = {}
    <3> SUFFICES ASSUME NEW s \in Slots, s[1] = g PROVE ~(s[2] <= 0)
      BY DEF InClass
    <3>1. s[2] \in DOMAIN group
      BY SlotFacts
    <3> QED BY <3>1, <1>1
  <2>2. NothingSpilled(g, class, 0) => Accumulates(g, class, 0, e)
    <3>1. e.hits \in [Slots -> Nat]
      BY DEF Sound, Evals, Capped
    <3>2. 0 \in 0 .. n
      BY <1>1
    <3>3. 0 < n /\ ChainEnd(group, 0 + 1) # 0
            => Sums(e.hits, <<g, ChainEnd(group, 0 + 1)>>)[0] = 0
      BY <3>1, <3>2, NothingAdded
    <3> QED BY <3>3 DEF Accumulates
  <2>3. Counts(g, class, 0, e, e)
    BY <2>1, <2>2 DEF Counts
  <2> QED BY <2>3 DEF ClassJudged
<1> DEFINE S == {k \in Nat : k <= n => ClassJudged(g, class, k, e, h[k])}
<1> HIDE DEF group, n
<1>4. 0 \in S
  BY <1>2, <1>3
<1>5. ASSUME NEW k \in Nat, k \in S PROVE k + 1 \in S
  <2> SUFFICES ASSUME k + 1 <= n PROVE ClassJudged(g, class, k + 1, e, h[k + 1])
    OBVIOUS
  <2>1. k + 1 \in 1 .. n /\ k + 1 \in DOMAIN group /\ (k + 1) - 1 = k
        /\ k \in 0 .. n /\ k + 1 \in 0 .. n
    BY <1>1
  <2>2. ClassJudged(g, class, (k + 1) - 1, e, h[k])
    BY <2>1, <1>5, <1>1
  <2>3. h[k + 1] = EvaluateMember(g, group, class, truth, h[k], k + 1)
        /\ h[k] \in Sound /\ h[k + 1] \in Sound
    BY <2>1, <1>2
  <2>4. \/ Passed(g, class, k + 1, h[k], h[k + 1])
        \/ Taken(g, class, k + 1, h[k], h[k + 1])
    BY <2>1, <2>3, MemberFacts DEF group
  <2> QED BY <2>1, <2>2, <2>3, <2>4, ClassJudgesTurn DEF group
<1>6. Nat \subseteq S
  <2> HIDE DEF S
  <2> QED BY <1>4, <1>5, Induction
<1>7. ClassJudged(g, class, n, e, h[n])
  BY <1>1, <1>6
<1> QED BY <1>2, <1>7 DEF group, n

\* After the last turn of a class, all of its conditions were considered.
LEMMA WholeClass ==
  ASSUME defn \in Definitions, NEW g \in DOMAIN defn.groups, NEW class
  PROVE  InClass(g, class, Len(defn.groups[g])) = OfClass(g, class)
<1> SUFFICES ASSUME NEW s \in Slots, s[1] = g PROVE s[2] <= Len(defn.groups[g])
  BY DEF InClass, OfClass
<1>1. s[2] \in DOMAIN defn.groups[g] /\ defn.groups[g] \in Seq(Conditions)
  BY SlotFacts, DefinitionFacts
<1> QED BY <1>1

\* What feeds a target is of its class.
LEMMA FeedersAlike ==
  ASSUME defn \in Definitions, NEW s \in Slots, Cond(s).type \in Targets,
         NEW t \in Slots, Feeds(t, s)
  PROVE  t[1] = s[1] /\ ClassOf(defn.groups[t[1]], t[2]) = ClassOf(defn.groups[s[1]], s[2])
<1> DEFINE group == defn.groups[s[1]]
<1>1. group \in Seq(Conditions) /\ s[2] \in DOMAIN group /\ Cond(s) = group[s[2]]
  <2>1. s[1] \in DOMAIN defn.groups /\ s[2] \in DOMAIN group /\ s = <<s[1], s[2]>>
    BY SlotFacts
  <2> QED BY <2>1, DefinitionFacts DEF Cond
<1>2. Classify(group[s[2]]) # "combining"
  BY <1>1 DEF Classify, CombiningTypes, Targets
<1>3. ClassOf(group, s[2]) = Classify(group[s[2]]) /\ s[2] # 0
  BY <1>1, <1>2, OwnChain
<1>4. t[1] = s[1] /\ ChainEnd(group, t[2]) = s[2]
  BY DEF Feeds
<1> HIDE DEF group
<1>5. ClassOf(group, t[2]) = Classify(group[s[2]])
  BY <1>3, <1>4 DEF ClassOf
<1> QED BY <1>3, <1>4, <1>5 DEF group

\* The targets of a class are still met when the counts of other classes change.
LEMMA TotalKept ==
  ASSUME defn \in Definitions, NEW s \in Slots, Cond(s).type \in Targets,
         NEW x \in Sound, NEW n \in Sound, NEW class,
         class # ClassOf(defn.groups[s[1]], s[2]),
         \A t \in Slots \ OfClass(s[1], class) : n.hits[t] = x.hits[t]
  PROVE  Total(n.hits, s) = Total(x.hits, s)
<1>1. x.hits \in [Slots -> Nat] /\ n.hits \in [Slots -> Nat]
  BY DEF Sound, Evals, Capped
<1>2. s \notin OfClass(s[1], class)
  BY DEF OfClass
<1>3. \A t \in Slots : Feeds(t, s) => t \notin OfClass(s[1], class)
  BY FeedersAlike DEF OfClass
<1> QED BY <1>1, <1>2, <1>3, TotalAlike

\* The classes that targets are of.
LEMMA TargetClasses ==
  ASSUME defn \in Definitions, NEW s \in Slots, Cond(s).type \in Targets,
         Cond(s).required # 0
  PROVE  /\ ClassOf(defn.groups[s[1]], s[2]) \in {"hittarget", "measured"}
         /\ Cond(s).type = "Measured" => ClassOf(defn.groups[s[1]], s[2]) = "measured"
<1> DEFINE group == defn.groups[s[1]]
<1>1. group \in Seq(Conditions) /\ s[2] \in DOMAIN group /\ Cond(s) = group[s[2]]
  <2>1. s[1] \in DOMAIN defn.groups /\ s[2] \in DOMAIN group /\ s = <<s[1], s[2]>>
    BY SlotFacts
  <2> QED BY <2>1, DefinitionFacts DEF Cond
<1>2. /\ Classify(group[s[2]]) \in {"hittarget", "measured"}
      /\ Cond(s).type = "Measured" => Classify(group[s[2]]) = "measured"
  BY <1>1 DEF Classify, CombiningTypes, Targets
<1>3. ClassOf(group, s[2]) = Classify(group[s[2]])
  BY <1>1, <1>2, OwnChain
<1> QED BY <1>2, <1>3

\* A class that left nothing behind leaves the accumulator empty.
LEMMA ClassSpends ==
  ASSUME defn \in Definitions, NEW g \in DOMAIN defn.groups,
         NEW class \in Classes \ {"other"}, NEW later \in Classes,
         Rank[class] < Rank[later], NEW e, NEW n,
         ClassJudged(g, class, Len(defn.groups[g]), e, n), ~n.is_paused,
         NothingSpilled(g, later, 0)
  PROVE  n.add_hits = 0
<1>1. NothingSpilled(g, class, Len(defn.groups[g]))
  <2>1. 0 \in Nat
    OBVIOUS
  <2> QED BY <2>1, NothingSpilledEarlier
<1>2. Len(defn.groups[g]) \in Nat
  BY DefinitionFacts
<1> QED BY <1>1, <1>2 DEF ClassJudged, Counts, Accumulates

\* A group is begun true, with nothing measured and no hits carried over.
LEMMA BeginGroupClears ==
  ASSUME NEW e \in Evals
  PROVE  /\ BeginGroup(e).is_true = TRUE /\ BeginGroup(e).measured = NoMeasure
         /\ BeginGroup(e).from_hits = FALSE /\ BeginGroup(e).add_hits = 0
BY DEF BeginGroup, Evals

\* Looking for measured hits decides nothing.
LEMMA WithoutMeasuredJudges ==
  ASSUME defn \in Definitions, NEW g \in DOMAIN defn.groups, NEW e \in Sound
  PROVE  /\ WithoutMeasuredHits(g, defn.groups[g], e).is_true = e.is_true
         /\ WithoutMeasuredHits(g, defn.groups[g], e).measured = e.measured
         /\ WithoutMeasuredHits(g, defn.groups[g], e).from_hits = e.from_hits
         /\ WithoutMeasuredHits(g, defn.groups[g], e).add_hits = e.add_hits
<1> DEFINE n == WithoutMeasuredHits(g, defn.groups[g], e)
<1>1. \E left : n = [e EXCEPT !.hits = left]
  BY DEF WithoutMeasuredHits
<1>2. PICK left : n = [e EXCEPT !.hits = left]
  BY <1>1
<1> HIDE DEF n
<1>3. /\ n.is_true = e.is_true /\ n.measured = e.measured /\ n.from_hits = e.from_hits
      /\ n.add_hits = e.add_hits
  BY <1>2 DEF Sound, Evals
<1> QED BY <1>3 DEF n

\* MeasuredIf turns a measured value into none, and nothing else.
LEMMA MeasuredOrNothingJudges ==
  ASSUME NEW n \in Sound
  PROVE  /\ MeasuredOrNothing(n).is_true = n.is_true
         /\ MeasuredOrNothing(n).from_hits = n.from_hits
         /\ MeasuredOrNothing(n).add_hits = n.add_hits
         /\ \/ MeasuredOrNothing(n).measured = n.measured
            \/ n.measured # NoMeasure /\ MeasuredOrNothing(n).measured = 0
<1>1. n \in Evals
  BY DEF Sound
<1>2. \/ MeasuredOrNothing(n) = n
      \/ n.measured # NoMeasure /\ MeasuredOrNothing(n) = [n EXCEPT !.measured = 0]
  BY DEF MeasuredOrNothing
<1> DEFINE m == MeasuredOrNothing(n)
<1> HIDE DEF m
<1>3. m = [n EXCEPT !.measured = 0] =>
        /\ m.is_true = n.is_true /\ m.from_hits = n.from_hits
        /\ m.add_hits = n.add_hits /\ m.measured = 0
  BY <1>1 DEF Evals
<1> QED BY <1>2, <1>3 DEF m

\* What the group decides, from e to n: a paused group counts for nothing; one that is
\* true has its targets met; and what it measures is the total of a measured condition,
\* or nothing.
GroupMeasured(g, n) ==
  \E s \in Slots :
    /\ s[1] = g /\ Cond(s).type = "Measured"
    /\ Cond(s).required # 0 => n.from_hits
    /\ ~n.was_reset /\ Cond(s).required # 0 /\ ~Spilled(s)
         => n.measured \in {0, Total(n.hits, s)}

\* What a group has decided: true, its targets are met; what it measured is a total.
GroupJudged(g, n) ==
  /\ n.is_paused => ~n.is_true /\ n.measured = NoMeasure /\ MayPause(g)
  /\ ~n.is_paused /\ ~n.was_reset /\ n.is_true =>
       \A s \in Slots : s[1] = g /\ MustBeMet(s) => Total(n.hits, s) >= Cond(s).required
  /\ n.measured = NoMeasure \/ GroupMeasured(g, n)

\* What the hit targets of a group make of e, and what the rest of its conditions does.
HitTargetsJudged(g, e, n) ==
  /\ n \in Sound /\ ~n.is_paused
  /\ n.is_true => e.is_true
  /\ n.was_reset = e.was_reset
  /\ n.measured = e.measured
  /\ NothingSpilled(g, "measured", 0) => n.add_hits = 0
  /\ ~n.was_reset /\ n.is_true =>
       \A s \in OfClass(g, "hittarget") :
         MustBeMet(s) => Total(n.hits, s) >= Cond(s).required

\* What the last class of a group has decided.
OthersJudged(g, e, n) ==
  /\ n \in Sound /\ ~n.is_paused
  /\ n.is_true => e.is_true
  /\ n.was_reset = e.was_reset
  /\ n.measured = e.measured /\ n.from_hits = e.from_hits
  /\ \A s \in Slots \ OfClass(g, "other") : n.hits[s] = e.hits[s]

\* What the class of hit targets decides, when it is evaluated and when it is skipped.
LEMMA HitTargetsJudge ==
  ASSUME defn \in Definitions, NEW g \in DOMAIN defn.groups, NEW truth,
         NEW e \in Sound, ~e.is_paused,
         NothingSpilled(g, "hittarget", 0) => e.add_hits = 0,
         NothingSpilled(g, "measured", 0) => e.add_hits = 0,
         NEW n, n = EvaluateHitTargets(g, defn.groups[g], truth, e)
  PROVE  HitTargetsJudged(g, e, n)
<1>1. CASE e.was_reset
  <2>1. n = e
    BY <1>1 DEF EvaluateHitTargets
  <2> QED BY <2>1, <1>1 DEF HitTargetsJudged
<1>2. CASE ~e.was_reset
  <2>1. n = EvaluateClass(g, defn.groups[g], "hittarget", truth, e)
    BY <1>2 DEF EvaluateHitTargets
  <2>2. ClassJudged(g, "hittarget", Len(defn.groups[g]), e, n)
    BY <2>1, ClassJudges
  <2>3. ~n.is_paused /\ Counts(g, "hittarget", Len(defn.groups[g]), e, n)
    <3>1. n.is_paused = e.is_paused
      BY <2>2 DEF ClassJudged
    <3> QED BY <3>1, <2>2 DEF ClassJudged
  <2>4. NothingSpilled(g, "measured", 0) => n.add_hits = 0
    <3>1. "hittarget" \in Classes \ {"other"} /\ "measured" \in Classes
          /\ Rank["hittarget"] < Rank["measured"]
      BY DEF Classes, Rank
    <3> QED BY <3>1, <2>2, <2>3, ClassSpends
  <2> QED BY <2>2, <2>3, <2>4, WholeClass DEF ClassJudged, Counts, HitTargetsJudged
<1> QED BY <1>1, <1>2

\* What the measured class decides, and which number it measures.
LEMMA MeasuredJudge ==
  ASSUME defn \in Definitions, NEW g \in DOMAIN defn.groups, NEW truth,
         NEW e \in Sound, ~e.is_paused, e.measured = NoMeasure,
         NothingSpilled(g, "measured", 0) => e.add_hits = 0,
         NEW n, n = EvaluateMeasured(g, defn.groups[g], truth, e)
  PROVE  /\ n \in Sound /\ ~n.is_paused
         /\ n.is_true => e.is_true
         /\ n.was_reset = e.was_reset
         /\ NothingSpilled(g, "other", 0) => n.add_hits = 0
         /\ n.is_true => \A s \in OfClass(g, "measured") :
                           MustBeMet(s) => Total(n.hits, s) >= Cond(s).required
         /\ n.measured = NoMeasure \/ GroupMeasured(g, n)
<1> DEFINE group == defn.groups[g]
           w == WithoutMeasuredHits(g, group, e)
           x == EvaluateClass(g, group, "measured", truth, w)
<1>1. /\ w \in Sound /\ w.is_true = e.is_true /\ w.measured = e.measured
      /\ w.add_hits = e.add_hits /\ w.was_reset = e.was_reset /\ w.is_paused = e.is_paused
  BY WithoutMeasuredFacts, WithoutMeasuredJudges
<1>2. n = MeasuredOrNothing(x)
  BY DEF EvaluateMeasured
<1> HIDE DEF w
<1>3. ClassJudged(g, "measured", Len(group), w, x)
  BY <1>1, ClassJudges
<1> HIDE DEF x
<1>4. x \in Sound /\ x.was_reset = w.was_reset /\ (x.is_true => w.is_true) /\ ~x.is_paused
  BY <1>1, <1>3 DEF ClassJudged
<1>5. Counts(g, "measured", Len(group), w, x)
  BY <1>3, <1>4 DEF ClassJudged
<1>6. NothingSpilled(g, "other", 0) => x.add_hits = 0
  <2>1. "measured" \in Classes \ {"other"} /\ "other" \in Classes
        /\ Rank["measured"] < Rank["other"]
    BY DEF Classes, Rank
  <2> QED BY <2>1, <1>3, <1>4, ClassSpends
<1>7. /\ n \in Sound /\ n.hits = x.hits /\ n.is_paused = x.is_paused
      /\ n.was_reset = x.was_reset /\ n.is_true = x.is_true /\ n.from_hits = x.from_hits
      /\ n.add_hits = x.add_hits
      /\ n.measured = x.measured \/ (x.measured # NoMeasure /\ n.measured = 0)
  BY <1>2, <1>4, MeasuredOrNothingFacts, MeasuredOrNothingJudges DEF Alike
<1>8. n.is_true => \A s \in OfClass(g, "measured") :
                     MustBeMet(s) => Total(n.hits, s) >= Cond(s).required
  BY <1>5, <1>7, WholeClass DEF Counts
<1>9. n.measured = NoMeasure \/ GroupMeasured(g, n)
  <2>1. CASE x.measured = w.measured
    BY <2>1, <1>1, <1>7
  <2>2. CASE x.measured # w.measured
    <3>1. PICK s \in OfClass(g, "measured") : MeasuredBy(s, x)
      BY <2>2, <1>5, WholeClass DEF Counts
    <3>2. s \in Slots /\ s[1] = g
      BY DEF OfClass
    <3>3. Cond(s).required # 0 /\ ~Spilled(s) => n.measured \in {0, Total(n.hits, s)}
      BY <3>1, <1>7 DEF MeasuredBy
    <3> QED BY <3>1, <3>2, <3>3, <1>7 DEF MeasuredBy, GroupMeasured
  <2> QED BY <2>1, <2>2
<1> QED BY <1>1, <1>4, <1>6, <1>7, <1>8, <1>9

\* What the last class decides, when it is evaluated and when it is skipped.
LEMMA OtherJudges ==
  ASSUME defn \in Definitions, NEW g \in DOMAIN defn.groups, NEW truth,
         NEW e \in Sound, ~e.is_paused,
         NothingSpilled(g, "other", 0) => e.add_hits = 0,
         NEW n, n = EvaluateOther(g, defn.groups[g], truth, e)
  PROVE  OthersJudged(g, e, n)
<1>1. CASE ~(e.is_true \/ ~e.was_reset)
  <2>1. n = e
    BY <1>1 DEF EvaluateOther
  <2> QED BY <2>1, <1>1 DEF OthersJudged
<1>2. CASE e.is_true \/ ~e.was_reset
  <2>1. n = EvaluateClass(g, defn.groups[g], "other", truth, e)
    BY <1>2 DEF EvaluateOther
  <2>2. ClassJudged(g, "other", Len(defn.groups[g]), e, n)
    BY <2>1, ClassJudges
  <2>3. Stage(g, "other", e, n)
    BY <2>1, ClassStage
  <2> QED BY <2>2, <2>3 DEF ClassJudged, Stage, OthersJudged
<1> QED BY <1>1, <1>2

\* A group that is true was not paused and has met its targets, and what it measured
\* is a total of its hits.
LEMMA TestCondsetJudges ==
  ASSUME defn \in Definitions, NEW g \in DOMAIN defn.groups, NEW truth, NEW e \in Evals
  PROVE  GroupJudged(g, TestCondset(g, defn.groups[g], truth, e))
<1> DEFINE group == defn.groups[g]
           b == BeginGroup(e)
           p == EvaluateClass(g, group, "pause", truth, b)
           r == EvaluateClass(g, group, "reset", truth, p)
           t == EvaluateHitTargets(g, group, truth, r)
           m == EvaluateMeasured(g, group, truth, t)
           o == EvaluateOther(g, group, truth, m)
           n == TestCondset(g, group, truth, e)
<1> SUFFICES GroupJudged(g, n)
  OBVIOUS
<1>1. /\ b \in Sound /\ b.is_true = TRUE /\ b.measured = NoMeasure
      /\ b.add_hits = 0 /\ b.is_paused = FALSE
  BY BeginGroupFacts, BeginGroupClears
<1>2. n = IF p.is_paused THEN p ELSE o
  BY DEF TestCondset, EvaluateUnpaused, EvaluateRest
<1> HIDE DEF n, b
<1>3. ClassJudged(g, "pause", Len(group), b, p)
  BY <1>1, ClassJudges
<1>4. p \in Sound /\ p.measured = NoMeasure /\ p.was_reset = b.was_reset
  BY <1>1, <1>3 DEF ClassJudged
<1> HIDE DEF p
<1>5. CASE p.is_paused
  <2>1. n = p
    BY <1>2, <1>5
  <2>2. ~p.is_true /\ MayPause(g)
    BY <1>1, <1>3, <1>5 DEF ClassJudged
  <2> QED BY <2>1, <2>2, <1>4, <1>5 DEF GroupJudged
<1>6. CASE ~p.is_paused
  <2>0. /\ {"pause", "reset"} \subseteq Classes \ {"other"}
        /\ {"reset", "hittarget", "measured"} \subseteq Classes
        /\ Rank["pause"] < Rank["reset"] /\ Rank["reset"] < Rank["hittarget"]
        /\ Rank["reset"] < Rank["measured"]
    BY DEF Classes, Rank
  <2>1. NothingSpilled(g, "reset", 0) => p.add_hits = 0
    BY <2>0, <1>3, <1>6, ClassSpends
  <2>2. ClassJudged(g, "reset", Len(group), p, r)
    BY <2>1, <1>4, ClassJudges
  <2> HIDE DEF r
  <2>3. /\ r \in Sound /\ ~r.is_paused /\ (r.is_true => p.is_true)
        /\ r.measured = NoMeasure
    BY <2>2, <1>4, <1>6 DEF ClassJudged, Sound, Evals
  <2>4. /\ NothingSpilled(g, "hittarget", 0) => r.add_hits = 0
        /\ NothingSpilled(g, "measured", 0) => r.add_hits = 0
    BY <2>0, <2>2, <2>3, ClassSpends
  <2>5. /\ t \in Sound /\ ~t.is_paused /\ (t.is_true => r.is_true)
        /\ t.was_reset = r.was_reset /\ t.measured = r.measured
        /\ NothingSpilled(g, "measured", 0) => t.add_hits = 0
        /\ ~t.was_reset /\ t.is_true =>
              \A s \in OfClass(g, "hittarget") :
                MustBeMet(s) => Total(t.hits, s) >= Cond(s).required
    <3>1. t = EvaluateHitTargets(g, defn.groups[g], truth, r)
      OBVIOUS
    <3> HIDE DEF t
    <3>2. HitTargetsJudged(g, r, t)
      BY <3>1, <2>3, <2>4, HitTargetsJudge
    <3> QED BY <3>2 DEF HitTargetsJudged
  <2> HIDE DEF t
  <2>6. /\ m \in Sound /\ ~m.is_paused /\ (m.is_true => t.is_true)
        /\ m.was_reset = t.was_reset
        /\ NothingSpilled(g, "other", 0) => m.add_hits = 0
        /\ m.is_true => \A s \in OfClass(g, "measured") :
                          MustBeMet(s) => Total(m.hits, s) >= Cond(s).required
        /\ m.measured = NoMeasure \/ GroupMeasured(g, m)
    BY <2>3, <2>5, MeasuredJudge
  <2>7. \A s \in Slots \ OfClass(g, "measured") : m.hits[s] = t.hits[s]
    BY <2>5, MeasuredStage DEF Stage
  <2> HIDE DEF m
  <2>8. /\ o \in Sound /\ ~o.is_paused /\ (o.is_true => m.is_true)
        /\ o.was_reset = m.was_reset
        /\ o.measured = m.measured /\ o.from_hits = m.from_hits
        /\ \A s \in Slots \ OfClass(g, "other") : o.hits[s] = m.hits[s]
    <3>1. o = EvaluateOther(g, defn.groups[g], truth, m)
      OBVIOUS
    <3> HIDE DEF o
    <3>2. OthersJudged(g, m, o)
      BY <3>1, <2>6, OtherJudges
    <3> QED BY <3>2 DEF OthersJudged
  <2> HIDE DEF o
  <2>9. ASSUME ~o.was_reset, o.is_true, NEW s \in Slots, s[1] = g, MustBeMet(s)
        PROVE  Total(o.hits, s) >= Cond(s).required
    <3>1. Cond(s).type \in Targets /\ Cond(s).required # 0
      BY <2>9 DEF MustBeMet, Targets
    <3>2. ClassOf(group, s[2]) \in {"hittarget", "measured"}
      BY <2>9, <3>1, TargetClasses
    <3>3. Total(o.hits, s) = Total(m.hits, s)
      BY <2>6, <2>8, <2>9, <3>1, <3>2, TotalKept
    <3>4. CASE ClassOf(group, s[2]) = "hittarget"
      <4>1. s \in OfClass(g, "hittarget")
        BY <2>9, <3>4 DEF OfClass
      <4>2. Total(m.hits, s) = Total(t.hits, s)
        BY <2>5, <2>6, <2>7, <2>9, <3>1, <3>4, TotalKept
      <4> QED BY <4>1, <4>2, <3>3, <2>5, <2>6, <2>8, <2>9
    <3>5. CASE ClassOf(group, s[2]) = "measured"
      <4>1. s \in OfClass(g, "measured")
        BY <2>9, <3>5 DEF OfClass
      <4> QED BY <4>1, <3>3, <2>6, <2>8, <2>9
    <3> QED BY <3>2, <3>4, <3>5
  <2>10. o.measured = NoMeasure \/ GroupMeasured(g, o)
    <3>1. SUFFICES ASSUME GroupMeasured(g, m) PROVE GroupMeasured(g, o)
      BY <2>6, <2>8
    <3>2. PICK s \in Slots :
            /\ s[1] = g /\ Cond(s).type = "Measured"
            /\ Cond(s).required # 0 => m.from_hits
            /\ ~m.was_reset /\ Cond(s).required # 0 /\ ~Spilled(s)
                 => m.measured \in {0, Total(m.hits, s)}
      BY <3>1 DEF GroupMeasured
    <3>3. Cond(s).required # 0 => Total(o.hits, s) = Total(m.hits, s)
      <4>1. Cond(s).type \in Targets
        BY <3>2 DEF Targets
      <4>2. Cond(s).required # 0 => ClassOf(group, s[2]) = "measured"
        BY <3>2, <4>1, TargetClasses
      <4> QED BY <4>1, <4>2, <3>2, <2>6, <2>8, TotalKept
    <3> QED BY <3>2, <3>3, <2>8 DEF GroupMeasured
  <2>11. n = o
    BY <1>2, <1>6
  <2> QED BY <2>8, <2>9, <2>10, <2>11 DEF GroupJudged
<1> QED BY <1>5, <1>6

\* Group g is not paused and has its targets met.
GroupMet(o, g) ==
  /\ g \notin o.groups
  /\ \A s \in Slots : s[1] = g /\ MustBeMet(s) => Total(o.hits, s) >= Cond(s).required

\* What a frame shows was measured by a condition of a group that is not paused.
FrameMeasured(o) ==
  \E s \in Slots :
    /\ Cond(s).type = "Measured" /\ s[1] \notin o.groups
    /\ Cond(s).required # 0 => o.from_hits
    /\ ~o.was_reset /\ Cond(s).required # 0 /\ ~Spilled(s)
         => o.measured \in {0, Total(o.hits, s)}

\* What a frame decides.
FrameJudged(o) ==
  /\ o.paused <=> Freezing(o.groups)
  /\ \A g \in o.groups : MayPause(g)
  /\ o.ready /\ ~o.was_reset =>
       /\ defn.core => GroupMet(o, 1)
       /\ AltGroups # {} => \E g \in AltGroups : GroupMet(o, g)
  /\ o.measured = NoMeasure \/ FrameMeasured(o)

\* The groups that follow leave the counts of a group alone, and a ResetIf stays known.
Kept(all, k, e) ==
  /\ e \in Evals
  /\ \A g \in 1 .. k : all[g].was_reset => e.was_reset
  /\ \A s \in Slots : s[1] <= k => e.hits[s] = all[s[1]].hits[s]

\* Groups evaluated later do not disturb what the first ones counted.
LEMMA GroupsKept ==
  ASSUME defn \in Definitions, hits \in Capped, NEW truth
  PROVE  Kept(GroupResults(truth), Len(defn.groups),
              Before(GroupResults(truth), Len(defn.groups) + 1))
<1> DEFINE all == GroupResults(truth)
           n == Len(defn.groups)
           At(g) == Before(all, g + 1)
           S == {g \in Nat : g <= n => Kept(all, g, At(g))}
<1>1. /\ all \in Seq(Sound) /\ Len(all) = n
      /\ \A g \in DOMAIN defn.groups :
           all[g] = TestCondset(g, defn.groups[g], truth, Before(all, g))
  BY GroupsUnfold
<1>2. n \in Nat /\ DOMAIN defn.groups = 1 .. n
  BY DefinitionFacts
<1>3. \A s \in Slots : s[1] \in 1 .. n
  BY SlotFacts, <1>2
<1> HIDE DEF all, n
<1>4. 0 \in S
  <2>1. FreshEval \in Evals
    BY FreshFacts DEF Sound
  <2>2. Kept(all, 0, FreshEval)
    BY <2>1, <1>3 DEF Kept
  <2> QED BY <2>2 DEF Before
<1>5. ASSUME NEW g \in Nat, g \in S PROVE g + 1 \in S
  <2> SUFFICES ASSUME g + 1 <= n PROVE Kept(all, g + 1, At(g + 1))
    OBVIOUS
  <2>1. g + 1 \in DOMAIN defn.groups /\ (g + 1) + 1 # 1 /\ ((g + 1) + 1) - 1 = g + 1
    BY <1>2
  <2>2. Kept(all, g, At(g))
    BY <1>5, <1>2
  <2>3. all[g + 1] = TestCondset(g + 1, defn.groups[g + 1], truth, At(g))
    BY <1>1, <2>1
  <2>4. At(g + 1) = all[g + 1]
    BY <2>1 DEF Before
  <2> HIDE DEF At
  <2>5. GroupTurned(g + 1, At(g), all[g + 1])
    BY <2>1, <2>2, <2>3, TestCondsetTurns DEF Kept
  <2>6. \A s \in Slots : s[1] <= g + 1 => s[1] = g + 1 \/ (s[1] <= g /\ s[1] # g + 1)
    BY <1>2, <1>3
  <2>7. \A i \in 1 .. (g + 1) : i = g + 1 \/ i \in 1 .. g
    OBVIOUS
  <2>8. all[g + 1] \in Evals
    BY <2>5 DEF GroupTurned, Sound
  <2> QED BY <2>2, <2>4, <2>5, <2>6, <2>7, <2>8 DEF Kept, GroupTurned
<1>6. Nat \subseteq S
  <2> HIDE DEF S
  <2> QED BY <1>4, <1>5, Induction
<1>7. Kept(all, n, At(n))
  BY <1>2, <1>6
<1> QED BY <1>7 DEF all, n

\* A frame whose verdict is true has met the targets that FiredMeansMet asks for, and
\* the number it measured is backed.
LEMMA FrameJudges ==
  ASSUME defn \in Definitions, hits \in Capped, NEW truth
  PROVE  FrameJudged(Evaluation(truth))
<1> DEFINE all == GroupResults(truth)
           n == Len(defn.groups)
           o == Evaluation(truth)
           end == IF all = <<>> THEN FreshEval ELSE all[Len(all)]
           best == FoldLeft(LAMBDA m, r : IF r.measured > m.measured THEN r ELSE m,
                            FreshEval, all)
           alts == IF defn.core THEN 2 .. Len(all) ELSE DOMAIN all
<1>1. /\ all \in Seq(Sound) /\ Len(all) = n
      /\ \A g \in DOMAIN defn.groups :
           all[g] = TestCondset(g, defn.groups[g], truth, Before(all, g))
  BY GroupsUnfold
<1>2. n \in Nat /\ DOMAIN defn.groups = 1 .. n /\ DOMAIN all = 1 .. n
  BY <1>1, DefinitionFacts
<1>3. o = Outcome(all)
  BY DEF Evaluation
<1>4. Kept(all, n, Before(all, n + 1))
  BY GroupsKept
<1>5. best \in {FreshEval} \cup {all[i] : i \in DOMAIN all}
  BY <1>1, BestFacts
<1> HIDE DEF o, n, all
<1>6. /\ o.ready <=> /\ defn.core => all[1].is_true
                     /\ alts # {} => \E g \in alts : all[g].is_true
      /\ o.paused <=> \/ defn.core /\ all[1].is_paused
                      \/ alts # {} /\ \A g \in alts : all[g].is_paused
      /\ o.groups = {g \in DOMAIN all : all[g].is_paused}
      /\ o.measured = best.measured /\ o.from_hits = best.from_hits
      /\ o.hits = end.hits /\ o.was_reset = end.was_reset
  <2>1. /\ o.ready <=> /\ defn.core => all[1].is_true
                       /\ alts # {} => \E g \in alts : all[g].is_true
        /\ o.paused <=> \/ defn.core /\ all[1].is_paused
                        \/ alts # {} /\ \A g \in alts : all[g].is_paused
    BY <1>3 DEF Outcome
  <2>2. o.measured = best.measured /\ o.from_hits = best.from_hits
    BY <1>3 DEF Outcome
  <2>3. o.groups = {g \in DOMAIN all : all[g].is_paused}
    BY <1>3 DEF Outcome
  <2>4. o.hits = end.hits /\ o.was_reset = end.was_reset
    BY <1>3 DEF Outcome
  <2> HIDE DEF end, best, alts
  <2> QED BY <2>1, <2>2, <2>3, <2>4
<1> HIDE DEF best
<1>7. ASSUME NEW g \in 1 .. n
      PROVE  all[g] \in Sound /\ GroupJudged(g, all[g])
  <2>1. Before(all, g) \in Evals
    <3>1. CASE g = 1
      BY <3>1, FreshFacts DEF Before, Sound
    <3>2. CASE g # 1
      <4>1. g - 1 \in 1 .. n
        BY <3>2, <1>2
      <4> QED BY <3>2, <4>1, <1>1, <1>2 DEF Before, Sound
    <3> QED BY <3>1, <3>2
  <2>2. all[g] = TestCondset(g, defn.groups[g], truth, Before(all, g))
        /\ g \in DOMAIN defn.groups /\ all[g] \in Sound
    BY <1>1, <1>2
  <2> QED BY <2>1, <2>2, TestCondsetJudges
<1>8. end = Before(all, n + 1)
  <2>1. CASE n = 0
    BY <2>1, <1>1 DEF Before
  <2>2. CASE n # 0
    <3>1. all # <<>> /\ n + 1 # 1 /\ (n + 1) - 1 = n
      BY <2>2, <1>1, <1>2
    <3> QED BY <3>1, <1>1 DEF Before
  <2> QED BY <2>1, <2>2
<1> HIDE DEF end
<1>9. alts = AltGroups
  <2>1. defn.core => 2 .. n = (1 .. n) \ {1}
    BY <1>2
  <2> QED BY <2>1, <1>1, <1>2 DEF AltGroups
<1>10. AltGroups \subseteq 1 .. n /\ (defn.core => 1 \in 1 .. n)
  <2>1. defn.core => n # 0
    BY DefinitionFacts DEF n
  <2> QED BY <2>1, <1>2 DEF AltGroups
<1> HIDE DEF alts
<1>11. \A g \in 1 .. n : g \in o.groups <=> all[g].is_paused
  BY <1>2, <1>6
<1>12. o.paused <=> Freezing(o.groups)
  BY <1>6, <1>9, <1>10, <1>11 DEF Freezing
<1>13. \A g \in o.groups : MayPause(g)
  BY <1>2, <1>6, <1>7 DEF GroupJudged
<1>14. /\ \A g \in 1 .. n : all[g].was_reset => o.was_reset
       /\ \A s \in Slots : s[1] \in 1 .. n /\ o.hits[s] = all[s[1]].hits[s]
  <2>1. \A s \in Slots : s[1] \in 1 .. n /\ s[1] <= n
    BY SlotFacts, <1>2
  <2> QED BY <2>1, <1>4, <1>6, <1>8 DEF Kept
<1>15. ASSUME NEW s \in Slots PROVE Total(o.hits, s) = Total(all[s[1]].hits, s)
  <2>1. s[1] \in 1 .. n /\ all[s[1]].hits \in [Slots -> Nat]
    BY <1>7, <1>14 DEF Sound, Evals, Capped
  <2>2. o.hits \in [Slots -> Nat]
    BY <1>4, <1>6, <1>8 DEF Kept, Evals, Capped
  <2>3. \A t \in Slots : Feeds(t, s) => o.hits[t] = all[s[1]].hits[t]
    BY <1>14 DEF Feeds
  <2>4. o.hits[s] = all[s[1]].hits[s]
    BY <1>14
  <2> QED BY <2>1, <2>2, <2>3, <2>4, TotalAlike
<1>16. ASSUME ~o.was_reset, NEW g \in 1 .. n, all[g].is_true PROVE GroupMet(o, g)
  <2>1. ~all[g].is_paused /\ ~all[g].was_reset
    BY <1>7, <1>14, <1>16 DEF GroupJudged
  <2>2. \A s \in Slots : s[1] = g /\ MustBeMet(s) => Total(all[g].hits, s) >= Cond(s).required
    BY <2>1, <1>7, <1>16 DEF GroupJudged
  <2> QED BY <2>1, <2>2, <1>11, <1>15 DEF GroupMet
<1>17. o.ready /\ ~o.was_reset =>
         /\ defn.core => GroupMet(o, 1)
         /\ AltGroups # {} => \E g \in AltGroups : GroupMet(o, g)
  BY <1>6, <1>9, <1>10, <1>16
<1>18. o.measured = NoMeasure \/ FrameMeasured(o)
  <2>1. CASE best = FreshEval
    <3>1. FreshEval.measured = NoMeasure
      BY DEF FreshEval, BeginGroup
    <3> QED BY <2>1, <3>1, <1>6
  <2>2. ASSUME NEW g \in 1 .. n, best = all[g]
        PROVE  o.measured = NoMeasure \/ FrameMeasured(o)
    <3>1. SUFFICES ASSUME all[g].measured # NoMeasure PROVE FrameMeasured(o)
      BY <2>2, <1>6
    <3>2. ~all[g].is_paused /\ GroupMeasured(g, all[g])
      BY <3>1, <1>7 DEF GroupJudged
    <3>3. PICK s \in Slots :
            /\ s[1] = g /\ Cond(s).type = "Measured"
            /\ Cond(s).required # 0 => all[g].from_hits
            /\ ~all[g].was_reset /\ Cond(s).required # 0 /\ ~Spilled(s)
                 => all[g].measured \in {0, Total(all[g].hits, s)}
      BY <3>2 DEF GroupMeasured
    <3>4. Total(o.hits, s) = Total(all[g].hits, s)
      BY <3>3, <1>15
    <3> QED BY <2>2, <3>2, <3>3, <3>4, <1>6, <1>11, <1>14 DEF FrameMeasured
  <2> QED BY <2>1, <2>2, <1>2, <1>5
<1> SUFFICES FrameJudged(o)
  BY DEF o
<1> QED BY <1>12, <1>13, <1>17, <1>18 DEF FrameJudged

-----------------------------------------------------------------------------
(* A trigger that fired has its targets met.                                *)

\* The totals are those of the definition, which does not change.
LEMMA SameTotals ==
  ASSUME defn' = defn
  PROVE  /\ \A s : Total(hits, s)' = Total(hits', s)
         /\ \A c, s : Total(c, s)' = Total(c, s)
<1>1. ASSUME NEW s PROVE Total(hits, s)' = Total(hits', s)
  BY DEF Total, Share, Feeds, Cond, FoldLeftDomain, FoldLeft, MapThenFoldSet
<1>2. ASSUME NEW c, NEW s PROVE Total(c, s)' = Total(c, s)
  BY DEF Total, Share, Feeds, Cond, FoldLeftDomain, FoldLeft, MapThenFoldSet
<1> QED BY <1>1, <1>2

\* What is said about a definition does not change while the definition does not.
LEMMA SameTargets ==
  ASSUME defn' = defn
  PROVE  /\ AltGroups' = AltGroups /\ MeasuredSlots' = MeasuredSlots /\ Slots' = Slots
         /\ \A s : (Spilled(s)' <=> Spilled(s)) /\ (MustBeMet(s)' <=> MustBeMet(s))
         /\ PausesTogether' <=> PausesTogether
         /\ MeasuresHits' <=> MeasuresHits
         /\ Freezing(paused)' <=> Freezing(paused')
         /\ \A groups : Freezing(groups)' <=> Freezing(groups)
<1> USE DEF Slots, Cond, Spilled, MustBeMet, AltGroups, MeasuredSlots, Feeds
<1>1. AltGroups' = AltGroups /\ MeasuredSlots' = MeasuredSlots /\ Slots' = Slots
  OBVIOUS
<1>2. ASSUME NEW s PROVE (Spilled(s)' <=> Spilled(s)) /\ (MustBeMet(s)' <=> MustBeMet(s))
  OBVIOUS
<1>3. PausesTogether' <=> PausesTogether
  BY DEF PausesTogether
<1>4. MeasuresHits' <=> MeasuresHits
  BY DEF MeasuresHits
<1>5. /\ Freezing(paused)' <=> Freezing(paused')
      /\ \A groups : Freezing(groups)' <=> Freezing(groups)
  BY DEF Freezing
<1> QED BY <1>1, <1>2, <1>3, <1>4, <1>5

\* A frame, in terms of what its groups decided.
LEMMA FrameDecision ==
  ASSUME IInv, Frame
  PROVE  \E o : /\ FrameTurned(o) /\ FrameJudged(o) /\ FrameEnds(o)
                /\ paused' = o.groups
<1>1. PICK truth \in SUBSET Slots :
        paused' = Evaluation(truth).groups /\ FrameEnds(Evaluation(truth))
  BY DEF Frame, FrameEnds
<1>2. FrameTurned(Evaluation(truth)) /\ FrameJudged(Evaluation(truth))
  BY FrameTurns, FrameJudges DEF IInv, TypesHold
<1> HIDE DEF FrameEnds
<1> QED BY <1>1, <1>2

\* What was met when the frame ended is met in the next state.
LEMMA MetNext ==
  ASSUME defn' = defn, NEW o, hits' = o.hits, paused' = o.groups, NEW g, GroupMet(o, g)
  PROVE  TargetsMet(g)' /\ g \notin paused'
<1>1. g \notin paused'
  BY DEF GroupMet
<1>2. \A s \in Slots : s[1] = g /\ MustBeMet(s) => Total(hits', s) >= Cond(s).required
  BY DEF GroupMet
<1>3. TargetsMet(g)'
  <2> SUFFICES ASSUME NEW s \in Slots', s[1] = g, MustBeMet(s)'
               PROVE  Total(hits, s)' >= Cond(s).required'
    BY DEF TargetsMet
  <2>1. s \in Slots /\ MustBeMet(s) /\ Total(hits, s)' = Total(hits', s)
        /\ Cond(s)' = Cond(s)
    BY SameTargets, SameTotals, SameDefinition
  <2> QED BY <2>1, <1>2
<1> QED BY <1>1, <1>3

\* A trigger that fired has every hit target of its core met, and those of some
\* alternative group.
THEOREM FiredAlwaysMet == Spec => []FiredMeansMet
<1>1. Init => FiredMeansMet
  BY DEF Init, FiredMeansMet
<1>2. IInv /\ FiredMeansMet /\ [Next]_vars => FiredMeansMet'
  <2> SUFFICES ASSUME IInv, FiredMeansMet, [Next]_vars, state' = "TRIGGERED"
               PROVE  /\ defn'.core => TargetsMet(1)' /\ 1 \notin paused'
                      /\ AltGroups' # {} =>
                           \E g \in AltGroups' : TargetsMet(g)' /\ g \notin paused'
    BY DEF FiredMeansMet
  <2>0. defn' = defn /\ AltGroups' = AltGroups
    BY SameTargets
       DEF Next, FrameIgnored, Frame, Owner, Reset, Stop, Serialize, Deserialize, vars
  <2>1. ASSUME state = "TRIGGERED", hits' = hits, paused' = paused
        PROVE  /\ defn'.core => TargetsMet(1)' /\ 1 \notin paused'
               /\ AltGroups' # {} =>
                    \E g \in AltGroups' : TargetsMet(g)' /\ g \notin paused'
    <3>1. ASSUME NEW g, TargetsMet(g), g \notin paused
          PROVE  TargetsMet(g)' /\ g \notin paused'
      <4> DEFINE o == [hits |-> hits, groups |-> paused]
      <4>1. GroupMet(o, g) /\ hits' = o.hits /\ paused' = o.groups
        BY <2>1, <3>1 DEF GroupMet, TargetsMet
      <4> HIDE DEF o
      <4> QED BY <4>1, <2>0, MetNext
    <3> QED BY <2>0, <2>1, <3>1 DEF FiredMeansMet
  <2>2. CASE Frame
    <3>1. PICK o : /\ FrameTurned(o) /\ FrameJudged(o) /\ FrameEnds(o)
                   /\ paused' = o.groups
      BY <2>2, FrameDecision
    <3>2. state \in {"WAITING", "ACTIVE", "PAUSED", "PRIMED"}
      BY <2>2 DEF Frame
    <3>3. \A b : SettledState(o, b) # "TRIGGERED"
      BY DEF SettledState
    <3>4. FrameFires(o)
      BY <3>1, <3>2, <3>3
         DEF FrameEnds, FrameReset, FrameResetNothing, FrameWaits, FrameSettles
    <3>5. /\ defn.core => GroupMet(o, 1)
          /\ AltGroups # {} => \E g \in AltGroups : GroupMet(o, g)
      BY <3>1, <3>4 DEF FrameFires, FrameJudged
    <3>6. hits' = o.hits
      BY <3>4 DEF FrameFires
    <3>7. \A g : GroupMet(o, g) => TargetsMet(g)' /\ g \notin paused'
      BY <3>1, <3>6, <2>0, MetNext
    <3> QED BY <2>0, <3>5, <3>7
  <2>3. CASE FrameIgnored \/ Serialize \/ UNCHANGED vars
    BY <2>1, <2>3 DEF FrameIgnored, Serialize, progress, vars
  <2>4. CASE Reset \/ Stop
    BY <2>4 DEF Reset, Rewound, Stop
  <2>5. CASE Deserialize
    BY <2>5 DEF Deserialize, Rewound, IInv, TypesHold, Saves
  <2> QED BY <2>2, <2>3, <2>4, <2>5 DEF Next, Owner
<1> QED BY <1>1, <1>2, TriggerInvariant, PTL DEF Spec

-----------------------------------------------------------------------------
(* A number that is shown is a number of hits.                              *)

\* The number is backed wherever it is kept, and a trigger that measures nothing
\* shows none.
Honest(value, counts, groups) ==
  Backed(value, counts, groups) /\ (MeasuredSlots = {} => value = 0)

\* The inductive invariant for MeasuredBacked: the number shown and those saved are backed,
\* each by the hits and the pauses it was shown or saved with.
NumbersBacked ==
  /\ MeasuredBacked
  /\ MeasuredSlots = {} => measured_value = 0
  /\ \A r \in saved : Honest(r.measured_value, r.hits, r.paused)

\* What is said about numbers depends on the definition, the number, the hits and the
\* pauses only.
LEMMA SameNumbers ==
  ASSUME defn' = defn
  PROVE  /\ Backed(measured_value, hits, paused)' <=> Backed(measured_value', hits', paused')
         /\ \A v, c, p : Honest(v, c, p)' <=> Honest(v, c, p)
<1>1. Backed(measured_value, hits, paused)' <=> Backed(measured_value', hits', paused')
  BY SameTargets, SameTotals DEF Backed
<1>2. ASSUME NEW v, NEW c, NEW p PROVE Honest(v, c, p)' <=> Honest(v, c, p)
  BY SameTargets, SameTotals DEF Backed, Honest
<1> QED BY <1>1, <1>2

\* Where everything pauses together, a paused trigger shows the hits of a condition of
\* its own, in a group that is paused.
LEMMA FrozenNumber ==
  ASSUME defn \in Definitions, hits \in Capped, NEW o, FrameTurned(o), FrameJudged(o),
         o.paused, PausesTogether, NEW s \in MeasuredSlots
  PROVE  /\ s[1] \in o.groups
         /\ o.hits[s] = hits[s]
         /\ Total(hits, s) = hits[s]
         /\ Total(o.hits, s) = hits[s]
<1>1. PICK g \in DOMAIN defn.groups :
        /\ \A u \in Slots : Cond(u).type = "PauseIf" => u[1] = g
        /\ \A u \in MeasuredSlots :
             /\ u[1] = g
             /\ \A t \in Slots :
                  Feeds(t, u) => Cond(t).type \notin {"AddHits", "SubHits", "ResetNextIf"}
  BY DEF PausesTogether
<1>2. s \in Slots /\ s[1] = g /\ Cond(s).type = "Measured"
  BY <1>1 DEF MeasuredSlots
<1>3. PICK i \in o.groups : TRUE
  BY DEF FrameJudged, Freezing
<1>4. g \in o.groups
  BY <1>1, <1>3 DEF FrameJudged, MayPause
<1>5. ClassOf(defn.groups[s[1]], s[2]) # "pause"
  <2>1. s[1] \in DOMAIN defn.groups /\ s[2] \in DOMAIN defn.groups[s[1]] /\ s = <<s[1], s[2]>>
    BY <1>2, SlotFacts
  <2> QED BY <2>1, <1>2, OwnClasses
<1>6. o.hits[s] = hits[s]
  BY <1>2, <1>4, <1>5 DEF FrameTurned
<1>7. ASSUME NEW c \in Capped PROVE Total(c, s) = c[s]
  <2>1. c \in [Slots -> Nat] /\ c[s] \in Nat
    BY <1>2 DEF Capped
  <2>2. Sums(c, s)[s[2] - 1] = Sums(c, s)[0]
    <3>1. s[2] - 1 \in 0 .. Len(defn.groups[s[1]]) /\ 0 \in 0 .. (s[2] - 1)
      BY <1>2, SlotFacts, DefinitionFacts
    <3>2. ASSUME NEW j \in (0 + 1) .. (s[2] - 1) PROVE Share(c, <<s[1], j>>, s) = 0
      <4>1. <<s[1], j>> \in Slots
        <5>1. /\ s[1] \in DOMAIN defn.groups /\ s[2] \in DOMAIN defn.groups[s[1]]
              /\ defn.groups[s[1]] \in Seq(Conditions)
          BY <1>2, SlotFacts, DefinitionFacts
        <5>2. j \in DOMAIN defn.groups[s[1]]
          BY <5>1
        <5> QED BY <5>1, <5>2, SlotFacts
      <4>2. Feeds(<<s[1], j>>, s) => Cond(<<s[1], j>>).type \notin {"AddHits", "SubHits"}
        BY <4>1, <1>1
      <4> QED BY <4>2 DEF Share
    <3> QED BY <3>1, <3>2, <2>1, <1>2, SumsIdle
  <2>3. SumRun(Sums(c, s), c, s)
    BY <2>1, <1>2, SumsFacts
  <2>4. Sums(c, s)[0] = 0
    BY <2>3 DEF SumRun
  <2>5. Total(c, s) = Larger(c[s] + 0, 0)
    BY <2>1, <2>2, <2>4, <1>2, TotalFacts
  <2> QED BY <2>1, <2>5 DEF Larger
<1>8. o.hits \in Capped
  BY DEF FrameTurned
<1> QED BY <1>2, <1>4, <1>6, <1>7, <1>8

\* A trigger that measures nothing shows nothing.
LEMMA NothingMeasured ==
  ASSUME NEW o, FrameJudged(o), MeasuredSlots = {}, measured_value = 0
  PROVE  NewMeasure(o) = 0 /\ ResetMeasure(o) = 0
<1>1. o.measured = NoMeasure
  BY DEF FrameJudged, FrameMeasured, MeasuredSlots
<1>2. NewMeasure(o) = 0
  BY <1>1 DEF NewMeasure, NoMeasure, Larger
<1> QED BY <1>2 DEF ResetMeasure

\* The number of a frame that was not reset.
LEMMA NewNumber ==
  ASSUME defn \in Definitions, hits \in Capped, measured_value \in Nat \cup {Unknown},
         NEW o, FrameTurned(o), FrameJudged(o), ~o.was_reset,
         Backed(measured_value, hits, paused)
  PROVE  Backed(NewMeasure(o), o.hits, o.groups)
<1> SUFFICES ASSUME NewMeasure(o) > 0, MeasuresHits, Freezing(o.groups) => PausesTogether
             PROVE  \E s \in MeasuredSlots : Total(o.hits, s) = NewMeasure(o)
  BY DEF Backed
<1>1. CASE o.paused
  <2>1. NewMeasure(o) = measured_value /\ PausesTogether
    BY <1>1 DEF NewMeasure, FrameJudged
  <2>2. PICK s \in MeasuredSlots : Total(hits, s) = measured_value
    BY <2>1 DEF Backed
  <2>3. Total(o.hits, s) = Total(hits, s)
    BY <2>1, <1>1, FrozenNumber
  <2> QED BY <2>1, <2>2, <2>3
<1>2. CASE ~o.paused
  <2>1. NewMeasure(o) = o.measured /\ o.measured \in Int /\ o.measured > 0
    <3>1. NewMeasure(o) = Larger(o.measured, 0) /\ o.measured \in Int
      BY <1>2 DEF NewMeasure, FrameTurned
    <3> QED BY <3>1 DEF Larger
  <2>2. FrameMeasured(o)
    BY <2>1 DEF FrameJudged, NoMeasure
  <2>3. PICK s \in MeasuredSlots :
          ~o.was_reset /\ Cond(s).required # 0 /\ ~Spilled(s)
            => o.measured \in {0, Total(o.hits, s)}
    BY <2>2 DEF FrameMeasured, MeasuredSlots
  <2>4. Cond(s).required # 0 /\ ~Spilled(s)
    BY DEF MeasuresHits
  <2> QED BY <2>1, <2>3, <2>4
<1> QED BY <1>1, <1>2

\* No number is left behind by a reset.
LEMMA ResetNumber ==
  ASSUME defn \in Definitions, hits \in Capped, measured_value \in Nat \cup {Unknown},
         NEW o, FrameTurned(o), FrameJudged(o), Backed(measured_value, hits, paused),
         NEW counts
  PROVE  Backed(ResetMeasure(o), counts, o.groups)
<1> SUFFICES ASSUME ResetMeasure(o) > 0, MeasuresHits, Freezing(o.groups) => PausesTogether
             PROVE  FALSE
  BY DEF Backed
<1>1. /\ ~o.from_hits /\ ~(o.paused /\ NewMeasure(o) # 0 /\ FrozenMeasure(o))
      /\ NewMeasure(o) > 0
  BY DEF ResetMeasure
<1>2. CASE o.paused
  <2>1. NewMeasure(o) = measured_value /\ PausesTogether /\ measured_value > 0
    BY <1>1, <1>2 DEF NewMeasure, FrameJudged
  <2>2. PICK s \in MeasuredSlots : Total(hits, s) = measured_value
    BY <2>1 DEF Backed
  <2>3. s[1] \in o.groups /\ o.hits[s] = measured_value
    BY <2>1, <2>2, <1>2, FrozenNumber
  <2>4. Cond(s).required # 0
    BY DEF MeasuresHits
  <2>5. FrozenMeasure(o)
    BY <2>3, <2>4 DEF FrozenMeasure
  <2> QED BY <2>1, <2>5, <1>1, <1>2
<1>3. CASE ~o.paused
  <2>1. o.measured # NoMeasure
    <3>1. NewMeasure(o) = Larger(o.measured, 0)
      BY <1>3 DEF NewMeasure
    <3> QED BY <3>1, <1>1 DEF Larger, NoMeasure
  <2>2. PICK s \in Slots : Cond(s).type = "Measured" /\ (Cond(s).required # 0 => o.from_hits)
    BY <2>1 DEF FrameJudged, FrameMeasured
  <2>3. Cond(s).required # 0
    BY <2>2 DEF MeasuresHits, MeasuredSlots
  <2> QED BY <2>2, <2>3, <1>1
<1> QED BY <1>2, <1>3

\* A frame keeps the numbers backed, whether it measured, reset, paused or fired.
LEMMA FrameBacks == IInv /\ NumbersBacked /\ Frame => NumbersBacked'
<1> SUFFICES ASSUME IInv, NumbersBacked, Frame PROVE NumbersBacked'
  OBVIOUS
<1>1. PICK o : /\ FrameTurned(o) /\ FrameJudged(o) /\ FrameEnds(o)
               /\ paused' = o.groups
  BY FrameDecision
<1>2. /\ defn' = defn /\ saved' = saved /\ defn \in Definitions /\ hits \in Capped
      /\ measured_value \in Nat \cup {Unknown}
      /\ Backed(measured_value, hits, paused)
      /\ MeasuredSlots = {} => measured_value = 0
  BY DEF Frame, IInv, TypesHold, NumbersBacked, MeasuredBacked
<1>3. MeasuredSlots' = MeasuredSlots
      /\ (Backed(measured_value, hits, paused)' <=> Backed(measured_value', hits', paused'))
      /\ \A v, c, p : Honest(v, c, p)' <=> Honest(v, c, p)
  BY <1>2, SameTargets, SameNumbers
<1>4. Backed(ResetMeasure(o), NoHits, o.groups)
  BY <1>1, <1>2, ResetNumber
<1>5. ~o.was_reset => Backed(NewMeasure(o), o.hits, o.groups)
  BY <1>1, <1>2, NewNumber
<1>6. MeasuredSlots = {} => NewMeasure(o) = 0 /\ ResetMeasure(o) = 0
  BY <1>1, <1>2, NothingMeasured
<1>7. ASSUME NEW v, v \in {0, Unknown}, NEW c, NEW p PROVE Backed(v, c, p)
  BY <1>7 DEF Backed, Unknown
<1>8. state' # "TRIGGERED" => Backed(measured_value', hits', paused')
  <2>1. CASE FrameReset(o) \/ FrameResetNothing(o)
    BY <2>1, <1>1, <1>4 DEF FrameReset, FrameResetNothing
  <2>2. CASE FrameWaits(o)
    <3>1. measured_value' \in {0, Unknown}
      BY <2>2, <1>6 DEF FrameWaits
    <3> QED BY <3>1, <1>7
  <2>3. CASE FrameFires(o)
    BY <2>3 DEF FrameFires
  <2>4. CASE FrameSettles(o)
    BY <2>4, <1>1, <1>5 DEF FrameSettles
  <2> QED BY <2>1, <2>2, <2>3, <2>4, <1>1 DEF FrameEnds
<1>9. MeasuredSlots = {} => measured_value' = 0
  <2>1. CASE FrameReset(o) \/ FrameResetNothing(o)
    BY <2>1, <1>6 DEF FrameReset, FrameResetNothing
  <2>2. CASE FrameWaits(o)
    BY <2>2, <1>6 DEF FrameWaits
  <2>3. CASE FrameFires(o) \/ FrameSettles(o)
    BY <2>3, <1>6 DEF FrameFires, FrameSettles
  <2> QED BY <2>1, <2>2, <2>3, <1>1 DEF FrameEnds
<1> QED BY <1>2, <1>3, <1>8, <1>9 DEF NumbersBacked, MeasuredBacked

\* What the owner does keeps the numbers backed.
LEMMA OwnerBacks == IInv /\ NumbersBacked /\ Owner => NumbersBacked'
<1> SUFFICES ASSUME IInv, NumbersBacked, Owner PROVE NumbersBacked'
  OBVIOUS
<1>1. defn' = defn
  BY DEF Owner, Reset, Stop, Serialize, Deserialize
<1>2. MeasuredSlots' = MeasuredSlots
      /\ (Backed(measured_value, hits, paused)' <=> Backed(measured_value', hits', paused'))
      /\ \A v, c, p : Honest(v, c, p)' <=> Honest(v, c, p)
  BY <1>1, SameTargets, SameNumbers
<1>3. ASSUME Rewound
      PROVE  /\ Backed(measured_value', hits', paused')
             /\ MeasuredSlots = {} => measured_value' = 0
  <2>1. measured_value' \in {0, Unknown} /\ (MeasuredSlots = {} => measured_value' = 0)
    BY <1>3 DEF Rewound, NumbersBacked
  <2> QED BY <2>1 DEF Backed, Unknown
<1>4. CASE Reset
  BY <1>2, <1>3, <1>4 DEF Reset, NumbersBacked, MeasuredBacked
<1>5. CASE Stop
  BY <1>2, <1>5 DEF Stop, progress, NumbersBacked, MeasuredBacked
<1>6. CASE Serialize
  <2>1. measured_value' = measured_value /\ hits' = hits /\ paused' = paused /\ state' = state
    BY <1>6 DEF Serialize, progress
  <2>2. \A r \in saved' : Honest(r.measured_value, r.hits, r.paused)
    <3>1. CASE state \in {"WAITING", "ACTIVE", "PAUSED", "PRIMED"}
      <4> DEFINE r == [state |-> state, measured_value |-> measured_value,
                       hits |-> hits, paused |-> paused, calm |-> calm]
      <4>1. saved' = {r}
        BY <3>1, <1>6 DEF Serialize
      <4>2. r.measured_value = measured_value /\ r.hits = hits /\ r.paused = paused
        OBVIOUS
      <4> HIDE DEF r
      <4>3. Honest(measured_value, hits, paused)
        BY <3>1 DEF NumbersBacked, MeasuredBacked, Honest
      <4> QED BY <4>1, <4>2, <4>3
    <3>2. CASE state \notin {"WAITING", "ACTIVE", "PAUSED", "PRIMED"}
      BY <3>2, <1>6 DEF Serialize
    <3> QED BY <3>1, <3>2
  <2> QED BY <2>1, <2>2, <1>2 DEF NumbersBacked, MeasuredBacked
<1>7. CASE Deserialize
  <2>1. saved' = saved /\ \A r \in saved : Honest(r.measured_value, r.hits, r.paused)
    BY <1>7 DEF Deserialize, NumbersBacked
  <2>2. CASE Rewound
    BY <2>1, <2>2, <1>2, <1>3 DEF NumbersBacked, MeasuredBacked
  <2>3. ASSUME NEW s \in saved, measured_value' = s.measured_value,
               hits' = s.hits, paused' = s.paused
        PROVE  NumbersBacked'
    <3>1. Honest(measured_value', hits', paused')
      BY <2>1, <2>3
    <3> QED BY <3>1, <2>1, <1>2 DEF NumbersBacked, MeasuredBacked, Honest
  <2> QED BY <2>2, <2>3, <1>7 DEF Deserialize
<1> QED BY <1>4, <1>5, <1>6, <1>7 DEF Owner

\* A measured hit count that is shown is the total of a measured condition.
THEOREM MeasuredAlwaysBacked == Spec => []MeasuredBacked
<1>1. Init => NumbersBacked
  <2> SUFFICES ASSUME Init PROVE NumbersBacked
    OBVIOUS
  <2>1. /\ measured_value \in {0, Unknown} /\ saved = {}
        /\ MeasuredSlots = {} => measured_value = 0
    BY DEF Init, InitialMeasure
  <2> QED BY <2>1 DEF NumbersBacked, MeasuredBacked, Backed, Unknown
<1>2. IInv /\ NumbersBacked /\ [Next]_vars => NumbersBacked'
  <2> SUFFICES ASSUME IInv, NumbersBacked, [Next]_vars PROVE NumbersBacked'
    OBVIOUS
  <2>1. CASE FrameIgnored \/ UNCHANGED vars
    <3>1. /\ defn' = defn /\ state' = state /\ measured_value' = measured_value
          /\ hits' = hits /\ paused' = paused /\ saved' = saved
      BY <2>1 DEF FrameIgnored, progress, vars
    <3>2. MeasuredSlots' = MeasuredSlots
          /\ (Backed(measured_value, hits, paused)'
                <=> Backed(measured_value', hits', paused'))
          /\ \A v, c, p : Honest(v, c, p)' <=> Honest(v, c, p)
      BY <3>1, SameTargets, SameNumbers
    <3> QED BY <3>1, <3>2 DEF NumbersBacked, MeasuredBacked
  <2>2. CASE Frame
    BY <2>2, FrameBacks
  <2>3. CASE Owner
    BY <2>3, OwnerBacks
  <2> QED BY <2>1, <2>2, <2>3 DEF Next
<1>3. NumbersBacked => MeasuredBacked
  BY DEF NumbersBacked
<1> QED BY <1>1, <1>2, <1>3, TriggerInvariant, PTL DEF Spec

-----------------------------------------------------------------------------
(* What the lifecycle guarantees, and so what a trigger does.                *)

\* What every state of the abstract trigger satisfies.
LifecycleInv == Lifecycle!TypeOK /\ Lifecycle!SettledIsCalm

\* An abstract trigger begins in its enumerations.
LEMMA LifecycleBegins == Lifecycle!Init => LifecycleInv
BY DEF Lifecycle!Init, LifecycleInv, Lifecycle!TypeOK, Lifecycle!SettledIsCalm

\* Every step of the lifecycle keeps its invariant.
LEMMA LifecycleKeeps ==
  LifecycleInv /\ [Lifecycle!Next]_(Lifecycle!vars) => LifecycleInv'
<1> SUFFICES ASSUME LifecycleInv, [Lifecycle!Next]_(Lifecycle!vars)
             PROVE  LifecycleInv'
  OBVIOUS
<1> USE DEF LifecycleInv, Lifecycle!TypeOK, Lifecycle!SettledIsCalm
<1>1. CASE Lifecycle!FrameIgnored
  BY <1>1 DEF Lifecycle!FrameIgnored
<1>2. CASE Lifecycle!FrameReset
  BY <1>2 DEF Lifecycle!FrameReset
<1>3. CASE Lifecycle!FrameSettles
  BY <1>3 DEF Lifecycle!FrameSettles
<1>4. CASE Lifecycle!FrameWaits
  BY <1>4 DEF Lifecycle!FrameWaits
<1>5. CASE Lifecycle!FrameFires
  BY <1>5 DEF Lifecycle!FrameFires
<1>6. CASE Lifecycle!HostResets
  BY <1>6 DEF Lifecycle!HostResets
<1>7. CASE Lifecycle!HostStops
  BY <1>7 DEF Lifecycle!HostStops
<1>8. CASE Lifecycle!HostRestores
  BY <1>8 DEF Lifecycle!HostRestores
<1>9. CASE Lifecycle!HostSaves
  BY <1>9 DEF Lifecycle!HostSaves
<1>10. CASE UNCHANGED Lifecycle!vars
  BY <1>10 DEF Lifecycle!vars
<1> QED
  BY <1>1, <1>2, <1>3, <1>4, <1>5, <1>6, <1>7, <1>8, <1>9, <1>10
     DEF Lifecycle!Next, Lifecycle!Frame, Lifecycle!Host

\* The state of a trigger and what it returns stay in their enumerations, and a
\* trigger that can fire has seen a frame that was not ready to.
THEOREM LifecycleInvariant == Lifecycle!Spec => []LifecycleInv
BY LifecycleBegins, LifecycleKeeps, PTL DEF Lifecycle!Spec

\* Only FrameFires returns TRIGGERED, from a state that is settled and so calm.
LEMMA LifecycleNeverFiresAtOnce == Lifecycle!Spec => Lifecycle!NeverFiresAtOnce
<1>1. LifecycleInv /\ [Lifecycle!Next]_(Lifecycle!vars) =>
        [result' = "TRIGGERED" /\ result # "TRIGGERED" => calm]_(Lifecycle!vars)
  <2> SUFFICES ASSUME LifecycleInv, Lifecycle!Next, result' = "TRIGGERED"
               PROVE  calm
    OBVIOUS
  <2>1. Lifecycle!FrameFires
    BY DEF Lifecycle!Next, Lifecycle!Frame, Lifecycle!Host, Lifecycle!FrameIgnored,
           Lifecycle!FrameReset, Lifecycle!FrameSettles, Lifecycle!FrameWaits,
           Lifecycle!HostResets, Lifecycle!HostStops, Lifecycle!HostRestores,
           Lifecycle!HostSaves
  <2> QED
    BY <2>1 DEF Lifecycle!FrameFires, LifecycleInv, Lifecycle!SettledIsCalm
<1> QED
  BY <1>1, LifecycleInvariant, PTL DEF Lifecycle!Spec, Lifecycle!NeverFiresAtOnce

\* In state TRIGGERED every frame is ignored.
LEMMA LifecycleFiresOnce == Lifecycle!Spec => Lifecycle!FiresOnce
<1>1. [Lifecycle!Next]_(Lifecycle!vars) =>
        [state = "TRIGGERED" => result' # "TRIGGERED"]_(Lifecycle!vars)
  BY DEF Lifecycle!Next, Lifecycle!Frame, Lifecycle!Host, Lifecycle!FrameIgnored,
         Lifecycle!FrameReset, Lifecycle!FrameSettles, Lifecycle!FrameWaits,
         Lifecycle!FrameFires, Lifecycle!HostResets, Lifecycle!HostStops,
         Lifecycle!HostRestores, Lifecycle!HostSaves
<1> QED
  BY <1>1, PTL DEF Lifecycle!Spec, Lifecycle!FiresOnce

\* No achievement fires on conditions that were true when it was activated, reset or
\* restored, and not false since.
THEOREM NeverAtOnce == Spec => Lifecycle!NeverFiresAtOnce
BY ImplementsLifecycle, LifecycleNeverFiresAtOnce DEF RefinesLifecycle

\* A trigger reports TRIGGERED in one frame only, until its owner resets or stops it.
THEOREM ReportedOnce == Spec => Lifecycle!FiresOnce
BY ImplementsLifecycle, LifecycleFiresOnce DEF RefinesLifecycle

================
