----------------------------- MODULE RcCondset -----------------------------
(***************************************************************************)
(* Evaluation of one condition group (rc_condset_t) for one frame.         *)
(*                                                                         *)
(* A group is a sequence of conditions [type, required]; required is the   *)
(* hit target, 0 for none.  What rc_test_condition reads from memory is an *)
(* input: the set of slots <<group, index>> whose comparison holds in this *)
(* frame.  The left operand a Measured condition reports is abstracted to  *)
(* 1 when its comparison holds and 0 when it does not.                     *)
(*                                                                         *)
(* The evaluation state e is rc_eval_state_t plus the hit counts, which    *)
(* are those of every slot of the trigger.  can_short_curcuit is never set *)
(* in src/, so the code it guards is left out.                             *)
(***************************************************************************)
EXTENDS Integers, Sequences, SequencesExt

CombiningTypes == {"AddHits", "SubHits", "ResetNextIf", "AndNext", "OrNext"}

ConditionTypes ==
  CombiningTypes \cup
    {"Standard", "PauseIf", "ResetIf", "Trigger", "Measured", "MeasuredIf"}

\* RC_VALUE_TYPE_NONE: the group captured no measured value.
NoMeasure == -1

Larger(a, b) == IF a > b THEN a ELSE b

-----------------------------------------------------------------------------
(* The parser sorts a group by classification, keeping a chain of combining *)
(* conditions with the condition it feeds.                                  *)

Classify(c) ==
  CASE c.type = "PauseIf"                   -> "pause"
    [] c.type = "ResetIf"                   -> "reset"
    [] c.type \in CombiningTypes            -> "combining"
    [] c.type \in {"Measured", "MeasuredIf"} -> "measured"
    [] OTHER -> IF c.required # 0 THEN "hittarget" ELSE "other"

\* The condition that ends the chain i belongs to, 0 if the group ends first.
ChainEnd(group, i) ==
  LET ends == {j \in i .. Len(group) : Classify(group[j]) # "combining"}
  IN IF ends = {} THEN 0 ELSE CHOOSE j \in ends : \A k \in ends : j <= k

ClassOf(group, i) ==
  IF ChainEnd(group, i) = 0 THEN "other" ELSE Classify(group[ChainEnd(group, i)])

-----------------------------------------------------------------------------
\* Mutant: the caller is not told that hits were cleared.
ClearedSilently(slot, e) == [e EXCEPT !.hits[slot] = 0, !.valid = FALSE]

\* A ResetNextIf was true.
Cleared(slot, e) ==
  [e EXCEPT !.was_cond_reset = @ \/ e.hits[slot] # 0, !.hits[slot] = 0, !.valid = FALSE]

\* Mutant: counting goes one past the target.
CountedPastTarget(c, slot, true, e) ==
  LET new == IF true /\ (c.required = 0 \/ e.hits[slot] <= c.required)
             THEN e.hits[slot] + 1 ELSE e.hits[slot]
  IN [e EXCEPT !.has_hits = @ \/ new > 0, !.hits[slot] = new,
               !.valid = new >= c.required /\ (true \/ new = c.required)]

\* Count a true condition up to its target; a target that is met stays met.
Counted(c, slot, true, e) ==
  LET old   == e.hits[slot]
      new   == IF true /\ (c.required = 0 \/ old < c.required) THEN old + 1 ELSE old
      valid == IF true THEN c.required = 0 \/ new >= c.required
                       ELSE old > 0 /\ old = c.required
  IN [e EXCEPT !.has_hits = @ \/ true \/ old > 0, !.hits[slot] = new, !.valid = valid]

\* rc_condset_evaluate_condition_no_add_hits: combine with the chain, tally.
Tally(c, slot, holds, e) ==
  LET true  == (holds /\ e.and_next) \/ e.or_next
      chain == [e EXCEPT !.and_next = TRUE, !.or_next = FALSE]
  IN IF e.reset_next THEN Cleared(slot, chain) ELSE Counted(c, slot, true, chain)

\* rc_condset_evaluate_total_hits
TotalHits(c, slot, e) ==
  IF c.required # 0 THEN Larger(e.hits[slot] + e.add_hits, 0) ELSE e.hits[slot]

\* The accumulator is spent on a hit target only.
Spent(c, slot, t) ==
  IF t.add_hits # 0 /\ c.required # 0
  THEN [t EXCEPT !.valid = TotalHits(c, slot, t) >= c.required, !.add_hits = 0]
  ELSE t

\* rc_condset_evaluate_condition
EvaluateCondition(c, slot, holds, e) ==
  [Spent(c, slot, Tally(c, slot, holds, e)) EXCEPT !.reset_next = FALSE]

\* What the types of condition make of it.
Standard(n) == [n EXCEPT !.is_true = @ /\ n.valid, !.is_primed = @ /\ n.valid]

PauseIf(c, slot, n) ==
  CASE n.valid -> [n EXCEPT !.is_paused = TRUE, !.is_true = FALSE, !.is_primed = FALSE]
    [] ~n.valid /\ c.required = 0 -> [n EXCEPT !.hits[slot] = 0]
    [] OTHER -> n

ResetIf(n) ==
  IF n.valid
  THEN [n EXCEPT !.was_reset = TRUE, !.is_true = FALSE, !.is_primed = FALSE]
  ELSE n

Trigger(n) == [n EXCEPT !.is_true = @ /\ n.valid]

MeasuredIf(n) == [Standard(n) EXCEPT !.can_measure = @ /\ n.valid]

\* Mutant: the target is compared with the condition's own hits.
MeasuredHitsAlone(c, slot, t) ==
  [Standard(t) EXCEPT !.measured = TotalHits(c, slot, t), !.from_hits = TRUE,
                      !.add_hits = 0, !.reset_next = FALSE]

\* Measured with a hit target: the total is measured, and compared.
MeasuredHits(c, slot, t) ==
  LET total == TotalHits(c, slot, t)
  IN [t EXCEPT !.is_true = @ /\ total >= c.required,
               !.is_primed = @ /\ total >= c.required,
               !.measured = total, !.from_hits = TRUE,
               !.add_hits = 0, !.reset_next = FALSE]

Measured(c, slot, holds, e) ==
  IF c.required = 0
  THEN [Standard(EvaluateCondition(c, slot, holds, e)) EXCEPT
          !.measured = IF holds THEN 1 ELSE 0, !.from_hits = FALSE]
  ELSE MeasuredHits(c, slot, Tally(c, slot, holds, e))

\* Conditions that only prepare the next one.
Combining(c, slot, n) ==
  CASE c.type = "AddHits"     -> [n EXCEPT !.add_hits = @ + n.hits[slot],
                                           !.reset_next = FALSE]
    [] c.type = "SubHits"     -> [n EXCEPT !.add_hits = @ - n.hits[slot],
                                           !.reset_next = FALSE]
    [] c.type = "ResetNextIf" -> [n EXCEPT !.reset_next = n.valid]
    [] c.type = "AndNext"     -> [n EXCEPT !.and_next = n.valid]
    [] c.type = "OrNext"      -> [n EXCEPT !.or_next = n.valid]

EvaluateSlot(c, slot, holds, e) ==
  CASE c.type = "Standard"   -> Standard(EvaluateCondition(c, slot, holds, e))
    [] c.type = "PauseIf"    -> PauseIf(c, slot, EvaluateCondition(c, slot, holds, e))
    [] c.type = "ResetIf"    -> ResetIf(EvaluateCondition(c, slot, holds, e))
    [] c.type = "Trigger"    -> Trigger(EvaluateCondition(c, slot, holds, e))
    [] c.type = "Measured"   -> Measured(c, slot, holds, e)
    [] c.type = "MeasuredIf" -> MeasuredIf(EvaluateCondition(c, slot, holds, e))
    [] OTHER                 -> Combining(c, slot, Tally(c, slot, holds, e))

-----------------------------------------------------------------------------
\* One turn of rc_test_condset_internal; only the pause class stops early.
EvaluateMember(g, group, class, truth, e, i) ==
  IF ClassOf(group, i) # class \/ (class = "pause" /\ e.is_paused)
  THEN e
  ELSE EvaluateSlot(group[i], <<g, i>>, <<g, i>> \in truth, e)

\* rc_test_condset_internal over one class of group g, in the order of the group.
EvaluateClass(g, group, class, truth, e) ==
  FoldLeftDomain(LAMBDA s, i : EvaluateMember(g, group, class, truth, s, i), e, group)

\* The start of rc_test_condset: processing state is reset, results are kept.
BeginGroup(e) ==
  [e EXCEPT !.measured = NoMeasure, !.from_hits = FALSE, !.can_measure = TRUE,
            !.is_true = TRUE, !.is_primed = TRUE, !.is_paused = FALSE,
            !.add_hits = 0, !.and_next = TRUE, !.or_next = FALSE, !.reset_next = FALSE]

\* Conditions with a hit target are left out when a ResetIf was true.
EvaluateHitTargets(g, group, truth, e) ==
  IF e.was_reset THEN e ELSE EvaluateClass(g, group, "hittarget", truth, e)

\* Hit counts of the measured class are dropped when a ResetIf was true.
WithoutMeasuredHits(g, group, e) ==
  LET measured == {i \in DOMAIN group : ClassOf(group, i) = "measured"}
  IN [e EXCEPT !.hits = [s \in DOMAIN @ |->
                           IF e.was_reset /\ s[1] = g /\ s[2] \in measured THEN 0 ELSE @[s]]]

\* What is measured counts for nothing unless it may be measured and was not reset.
MeasuredOrNothing(n) ==
  IF n.measured # NoMeasure /\ (~n.can_measure \/ (n.from_hits /\ n.was_reset))
  THEN [n EXCEPT !.measured = 0] ELSE n

EvaluateMeasured(g, group, truth, e) ==
  MeasuredOrNothing(
    EvaluateClass(g, group, "measured", truth, WithoutMeasuredHits(g, group, e)))

EvaluateOther(g, group, truth, e) ==
  IF e.is_true \/ ~e.was_reset THEN EvaluateClass(g, group, "other", truth, e) ELSE e

\* Everything but the pauses.
EvaluateRest(g, group, truth, e) ==
  EvaluateOther(g, group, truth,
    EvaluateMeasured(g, group, truth,
      EvaluateHitTargets(g, group, truth, EvaluateClass(g, group, "reset", truth, e))))

\* Mutant: a paused group is evaluated like any other.
EvaluateUnpausedAlways(g, group, truth, e) == EvaluateRest(g, group, truth, e)

EvaluateUnpaused(g, group, truth, e) ==
  IF e.is_paused THEN e ELSE EvaluateRest(g, group, truth, e)

\* rc_test_condset
TestCondset(g, group, truth, e) ==
  EvaluateUnpaused(g, group, truth, EvaluateClass(g, group, "pause", truth, BeginGroup(e)))
=============================================================================
