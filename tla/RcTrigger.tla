----------------------------- MODULE RcTrigger -----------------------------
(***************************************************************************)
(* A trigger (rc_trigger_t): an optional core group and alternative groups *)
(* of conditions, evaluated once per frame, reset or stopped by its owner, *)
(* and saved to and restored from save states by runtime_progress.c.       *)
(***************************************************************************)
EXTENDS RcCondset

CONSTANTS Definitions,  \* trigger definitions: [core : BOOLEAN, groups : Seq(group),
                        \* saves : BOOLEAN]; the first group is the requirement when
                        \* core is TRUE, and the owner serializes and deserializes
                        \* progress when saves is
          MaxTally      \* bound on hit counts without a target (uint32_t in the code)

ASSUME TriggerAssumption ==
  /\ MaxTally \in Nat
  /\ \A d \in Definitions : {d.core, d.saves} \subseteq BOOLEAN
  /\ \A d \in Definitions :
       d.groups \in Seq(Seq([type : ConditionTypes, required : Nat]))
  /\ \A d \in Definitions : d.core => d.groups # <<>>

VARIABLES defn,            \* the definition under test, never changed
          state, result,   \* rc_trigger_t.state, value returned by the last call
          has_hits, measured_value,
          hits,            \* current_hits of every condition
          paused,          \* groups whose is_paused is set
          calm,            \* history: see RcTriggerLifecycle
          saved            \* what the owner's save state holds for the trigger: a
                           \* set of at most one record

progress == <<has_hits, measured_value, hits, paused>>
vars == <<defn, state, result, progress, calm, saved>>

Lifecycle == INSTANCE RcTriggerLifecycle

\* RC_MEASURED_UNKNOWN
Unknown == -2

SlotsOf(d) == UNION {{<<g, i>> : i \in DOMAIN d.groups[g]} : g \in DOMAIN d.groups}
Slots == SlotsOf(defn)
Cond(s) == defn.groups[s[1]][s[2]]
MeasuredSlots == {s \in Slots : Cond(s).type = "Measured"}
NoHits == [s \in Slots |-> 0]

\* measured_target is non-zero exactly when a Measured condition was parsed.
InitialMeasure == IF MeasuredSlots # {} THEN Unknown ELSE 0

Init ==
  /\ defn \in Definitions
  /\ state = "WAITING"
  /\ result = "none"
  /\ has_hits = FALSE
  /\ measured_value = InitialMeasure
  /\ hits = NoHits
  /\ paused = {}
  /\ calm = FALSE
  /\ saved = {}

-----------------------------------------------------------------------------
\* The results every group of the trigger adds to.
FreshEval ==
  BeginGroup([measured |-> NoMeasure, from_hits |-> FALSE, can_measure |-> TRUE,
              is_true |-> TRUE, is_primed |-> TRUE, is_paused |-> FALSE,
              add_hits |-> 0, and_next |-> TRUE, or_next |-> FALSE,
              reset_next |-> FALSE, valid |-> FALSE, has_hits |-> FALSE,
              was_reset |-> FALSE, was_cond_reset |-> FALSE, hits |-> hits])

\* The evaluation state after each group, in order: the core, then the alternatives.
GroupResults(truth) ==
  Tail(FoldLeftDomain(
         LAMBDA done, g :
           Append(done, TestCondset(g, defn.groups[g], truth, done[Len(done)])),
         <<FreshEval>>, defn.groups))

\* What the loop over the groups in rc_evaluate_trigger makes of their results.
Outcome(all) ==
  LET alts == IF defn.core THEN 2 .. Len(all) ELSE DOMAIN all
      end  == IF all = <<>> THEN FreshEval ELSE all[Len(all)]
      best == FoldLeft(LAMBDA m, r : IF r.measured > m.measured THEN r ELSE m,
                       FreshEval, all)
  IN [ready    |-> /\ defn.core => all[1].is_true
                   /\ alts # {} => \E g \in alts : all[g].is_true,
      primed   |-> /\ defn.core => all[1].is_primed
                   /\ alts # {} => \E g \in alts : all[g].is_primed,
      paused   |-> \/ defn.core /\ all[1].is_paused
                   \/ alts # {} /\ \A g \in alts : all[g].is_paused,
      groups   |-> {g \in DOMAIN all : all[g].is_paused},
      measured |-> best.measured, from_hits |-> best.from_hits,
      hits     |-> end.hits, has_hits |-> end.has_hits,
      was_reset |-> end.was_reset, was_cond_reset |-> end.was_cond_reset]

Evaluation(truth) == Outcome(GroupResults(truth))

\* The measured value of a frame; a paused trigger keeps the old one.
NewMeasure(o) ==
  IF o.paused THEN measured_value ELSE Larger(o.measured, 0)

\* rc_condset_is_measured_from_hitcount over the paused groups.
FrozenMeasure(o) ==
  \E s \in MeasuredSlots : /\ s[1] \in o.groups
                           /\ Cond(s).required # 0
                           /\ o.hits[s] = measured_value

\* Mutant: the number frozen by a pause survives the reset.
ResetMeasureUnfrozen(o) == IF o.from_hits THEN 0 ELSE NewMeasure(o)

\* The measured value once a ResetIf was true.
ResetMeasure(o) ==
  IF o.from_hits \/ (o.paused /\ NewMeasure(o) # 0 /\ FrozenMeasure(o))
  THEN 0 ELSE NewMeasure(o)

SettledState(o, primed) ==
  CASE o.paused            -> "PAUSED"
    [] ~o.paused /\ primed -> "PRIMED"
    [] OTHER               -> "ACTIVE"

-----------------------------------------------------------------------------
(* rc_evaluate_trigger, one action per way a frame can end.                 *)

\* Hit counts without a target are kept below MaxTally.
WithinBound ==
  \A s \in Slots : Cond(s).required = 0 => hits[s] < MaxTally

FrameIgnored ==
  /\ state \in Lifecycle!IdleStates
  /\ result' = "INACTIVE"
  /\ UNCHANGED <<defn, state, progress, calm, saved>>

\* A ResetIf was true and there were hit counts to clear.
FrameReset(o) ==
  /\ o.was_reset /\ has_hits
  /\ state' = IF state = "PRIMED" THEN "ACTIVE" ELSE state
  /\ result' = "RESET"
  /\ has_hits' = FALSE
  /\ hits' = NoHits
  /\ measured_value' = ResetMeasure(o)

\* A ResetIf was true, but only this frame's hit counts were lost.
FrameResetNothing(o) ==
  /\ o.was_reset /\ ~has_hits
  /\ state' = SettledState(o, FALSE)
  /\ result' = IF o.was_cond_reset THEN "RESET" ELSE state'
  /\ has_hits' = FALSE
  /\ hits' = NoHits
  /\ measured_value' = ResetMeasure(o)

\* Ready to fire, but not yet seen false: rc_reset_trigger.
FrameWaits(o) ==
  /\ ~o.was_reset /\ o.ready /\ state = "WAITING"
  /\ state' = "WAITING"
  /\ result' = "WAITING"
  /\ has_hits' = FALSE
  /\ hits' = NoHits
  /\ measured_value' = IF MeasuredSlots # {} THEN Unknown ELSE NewMeasure(o)

\* Mutant: a trigger that is ready when it begins to wait fires.
FrameFiresAtOnce(o) ==
  /\ ~o.was_reset /\ o.ready
  /\ state' = "TRIGGERED"
  /\ result' = "TRIGGERED"
  /\ hits' = o.hits
  /\ measured_value' = NewMeasure(o)
  /\ UNCHANGED has_hits

FrameFires(o) ==
  /\ ~o.was_reset /\ o.ready /\ state # "WAITING"
  /\ state' = "TRIGGERED"
  /\ result' = "TRIGGERED"
  /\ hits' = o.hits
  /\ measured_value' = NewMeasure(o)
  /\ UNCHANGED has_hits

FrameSettles(o) ==
  /\ ~o.was_reset /\ ~o.ready
  /\ state' = SettledState(o, o.primed)
  /\ result' = IF o.was_cond_reset THEN "RESET" ELSE state'
  /\ has_hits' = o.has_hits
  /\ hits' = o.hits
  /\ measured_value' = NewMeasure(o)

Frame ==
  /\ state \in Lifecycle!ActiveStates
  /\ WithinBound
  /\ \E o \in {Evaluation(truth) : truth \in SUBSET Slots} :
       /\ paused' = o.groups
       /\ calm' = (calm \/ o.was_reset \/ ~o.ready)
       /\ \/ FrameReset(o)
          \/ FrameResetNothing(o)
          \/ FrameWaits(o)
          \/ FrameFires(o)
          \/ FrameSettles(o)
  /\ UNCHANGED <<defn, saved>>

-----------------------------------------------------------------------------
(* What the owner of the trigger does between frames.                       *)

\* The effect of rc_reset_trigger; is_paused is not touched.
Rewound ==
  /\ state' = "WAITING"
  /\ has_hits' = FALSE
  /\ hits' = NoHits
  /\ measured_value' = IF MeasuredSlots # {} THEN Unknown ELSE measured_value
  /\ calm' = FALSE
  /\ UNCHANGED paused

Reset ==
  /\ Rewound
  /\ result' = "none"
  /\ UNCHANGED <<defn, saved>>

\* The owner deactivates the achievement, or finds its memory unreadable.
Stop ==
  /\ state' \in {"INACTIVE", "DISABLED"}
  /\ result' = "none"
  /\ calm' = FALSE
  /\ UNCHANGED <<defn, progress, saved>>

\* rc_runtime_progress_write_trigger: nothing is stored for an inactive trigger,
\* and has_hits is not part of what is.
Serialize ==
  /\ defn.saves
  /\ saved' = IF state \in Lifecycle!ActiveStates
              THEN {[state |-> state, measured_value |-> measured_value,
                     hits |-> hits, paused |-> paused, calm |-> calm]}
              ELSE {}
  /\ result' = "none"
  /\ UNCHANGED <<defn, state, progress, calm>>

\* rc_runtime_deserialize_progress: an active trigger takes the saved state, or
\* is reset when the save state has none for it or cannot be read.
Deserialize ==
  /\ defn.saves
  /\ state \in Lifecycle!ActiveStates
  /\ result' = "none"
  /\ \/ \E s \in saved :
          /\ state' = s.state
          /\ measured_value' = s.measured_value
          /\ hits' = s.hits
          /\ paused' = s.paused
          /\ calm' = s.calm
          /\ UNCHANGED has_hits
     \/ Rewound
  /\ UNCHANGED <<defn, saved>>

Owner == Reset \/ Stop \/ Serialize \/ Deserialize

Next == FrameIgnored \/ Frame \/ Owner

Spec == Init /\ [][Next]_vars

-----------------------------------------------------------------------------
TypeOK ==
  /\ state \in Lifecycle!ActiveStates \cup Lifecycle!IdleStates
  /\ has_hits \in BOOLEAN
  /\ hits \in [Slots -> Nat]
  /\ measured_value \in Nat \cup {Unknown}
  /\ paused \subseteq DOMAIN defn.groups

\* The state has its types, and a hit count with a target stops at the target,
\* through every combination of chains, pauses and resets: required_hits =
\* current_hits is tested with ==.
HitsWithinTarget ==
  /\ TypeOK
  /\ \A s \in Slots : Cond(s).required # 0 => hits[s] <= Cond(s).required

\* A frame never drops a hit count silently: it returns RESET (or the trigger
\* fires).  For that has_hits has to cover the hits of groups that were paused and
\* so not evaluated in the last frame.  The exception is a PauseIf without target,
\* whose count means only that it was true in the last frame; and hits restored
\* from a save state are not known to has_hits.
LostHitsAnnounced ==
  [][(/\ result' # "none" /\ ~defn.saves
      /\ \E s \in Slots : /\ hits'[s] < hits[s]
                          /\ ~(Cond(s).type = "PauseIf" /\ Cond(s).required = 0))
       => result' \in {"RESET", "TRIGGERED"}]_vars

\* The hit counts of a paused group are frozen: only a ResetIf of another group
\* or the owner changes them.  (See LostHitsAnnounced for save states.)
PausedGroupsKeepHits ==
  [][(~defn.saves /\ result' \notin {"none", "RESET"}) =>
       \A s \in Slots :
         (s[1] \in paused' /\ ClassOf(defn.groups[s[1]], s[2]) # "pause")
           => hits'[s] = hits[s]]_vars

\* The chain of combining conditions that t is part of ends at s.
Feeds(t, s) ==
  /\ t[1] = s[1] /\ t[2] < s[2]
  /\ ChainEnd(defn.groups[s[1]], t[2]) = s[2]

\* The hits t adds to the total of s, whose chain it may be part of.
Share(counts, t, s) ==
  CASE Feeds(t, s) /\ Cond(t).type = "AddHits" -> counts[t]
    [] Feeds(t, s) /\ Cond(t).type = "SubHits" -> -counts[t]
    [] OTHER -> 0

\* The hits counted towards the target of s: its own and those of the AddHits and
\* SubHits conditions of its chain.
Total(counts, s) ==
  Larger(counts[s] + FoldLeftDomain(LAMBDA sum, i : sum + Share(counts, <<s[1], i>>, s),
                                    0, defn.groups[s[1]]), 0)

\* The order in which the classes of a group are evaluated.
Rank == [pause |-> 1, reset |-> 2, hittarget |-> 3, measured |-> 4, other |-> 5]

EvaluatedBefore(group, j, i) ==
  LET at == Rank[ClassOf(group, j)]
      to == Rank[ClassOf(group, i)]
  IN at < to \/ (at = to /\ j < i)

\* Hits tallied for a condition without a target are not dropped, whatever the
\* comment says ("we can't tell if the add_hits value is from this frame or not,
\* so ignore it"): they are added to the next condition with a target, here s, be
\* it one of a later class.
Spilled(s) ==
  \E t \in Slots :
    LET group == defn.groups[s[1]]
        end   == ChainEnd(group, t[2])
    IN /\ t[1] = s[1] /\ Cond(t).type \in {"AddHits", "SubHits"}
       /\ end # 0 /\ group[end].required = 0
       /\ EvaluatedBefore(group, end, s[2])

\* The conditions whose target the group has to meet, one and all.
MustBeMet(s) ==
  /\ Cond(s).required # 0
  /\ Cond(s).type \in {"Standard", "Trigger", "Measured", "MeasuredIf"}
  /\ ~Spilled(s)

TargetsMet(g) ==
  \A s \in Slots : s[1] = g /\ MustBeMet(s) => Total(hits, s) >= Cond(s).required

\* The groups after the core.
AltGroups == (DOMAIN defn.groups) \ (IF defn.core THEN {1} ELSE {})

\* A trigger that fired has every hit target of its core met, and those of some
\* alternative group that is not paused; targets with hits Spilled to them are
\* the exception.
FiredMeansMet ==
  state = "TRIGGERED" =>
    /\ defn.core => TargetsMet(1) /\ 1 \notin paused
    /\ AltGroups # {} => \E g \in AltGroups : TargetsMet(g) /\ g \notin paused

\* Pauses of the groups that kept the last frame from capturing a measured value.
Freezing(groups) ==
  \/ defn.core /\ 1 \in groups
  \/ AltGroups # {} /\ AltGroups \subseteq groups

\* Whatever can pause is in the group that measures, and the measured conditions
\* count on their own.
PausesTogether ==
  \E g \in DOMAIN defn.groups :
    /\ \A s \in Slots : Cond(s).type = "PauseIf" => s[1] = g
    /\ \A s \in MeasuredSlots :
         /\ s[1] = g
         /\ \A t \in Slots :
              Feeds(t, s) => Cond(t).type \notin {"AddHits", "SubHits", "ResetNextIf"}

\* Every measured condition measures hits, its own and those of its chain.
MeasuresHits == \A s \in MeasuredSlots : Cond(s).required # 0 /\ ~Spilled(s)

Backed(value, counts, groups) ==
  (value > 0 /\ MeasuresHits /\ (Freezing(groups) => PausesTogether)) =>
    \E s \in MeasuredSlots : Total(counts, s) = value

\* A measured hit count that is shown is the total of a measured condition: no
\* ResetIf, in whatever group, leaves an old number behind.  For a trigger that is
\* paused this takes a definition whose groups pause together, because the code
\* guesses where the number came from: rc_condset_is_measured_from_hitcount compares
\* it with the hits of a condition alone.
MeasuredBacked ==
  state \in Lifecycle!ActiveStates => Backed(measured_value, hits, paused)

\* Every frame of the conditions is one the callers of the trigger may expect.
RefinesLifecycle == Lifecycle!Spec
=============================================================================
