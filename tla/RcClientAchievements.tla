------------------------ MODULE RcClientAchievements ------------------------
(***************************************************************************)
(* The achievements of a game while it is played: which are active in the  *)
(* current mode, what is awarded, the challenge indicators of achievements *)
(* that are primed, the progress indicator, and mastery.                   *)
(*                                                                         *)
(* Every action is one call of the host, with the events it raises before  *)
(* it returns, or the answer to an award.  What the conditions of a        *)
(* trigger make of a frame is a choice within RcTriggerLifecycle; PAUSED   *)
(* counts as ACTIVE, the client does not tell them apart.  How an award    *)
(* reaches the server is RcClientSubmit.                                   *)
(***************************************************************************)
EXTENDS RcClientProgress, Sequences, SequencesExt

CONSTANTS Count,   \* number of achievements, processed in order
          Hosts    \* hosts to consider, one is chosen:
                   \* saves    saves and restores progress
                   \* fails    has memory that may turn out to be unreadable
                   \* encores  switches encore mode on and off
                   \* submits  not in spectator mode

Achievements == 1 .. Count

ASSUME AchievementAssumption ==
  /\ Count \in Nat
  /\ Hosts \subseteq [saves : BOOLEAN, fails : BOOLEAN, encores : BOOLEAN, submits : BOOLEAN]

VARIABLES host,       \* never changes
          loaded,     \* client->game is not NULL
          ach,        \* of each achievement: see TypeOK
          tracker,    \* progress_tracker
          listed,     \* achievements in runtime.triggers
          mastery,
          hardcore, encore, waiting_for_reset,
          inflight,   \* awards the server has not answered
          crashed,    \* the NULL game was used
          saved,      \* a save state: at most one function from achievements to
                      \* what is stored for them
          encored,    \* history: encore mode was on since the game was loaded
          raised, popup, announced  \* events of the last call: challenge
                                    \* indicators, progress indicator, others

settings == <<host, loaded, hardcore, encore, waiting_for_reset, saved, encored>>
game == [ach |-> ach, tracker |-> tracker]
vars == <<settings, ach, tracker, listed, mastery, inflight, crashed, raised, popup,
          announced>>

Modes == {"SOFTCORE", "HARDCORE"}
Mode(h) == IF h THEN "HARDCORE" ELSE "SOFTCORE"

\* The states rc_client tells apart.
ActiveTriggers == {"WAITING", "ACTIVE", "PRIMED"}

\* unlocked by an award, or by an answer to the request for unlocks
Unlocks == {{}, {"SOFTCORE"}, Modes}

\* softcore is history: something may have been counted in softcore.
NewAchievement(unlocked) ==
  [public |-> "INACTIVE", unlocked |-> unlocked, trigger |-> "WAITING", pending |-> {},
   softcore |-> FALSE]

Init ==
  /\ host \in Hosts
  /\ loaded = FALSE
  /\ ach = [a \in Achievements |-> NewAchievement({})]
  /\ tracker = NoTracker
  /\ listed = {} /\ mastery = "NONE"
  /\ hardcore \in BOOLEAN /\ encore = FALSE /\ waiting_for_reset = FALSE
  /\ inflight = {} /\ crashed = FALSE /\ saved = {} /\ encored = FALSE
  /\ raised = <<>> /\ popup = <<>> /\ announced = {}

-----------------------------------------------------------------------------
\* rc_reset_trigger: nothing counted in softcore is left.
ResetTrigger(x) == [x EXCEPT !.trigger = "WAITING", !.softcore = FALSE]

Primed(x) == x.public = "ACTIVE" /\ x.trigger = "PRIMED"

Active(s) == {a \in Achievements : s[a].public = "ACTIVE"}

\* One event for each achievement that has one, in their order.
InOrder(kinds) ==
  FoldLeftDomain(LAMBDA events, a : IF kinds[a] = "none" THEN events
                                    ELSE Append(events, [type |-> kinds[a], id |-> a]),
                 <<>>, kinds)

\* Mutant: what is unlocked in the new mode stays active.
SwitchedStays(x, bit, enc) ==
  IF bit \notin x.unlocked /\ x.public \in {"UNLOCKED", "INACTIVE"}
  THEN [ResetTrigger(x) EXCEPT !.public = "ACTIVE"] ELSE x

\* rc_client_subset_toggle_hardcore_achievements, for one achievement.
Switched(x, bit, enc) ==
  CASE bit \notin x.unlocked /\ x.public \in {"UNLOCKED", "INACTIVE"} ->
         [ResetTrigger(x) EXCEPT !.public = "ACTIVE"]
    [] bit \in x.unlocked /\ x.public \in {"ACTIVE", "INACTIVE"} /\ ~enc ->
         [x EXCEPT !.public = "UNLOCKED",
                   !.trigger = IF @ \in ActiveTriggers THEN "TRIGGERED" ELSE @]
    [] OTHER -> x

Toggled(s, bit) == [a \in Achievements |-> Switched(s[a], bit, encore)]

\* The events it raises itself, inside the critical section of its caller.
ToggleEvents(s, bit) ==
  InOrder([a \in Achievements |->
             IF Primed(s[a]) /\ ~Primed(Toggled(s, bit)[a]) THEN "HIDE" ELSE "none"])

-----------------------------------------------------------------------------
(* Raising events: operators on [ach, tracker].                             *)

\* rc_client_award_achievement
Awarded(x) ==
  [x EXCEPT !.public = "UNLOCKED",
            !.unlocked = @ \cup (IF hardcore THEN Modes ELSE {"SOFTCORE"})]

Fired(c) == {a \in Achievements : "TRIGGERED" \in c.ach[a].pending}

\* The indicator events of rc_client_raise_achievement_events.
IndicatorEvents(c) ==
  LET kind(p) == CASE "HIDE" \in p                    -> "HIDE"
                   [] "HIDE" \notin p /\ "SHOW" \in p -> "SHOW"
                   [] OTHER                           -> "none"
  IN InOrder([a \in Achievements |-> kind(c.ach[a].pending)])

\* Its effect on the achievements.
Raised(c) ==
  [a \in Achievements |->
     [(IF a \in Fired(c) THEN Awarded(c.ach[a]) ELSE c.ach[a]) EXCEPT !.pending = {}]]

\* The list is updated when something was awarded.
ListedAfter(c, list) == IF Fired(c) # {} THEN Active(Raised(c)) ELSE list

\* rc_client_raise_pending_events, after `before' has been raised, and when `idles'
\* before rc_client_idle in the same call.
RaisePendingEvents(c, before, list, idles) ==
  LET t == TrackerRaised(c.tracker)
  IN /\ raised' = before \o IndicatorEvents(c)
     /\ popup' = TrackerEvents(c.tracker) \o (IF idles THEN ElapsedEvents(t) ELSE <<>>)
     /\ announced' = {[type |-> "TRIGGERED", id |-> a] : a \in Fired(c)} \cup
                       {[type |-> "COMPLETED", id |-> 0] : m \in {mastery} \cap {"PENDING"}}
     /\ mastery' = IF mastery = "PENDING" THEN "SHOWN" ELSE mastery
     /\ ach' = Raised(c)
     /\ tracker' = IF idles THEN Elapsed(t) ELSE t
     /\ listed' = ListedAfter(c, list)
     /\ inflight' = IF host.submits THEN inflight \cup Fired(c) ELSE inflight

\* The host has handled the events of the last call.
Ready == raised = <<>> /\ popup = <<>> /\ announced = {}

Handled ==
  /\ ~Ready
  /\ raised' = <<>> /\ popup' = <<>> /\ announced' = {}
  /\ UNCHANGED <<settings, ach, tracker, listed, mastery, inflight, crashed>>

-----------------------------------------------------------------------------
(* rc_client_do_frame, which ends with rc_client_idle.                      *)

\* rc_client_invalidate_memref_achievements
Invalidated(failing) ==
  [a \in Achievements |->
     IF a \in failing /\ ach[a].public # "DISABLED"
     THEN [ach[a] EXCEPT !.public = "DISABLED", !.trigger = "DISABLED"] ELSE ach[a]]

\* Where the trigger of an active achievement may be after a frame.
Evaluated(x) ==
  CASE x.public = "ACTIVE" /\ x.trigger = "WAITING"           -> ActiveTriggers
    [] x.public = "ACTIVE" /\ x.trigger \in {"ACTIVE", "PRIMED"} ->
         {"ACTIVE", "PRIMED", "TRIGGERED"}
    [] OTHER                                                  -> {x.trigger}

\* rc_client_do_frame_process_achievements, for one achievement; what is counted in
\* softcore is remembered.
Processed(x, next) ==
  IF x.public # "ACTIVE" \/ x.trigger \notin ActiveTriggers THEN x
  ELSE [x EXCEPT
          !.trigger = next,
          !.softcore = IF next = "WAITING" THEN FALSE ELSE @ \/ ~hardcore,
          !.pending =
            CASE next = x.trigger                           -> {}
              [] next = "PRIMED" /\ next # x.trigger        -> {"SHOW"}
              [] next = "TRIGGERED" /\ x.trigger = "PRIMED" -> {"HIDE", "TRIGGERED"}
              [] next = "TRIGGERED" /\ x.trigger # "PRIMED" -> {"TRIGGERED"}
              [] next = "ACTIVE" /\ x.trigger = "PRIMED"    -> {"HIDE"}
              [] OTHER                                      -> {}]

\* A measured value may change for an achievement that has not fired.
MayProgress(before, s) ==
  \E a \in Achievements : before[a].public = "ACTIVE" /\ s[a].trigger \in {"ACTIVE", "PRIMED"}

DoFrame ==
  /\ loaded /\ Ready /\ ~waiting_for_reset
  /\ \E failing \in IF host.fails THEN SUBSET Achievements ELSE {{}} :
     \E next \in [Achievements -> ActiveTriggers \cup {"TRIGGERED", "DISABLED"}] :
     \E progress \in BOOLEAN :
       LET before == Invalidated(failing)
           after  == [a \in Achievements |-> Processed(before[a], next[a])]
       IN /\ \A a \in Achievements : next[a] \in Evaluated(before[a])
          /\ progress => MayProgress(before, after)
          /\ RaisePendingEvents(
               [ach |-> after,
                tracker |-> IF progress THEN UpdateTracker(tracker) ELSE tracker],
               <<>>, IF failing = {} THEN listed ELSE Active(before), TRUE)
  /\ UNCHANGED <<settings, crashed>>

\* rc_client_idle, and rc_client_do_frame while it waits for a reset.
Idle ==
  /\ loaded /\ Ready /\ IsDue(tracker)
  /\ popup' = ElapsedEvents(tracker)
  /\ tracker' = Elapsed(tracker)
  /\ UNCHANGED <<settings, ach, listed, mastery, inflight, crashed, raised, announced>>

Tick ==
  /\ tracker.queued /\ tracker.timer > 0
  /\ tracker' = [tracker EXCEPT !.timer = @ - 1]
  /\ UNCHANGED <<settings, ach, listed, mastery, inflight, crashed, raised, popup,
                 announced>>

-----------------------------------------------------------------------------
(* Loading, unloading, resetting, switching modes.                          *)

\* rc_client_activate_achievements for a game that has just been loaded, with the
\* unlocks the server knows.  In spectator mode they are not asked for.
LoadGame ==
  /\ ~loaded /\ Ready
  /\ \E unlocked \in [Achievements -> IF host.submits THEN Unlocks ELSE {{}}] :
       LET new == [a \in Achievements |-> NewAchievement(unlocked[a])]
           bit == IF encore THEN "NONE" ELSE Mode(hardcore)
       IN ach' = Toggled(new, bit)
  /\ listed' = Active(ach')
  /\ loaded' = TRUE /\ encored' = encore /\ waiting_for_reset' = FALSE
  /\ mastery' = "NONE"
  /\ UNCHANGED <<host, hardcore, encore, saved, tracker, inflight, crashed, raised, popup,
                 announced>>

\* rc_client_unload_game
Unload ==
  /\ loaded /\ Ready
  /\ RaisePendingEvents(
       [ach |-> [a \in Achievements |->
                   [ach[a] EXCEPT !.pending = IF Primed(ach[a]) THEN {"HIDE"} ELSE {}]],
        tracker |-> HideTracker(tracker)], <<>>, listed, FALSE)
  /\ loaded' = FALSE
  /\ UNCHANGED <<host, hardcore, encore, waiting_for_reset, saved, encored, crashed>>

\* Mutant: only achievements that are primed are reset.
ResetPrimed(s) ==
  [a \in Achievements |->
     IF Primed(s[a]) THEN [ResetTrigger(s[a]) EXCEPT !.pending = @ \cup {"HIDE"}] ELSE s[a]]

\* rc_client_subset_reset_achievements
ResetAchievements(s) ==
  [a \in Achievements |->
     CASE Primed(s[a]) -> [ResetTrigger(s[a]) EXCEPT !.pending = @ \cup {"HIDE"}]
       [] ~Primed(s[a]) /\ s[a].public = "ACTIVE" -> ResetTrigger(s[a])
       [] OTHER -> s[a]]

\* rc_client_reset
Reset ==
  /\ loaded /\ Ready
  /\ waiting_for_reset' = FALSE
  /\ RaisePendingEvents([ach |-> ResetAchievements(ach), tracker |-> HideTracker(tracker)],
                        <<>>, listed, FALSE)
  /\ UNCHANGED <<host, loaded, hardcore, encore, saved, encored, crashed>>

\* rc_client_enable_hardcore; only its RESET event is raised outside the lock.
EnableHardcore ==
  /\ Ready /\ ~hardcore
  /\ hardcore' = TRUE
  /\ waiting_for_reset' = loaded
  /\ IF loaded
     THEN /\ ach' = Toggled(ach, "HARDCORE")
          /\ raised' = ToggleEvents(ach, "HARDCORE")
          /\ listed' = Active(ach')
     ELSE UNCHANGED <<ach, raised, listed>>
  /\ UNCHANGED <<host, loaded, encore, saved, encored, tracker, mastery, inflight, crashed,
                 popup, announced>>

\* rc_client_disable_hardcore
DisableHardcore ==
  /\ Ready /\ hardcore
  /\ hardcore' = FALSE
  /\ IF loaded
     THEN RaisePendingEvents([ach |-> Toggled(ach, "SOFTCORE"), tracker |-> tracker],
                             ToggleEvents(ach, "SOFTCORE"),
                             Active(Toggled(ach, "SOFTCORE")), FALSE)
     ELSE UNCHANGED <<ach, tracker, listed, mastery, inflight, raised, popup, announced>>
  /\ UNCHANGED <<host, loaded, encore, waiting_for_reset, saved, encored, crashed>>

\* rc_client_set_encore_mode_enabled
SetEncore ==
  /\ host.encores /\ Ready
  /\ encore' = ~encore
  /\ encored' = (encored \/ encore')
  /\ UNCHANGED <<host, loaded, hardcore, waiting_for_reset, saved, ach, tracker, listed,
                 mastery, inflight, crashed, raised, popup, announced>>

-----------------------------------------------------------------------------
(* Save states.                                                             *)

\* rc_runtime_progress_write_achievements
Serialize ==
  /\ host.saves /\ loaded /\ Ready
  /\ saved' = {[a \in {l \in listed : ach[l].trigger \in ActiveTriggers} |->
                  [trigger |-> ach[a].trigger, softcore |-> ach[a].softcore]]}
  /\ UNCHANGED <<host, loaded, hardcore, encore, waiting_for_reset, encored, ach, tracker,
                 listed, mastery, inflight, crashed, raised, popup, announced>>

\* rc_client_subset_before_deserialize_progress
BeforeDeserialize(s) ==
  [a \in Achievements |->
     [s[a] EXCEPT !.pending = IF Primed(s[a]) THEN @ \cup {"HIDE"} ELSE @]]

\* rc_runtime_deserialize_progress: listed triggers that are active take what is
\* saved for them, or are reset.  Whether a host may restore in hardcore what was
\* counted in softcore is its own affair.
Restored(s, from) ==
  [a \in Achievements |->
     CASE a \notin listed \/ s[a].trigger \notin ActiveTriggers -> s[a]
       [] a \in listed /\ s[a].trigger \in ActiveTriggers /\ a \in DOMAIN from ->
            [s[a] EXCEPT !.trigger = from[a].trigger,
                         !.softcore = from[a].softcore /\ ~hardcore]
       [] OTHER -> ResetTrigger(s[a])]

\* Mutant: an indicator that is still right is hidden.
AfterDeserializeHides(s) ==
  [a \in Achievements |->
     [s[a] EXCEPT !.pending = IF Primed(s[a]) /\ "HIDE" \notin @ THEN @ \cup {"SHOW"} ELSE @]]

\* rc_client_subset_after_deserialize_progress
AfterDeserialize(s) ==
  [a \in Achievements |->
     [s[a] EXCEPT !.pending =
        CASE Primed(s[a]) /\ "HIDE" \in @    -> @ \ {"HIDE"}
          [] Primed(s[a]) /\ "HIDE" \notin @ -> @ \cup {"SHOW"}
          [] OTHER                           -> @]]

\* rc_client_deserialize_progress, also without a save state, or with one that
\* cannot be read: rc_runtime_reset.
Deserialize ==
  /\ host.saves /\ loaded /\ Ready
  /\ LET before == BeforeDeserialize(ach)
         Ends(s) == RaisePendingEvents([ach |-> AfterDeserialize(s),
                                        tracker |-> HideTracker(tracker)], <<>>, listed, FALSE)
     IN \/ Ends(ResetAchievements(before))
        \/ \E from \in saved \cup {<<>>} : Ends(Restored(before, from))
  /\ UNCHANGED <<settings, crashed>>

-----------------------------------------------------------------------------
(* The answer to an award, rc_client_award_achievement_callback.            *)

\* Other achievements remain to be earned, or mastery is not new.
Answered(a) ==
  /\ a \in inflight
  /\ inflight' = inflight \ {a}
  /\ UNCHANGED <<settings, ach, tracker, listed, mastery, crashed, raised, popup, announced>>

\* achievements_remaining is 0: the game is looked at without asking for one.
AnsweredLast(a) ==
  /\ a \in inflight
  /\ inflight' = inflight \ {a}
  /\ IF loaded
     THEN mastery' = (IF mastery = "NONE" THEN "PENDING" ELSE mastery) /\ UNCHANGED crashed
     ELSE crashed' = TRUE /\ UNCHANGED mastery
  /\ UNCHANGED <<settings, ach, tracker, listed, raised, popup, announced>>

Next ==
  \/ DoFrame \/ Idle \/ Tick \/ Handled
  \/ LoadGame \/ Unload \/ Reset \/ EnableHardcore \/ DisableHardcore \/ SetEncore
  \/ Serialize \/ Deserialize
  \/ \E a \in Achievements : Answered(a) \/ AnsweredLast(a)

Spec == Init /\ [][Next]_vars

-----------------------------------------------------------------------------
TypeOK ==
  /\ ach \in [Achievements ->
       [public : {"INACTIVE", "ACTIVE", "UNLOCKED", "DISABLED"}, unlocked : Unlocks,
        trigger : ActiveTriggers \cup {"TRIGGERED", "DISABLED"},
        pending : {{}}, softcore : BOOLEAN]]
  /\ tracker \in [action : {"NONE"}, timer : Off .. HideDelay, queued : BOOLEAN,
                  pending : {FALSE}]
  /\ listed \subseteq Achievements /\ inflight \subseteq Achievements
  /\ mastery \in {"NONE", "PENDING", "SHOWN"}
  /\ {loaded, hardcore, encore, waiting_for_reset, encored, crashed} \subseteq BOOLEAN

\* Save states cover what they should: after any sequence of awards, failures and
\* changes of mode, the list of the runtime is that of the active achievements, and
\* those have a trigger that is evaluated.  Nothing is earned again in the mode in
\* which it has been earned: an active achievement is not unlocked in the current
\* mode.  "Has no effect while a game is loaded" is not true of encore mode: a change
\* of mode looks at it, so only games that never saw it are spoken of.
ListedAreActive ==
  /\ TypeOK
  /\ loaded =>
       /\ listed = Active(ach)
       /\ \A a \in listed : ach[a].trigger \in ActiveTriggers
       /\ encored \/ \A a \in listed : Mode(hardcore) \notin ach[a].unlocked

\* Once the host has reset the game after hardcore was enabled, no hit counted in
\* softcore is left in an active achievement, save states made in softcore aside.
HardcoreFromReset ==
  (loaded /\ hardcore /\ ~waiting_for_reset) => \A a \in Active(ach) : ~ach[a].softcore

\* The callback that hides the progress indicator is queued exactly while the
\* indicator is shown; it is part of the game, so never when none is loaded.
HideIsScheduled ==
  /\ tracker.queued <=> tracker.timer # Off
  /\ tracker.queued => loaded

\* The host may draw the challenge indicators event by event: they are those of the
\* active achievements that are primed.  One disabled by unreadable memory while it
\* is primed stays on screen, so a host with such memory is left out.
Indicators ==
  INSTANCE RcClientOverlay WITH
    Elements <- Achievements,
    shown    <- IF host.fails \/ ~loaded THEN {} ELSE {a \in Achievements : Primed(ach[a])},
    raised   <- IF host.fails THEN <<>> ELSE raised

\* The same of the progress indicator, which is shown while its timer runs.
Popup ==
  INSTANCE RcClientOverlay WITH
    Elements <- {"progress"},
    shown    <- IF tracker.timer = Off THEN {} ELSE {"progress"},
    raised   <- popup

\* Both overlays are what the events say.
RefinesOverlay == Indicators!Spec /\ Popup!Spec

\* The answer to an award finds a game: "may be NULL if this gets called while
\* unloading the game".
AnswersFindGame == ~crashed
=============================================================================
