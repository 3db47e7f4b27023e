--------------------- MODULE RcClientAchievementsProofs ---------------------
(***************************************************************************)
(* Theorems about RcClientAchievements for any number of achievements, any *)
(* host and any delay of the progress indicator.                           *)
(***************************************************************************)
EXTENDS RcClientAchievements, FiniteSetTheorems, WellFoundedInduction, TLAPS

\* One achievement, inside a call, when events are pending.
Achievement ==
  [public : {"INACTIVE", "ACTIVE", "UNLOCKED", "DISABLED"}, unlocked : Unlocks,
   trigger : ActiveTriggers \cup {"TRIGGERED", "DISABLED"},
   pending : SUBSET {"SHOW", "HIDE", "TRIGGERED"}, softcore : BOOLEAN]

\* One achievement between two calls.
Settled == {x \in Achievement : x.pending = {}}

Tracker == [action : {"NONE", "SHOW", "UPDATE", "HIDE"}, timer : Off .. HideDelay,
            queued : BOOLEAN, pending : BOOLEAN]

\* What a save state holds can be given to any trigger that is evaluated.
SavesAreOfActive ==
  \A s \in saved : \A a \in DOMAIN s :
    s[a].trigger \in ActiveTriggers /\ s[a].softcore \in BOOLEAN

\* Encore mode cannot be on in a game that never saw it.
EncoreIsRemembered == loaded /\ encore => encored

\* An active achievement has a trigger that is evaluated.
Playable(s) ==
  \A a \in Achievements : s[a].public = "ACTIVE" => s[a].trigger \in ActiveTriggers

\* The callback of a tracker is queued while its timer runs.
Sound(t) == t \in Tracker /\ (t.queued <=> t.timer # Off)

\* The inductive invariant, one conjunct for each thing that a call may disturb.
AchievementsOK ==
  /\ ach \in [Achievements -> Settled] /\ Playable(ach)
  /\ loaded => listed = Active(ach)
  /\ loaded /\ ~encored => \A a \in Active(ach) : Mode(hardcore) \notin ach[a].unlocked
TrackerOK ==
  /\ Sound(tracker) /\ tracker.action = "NONE" /\ tracker.pending = FALSE
  /\ tracker.timer # Off => loaded
OthersOK ==
  /\ listed \subseteq Achievements /\ inflight \subseteq Achievements
  /\ mastery \in {"NONE", "PENDING", "SHOWN"}
  /\ {loaded, hardcore, encore, waiting_for_reset, encored, crashed} \subseteq BOOLEAN
  /\ SavesAreOfActive /\ EncoreIsRemembered

IInv == AchievementsOK /\ TrackerOK /\ OthersOK /\ HardcoreFromReset

-----------------------------------------------------------------------------
(* The progress tracker                                                     *)

\* The values of the timer that the code gives it.
LEMMA TimerRange ==
  Off \in Off .. HideDelay /\ HideDelay \in Off .. HideDelay /\ HideDelay # Off
BY HideDelayAssumption DEF Off

\* Rescheduling to "never" toggles whether the callback is queued.
LEMMA RescheduleOff ==
  ASSUME NEW t \in Tracker
  PROVE  Reschedule(t, Off) = [t EXCEPT !.timer = Off, !.queued = ~@]
BY Zenon DEF Reschedule

\* Rescheduling to a time queues the callback.
LEMMA RescheduleLater ==
  ASSUME NEW t \in Tracker, NEW left, left # Off
  PROVE  Reschedule(t, left) = [t EXCEPT !.timer = left, !.queued = TRUE]
BY Zenon DEF Reschedule

\* Hiding the indicator leaves its callback in no queue.
LEMMA HideTrackerSound ==
  ASSUME NEW t, Sound(t)
  PROVE  /\ Sound(HideTracker(t))
         /\ t.action = "NONE" => HideTracker(t).timer = Off
         /\ HideTracker(t).pending \/ HideTracker(t) = t
<1>1. CASE t.timer # Off /\ t.action = "NONE"
  <2> DEFINE u == [t EXCEPT !.timer = Off, !.queued = ~@]
  <2>1. u \in Tracker /\ u.timer = Off /\ ~u.queued
    BY <1>1, TimerRange DEF Sound, Tracker
  <2>2. HideTracker(t) = [u EXCEPT !.action = "HIDE", !.pending = TRUE]
    BY <1>1, RescheduleOff DEF HideTracker, Sound
  <2> HIDE DEF u
  <2> QED
    BY <2>1, <2>2 DEF Sound, Tracker
<1>2. CASE ~(t.timer # Off /\ t.action = "NONE")
  BY <1>2 DEF HideTracker
<1> QED
  BY <1>1, <1>2

\* Whether it was shown or not, a new value shows it for the whole delay.
LEMMA UpdateTrackerSound ==
  ASSUME NEW t, Sound(t)
  PROVE  Sound(UpdateTracker(t)) /\ UpdateTracker(t).pending
<1> DEFINE u == [t EXCEPT !.timer = HideDelay, !.queued = TRUE]
<1>1. u \in Tracker /\ u.timer # Off /\ u.queued
  BY TimerRange DEF Sound, Tracker
<1>2. UpdateTracker(t) = [u EXCEPT !.action = IF t.timer = Off THEN "SHOW" ELSE "UPDATE",
                                   !.pending = TRUE]
  BY RescheduleLater, TimerRange DEF UpdateTracker, Sound
<1> HIDE DEF u
<1>3. UpdateTracker(t) \in Tracker
  BY <1>1, <1>2 DEF Tracker
<1>4. /\ UpdateTracker(t).timer = u.timer /\ UpdateTracker(t).queued = u.queued
      /\ UpdateTracker(t).pending = TRUE
  BY <1>1, <1>2 DEF Tracker
<1> QED
  BY <1>1, <1>3, <1>4 DEF Sound

\* Raising its event leaves nothing pending and the timer as it is.
LEMMA TrackerRaisedSound ==
  ASSUME NEW t, Sound(t), t.pending \/ t.action = "NONE"
  PROVE  /\ Sound(TrackerRaised(t))
         /\ TrackerRaised(t).action = "NONE" /\ TrackerRaised(t).pending = FALSE
         /\ TrackerRaised(t).timer = t.timer
BY DEF Sound, Tracker, TrackerRaised

\* When the callback has run, the timer is off and nothing is queued.
LEMMA ElapsedSound ==
  ASSUME NEW t, Sound(t), t.action = "NONE"
  PROVE  /\ Sound(Elapsed(t))
         /\ Elapsed(t).action = "NONE" /\ Elapsed(t).pending = t.pending
BY TimerRange DEF Sound, Tracker, Elapsed

-----------------------------------------------------------------------------
(* Raising the pending events of a call                                     *)

\* What an award adds to the unlocks.
LEMMA UnlocksClosed ==
  ASSUME NEW u \in Unlocks
  PROVE  u \cup Modes \in Unlocks /\ u \cup {"SOFTCORE"} \in Unlocks
BY DEF Unlocks, Modes

\* An award takes an achievement out of the active ones; nothing else changes
\* but that no event is pending any more.
LEMMA RaisedSettles ==
  ASSUME NEW s \in [Achievements -> Achievement], NEW t, hardcore \in BOOLEAN
  PROVE  LET r == Raised([ach |-> s, tracker |-> t])
         IN /\ r \in [Achievements -> Settled]
            /\ \A a \in Achievements :
                 /\ r[a].trigger = s[a].trigger /\ r[a].softcore = s[a].softcore
                 /\ r[a].public = IF "TRIGGERED" \in s[a].pending THEN "UNLOCKED"
                                                                  ELSE s[a].public
                 /\ "TRIGGERED" \notin s[a].pending => r[a].unlocked = s[a].unlocked
<1> DEFINE c == [ach |-> s, tracker |-> t]
           r == Raised(c)
<1>1. ASSUME NEW a \in Achievements
      PROVE  /\ r[a] \in Settled
             /\ r[a].trigger = s[a].trigger /\ r[a].softcore = s[a].softcore
             /\ r[a].public = IF "TRIGGERED" \in s[a].pending THEN "UNLOCKED"
                                                              ELSE s[a].public
             /\ "TRIGGERED" \notin s[a].pending => r[a].unlocked = s[a].unlocked
  <2>1. s[a] \in Achievement
    OBVIOUS
  <2>2. CASE a \in Fired(c)
    <3>1. r[a] = [Awarded(s[a]) EXCEPT !.pending = {}]
      BY <2>2 DEF Raised
    <3>2. Awarded(s[a]) \in Achievement /\ Awarded(s[a]).public = "UNLOCKED"
           /\ Awarded(s[a]).trigger = s[a].trigger /\ Awarded(s[a]).softcore = s[a].softcore
      BY <2>1, UnlocksClosed DEF Awarded, Achievement
    <3> QED
      BY <2>2, <3>1, <3>2 DEF Fired, Settled, Achievement
  <2>3. CASE a \notin Fired(c)
    <3>1. r[a] = [s[a] EXCEPT !.pending = {}]
      BY <2>3 DEF Raised
    <3> QED
      BY <2>1, <2>3, <3>1 DEF Fired, Settled, Achievement
  <2> QED
    BY <2>2, <2>3
<1>2. r = [a \in Achievements |-> r[a]]
  BY DEF Raised
<1> QED
  BY <1>1, <1>2

\* What a call leaves of the achievements before it raises their events: those that
\* are active and have not fired have a trigger that is evaluated.
Fireable(s) ==
  \A a \in Achievements :
    s[a].public = "ACTIVE" /\ "TRIGGERED" \notin s[a].pending => s[a].trigger \in ActiveTriggers

\* After the events are raised everything has its type, the list is that of the
\* active achievements, and those are as they were.
LEMMA RaisePendingKeeps ==
  ASSUME OthersOK, NEW s \in [Achievements -> Achievement], Fireable(s),
         NEW t, Sound(t), t.pending \/ t.action = "NONE",
         NEW before, NEW list, list = Active(s), NEW idles \in BOOLEAN,
         RaisePendingEvents([ach |-> s, tracker |-> t], before, list, idles)
  PROVE  /\ ach' \in [Achievements -> Settled]
         /\ Sound(tracker') /\ tracker'.action = "NONE" /\ tracker'.pending = FALSE
         /\ ~idles => tracker'.timer = t.timer
         /\ listed' = Active(ach')
         /\ mastery' \in {"NONE", "PENDING", "SHOWN"} /\ inflight' \subseteq Achievements
         /\ \A a \in Achievements : ach'[a].public = "ACTIVE" =>
              /\ s[a].public = "ACTIVE" /\ ach'[a].trigger \in ActiveTriggers
              /\ ach'[a].unlocked = s[a].unlocked /\ ach'[a].softcore = s[a].softcore
<1> DEFINE c == [ach |-> s, tracker |-> t]
<1>0. hardcore \in BOOLEAN
  BY DEF OthersOK
<1>1. ach' = Raised(c)
  BY DEF RaisePendingEvents
<1>2. /\ ach' \in [Achievements -> Settled]
      /\ \A a \in Achievements :
           /\ ach'[a].trigger = s[a].trigger /\ ach'[a].softcore = s[a].softcore
           /\ ach'[a].public = IF "TRIGGERED" \in s[a].pending THEN "UNLOCKED"
                                                              ELSE s[a].public
           /\ "TRIGGERED" \notin s[a].pending => ach'[a].unlocked = s[a].unlocked
  BY <1>0, <1>1, RaisedSettles
<1>3. \A a \in Achievements : ach'[a].public = "ACTIVE" =>
        /\ s[a].public = "ACTIVE" /\ ach'[a].trigger \in ActiveTriggers
        /\ ach'[a].unlocked = s[a].unlocked /\ ach'[a].softcore = s[a].softcore
  BY <1>2 DEF Fireable
<1>4. listed' = Active(ach')
  <2>1. CASE Fired(c) # {}
    BY <2>1, <1>1 DEF RaisePendingEvents, ListedAfter
  <2>2. CASE Fired(c) = {}
    <3>1. \A a \in Achievements : "TRIGGERED" \notin s[a].pending
      BY <2>2 DEF Fired
    <3>2. \A a \in Achievements : ach'[a].public = s[a].public
      BY <3>1, <1>2
    <3>3. listed' = list
      BY <2>2 DEF RaisePendingEvents, ListedAfter
    <3> QED
      BY <3>2, <3>3 DEF Active
  <2> QED
    BY <2>1, <2>2
<1>5. /\ Sound(tracker') /\ tracker'.action = "NONE" /\ tracker'.pending = FALSE
      /\ ~idles => tracker'.timer = t.timer
  <2>1. tracker' = IF idles THEN Elapsed(TrackerRaised(t)) ELSE TrackerRaised(t)
    BY DEF RaisePendingEvents
  <2> QED
    BY <2>1, TrackerRaisedSound, ElapsedSound
<1>6. mastery' \in {"NONE", "PENDING", "SHOWN"} /\ inflight' \subseteq Achievements
  BY DEF RaisePendingEvents, OthersOK, Fired
<1> QED
  BY <1>2, <1>3, <1>4, <1>5, <1>6

-----------------------------------------------------------------------------
(* The operations on all achievements                                       *)

\* A change of mode leaves nothing active that is unlocked in the new mode, unless
\* encore mode is on, and what becomes active has counted nothing.
LEMMA ToggledKeeps ==
  ASSUME NEW s \in [Achievements -> Settled], Playable(s), NEW bit
  PROVE  /\ Toggled(s, bit) \in [Achievements -> Settled]
         /\ Playable(Toggled(s, bit))
         /\ \A a \in Achievements : Toggled(s, bit)[a].public = "ACTIVE" =>
              /\ ~encore => bit \notin Toggled(s, bit)[a].unlocked
              /\ \/ s[a].public = "ACTIVE" /\ Toggled(s, bit)[a].softcore = s[a].softcore
                 \/ ~Toggled(s, bit)[a].softcore
<1> DEFINE r == Toggled(s, bit)
<1>1. ASSUME NEW a \in Achievements
      PROVE  /\ r[a] \in Settled
             /\ r[a].public = "ACTIVE" =>
                  /\ r[a].trigger \in ActiveTriggers
                  /\ ~encore => bit \notin r[a].unlocked
                  /\ \/ s[a].public = "ACTIVE" /\ r[a].softcore = s[a].softcore
                     \/ ~r[a].softcore
  <2>1. s[a] \in Settled /\ r[a] = Switched(s[a], bit, encore)
    BY DEF Toggled
  <2>2. CASE bit \notin s[a].unlocked /\ s[a].public \in {"UNLOCKED", "INACTIVE"}
    <3>1. r[a] = [s[a] EXCEPT !.trigger = "WAITING", !.softcore = FALSE, !.public = "ACTIVE"]
      BY <2>1, <2>2 DEF Switched, ResetTrigger
    <3> QED
      BY <2>1, <2>2, <3>1 DEF Settled, Achievement, ActiveTriggers
  <2>3. CASE bit \in s[a].unlocked /\ s[a].public \in {"ACTIVE", "INACTIVE"} /\ ~encore
    <3>1. r[a] = [s[a] EXCEPT !.public = "UNLOCKED",
                              !.trigger = IF @ \in ActiveTriggers THEN "TRIGGERED" ELSE @]
      BY <2>1, <2>3 DEF Switched
    <3> QED
      BY <2>1, <3>1 DEF Settled, Achievement
  <2>4. CASE /\ ~(bit \notin s[a].unlocked /\ s[a].public \in {"UNLOCKED", "INACTIVE"})
             /\ ~(bit \in s[a].unlocked /\ s[a].public \in {"ACTIVE", "INACTIVE"} /\ ~encore)
    <3>1. r[a] = s[a]
      BY <2>1, <2>4 DEF Switched
    <3> QED
      BY <2>1, <2>4, <3>1 DEF Settled, Achievement, Playable
  <2> QED
    BY <2>2, <2>3, <2>4
<1>2. r = [a \in Achievements |-> r[a]]
  BY DEF Toggled
<1> QED
  BY <1>1, <1>2 DEF Playable

\* A reset: nothing counted in softcore is left in an active achievement.
LEMMA ResetKeeps ==
  ASSUME NEW s \in [Achievements -> Achievement], Playable(s)
  PROVE  /\ ResetAchievements(s) \in [Achievements -> Achievement]
         /\ Playable(ResetAchievements(s))
         /\ Active(ResetAchievements(s)) = Active(s)
         /\ \A a \in Achievements :
              /\ ResetAchievements(s)[a].unlocked = s[a].unlocked
              /\ "TRIGGERED" \in ResetAchievements(s)[a].pending => "TRIGGERED" \in s[a].pending
              /\ s[a].public = "ACTIVE" => ~ResetAchievements(s)[a].softcore
<1> DEFINE r == ResetAchievements(s)
<1>1. ASSUME NEW a \in Achievements
      PROVE  /\ r[a] \in Achievement /\ r[a].public = s[a].public
             /\ r[a].public = "ACTIVE" => r[a].trigger \in ActiveTriggers /\ ~r[a].softcore
             /\ r[a].unlocked = s[a].unlocked
             /\ "TRIGGERED" \in r[a].pending => "TRIGGERED" \in s[a].pending
  <2>1. s[a] \in Achievement
    OBVIOUS
  <2>2. CASE Primed(s[a])
    <3>1. r[a] = [ResetTrigger(s[a]) EXCEPT !.pending = @ \cup {"HIDE"}]
      BY <2>2 DEF ResetAchievements
    <3>2. /\ ResetTrigger(s[a]) \in Achievement /\ ~ResetTrigger(s[a]).softcore
          /\ ResetTrigger(s[a]).trigger = "WAITING"
          /\ ResetTrigger(s[a]).public = s[a].public
          /\ ResetTrigger(s[a]).unlocked = s[a].unlocked
          /\ ResetTrigger(s[a]).pending = s[a].pending
      BY <2>1 DEF ResetTrigger, Achievement, ActiveTriggers
    <3> QED
      BY <3>1, <3>2 DEF Achievement, ActiveTriggers
  <2>3. CASE ~Primed(s[a]) /\ s[a].public = "ACTIVE"
    <3>1. r[a] = [s[a] EXCEPT !.trigger = "WAITING", !.softcore = FALSE]
      BY <2>3 DEF ResetAchievements, ResetTrigger
    <3> QED
      BY <2>1, <3>1 DEF Achievement, ActiveTriggers
  <2>4. CASE ~Primed(s[a]) /\ s[a].public # "ACTIVE"
    BY <2>1, <2>4 DEF ResetAchievements
  <2> QED
    BY <2>2, <2>3, <2>4
<1>2. r = [a \in Achievements |-> r[a]]
  BY DEF ResetAchievements
<1> QED
  BY <1>1, <1>2 DEF Playable, Active

\* The list of pending events is all that a restore changes before it starts.
LEMMA BeforeDeserializeKeeps ==
  ASSUME NEW s \in [Achievements -> Settled], Playable(s)
  PROVE  /\ BeforeDeserialize(s) \in [Achievements -> Achievement]
         /\ Playable(BeforeDeserialize(s))
         /\ Active(BeforeDeserialize(s)) = Active(s)
         /\ \A a \in Achievements :
              /\ BeforeDeserialize(s)[a].unlocked = s[a].unlocked
              /\ "TRIGGERED" \notin BeforeDeserialize(s)[a].pending
              /\ BeforeDeserialize(s)[a].softcore = s[a].softcore
<1> DEFINE r == BeforeDeserialize(s)
<1>1. ASSUME NEW a \in Achievements
      PROVE  /\ r[a] \in Achievement
             /\ r[a].public = s[a].public /\ r[a].trigger = s[a].trigger
             /\ r[a].unlocked = s[a].unlocked
             /\ "TRIGGERED" \notin r[a].pending /\ r[a].softcore = s[a].softcore
  <2>1. s[a] \in Achievement /\ s[a].pending = {}
    BY DEF Settled
  <2>2. r[a] = [s[a] EXCEPT !.pending = IF Primed(s[a]) THEN @ \cup {"HIDE"} ELSE @]
    BY DEF BeforeDeserialize
  <2> QED
    BY <2>1, <2>2 DEF Achievement
<1>2. r = [a \in Achievements |-> r[a]]
  BY DEF BeforeDeserialize
<1> QED
  BY <1>1, <1>2 DEF Playable, Active

\* What is restored can be evaluated, and in hardcore holds nothing of softcore.
LEMMA RestoredKeeps ==
  ASSUME NEW s \in [Achievements -> Achievement], Playable(s), NEW from,
         \A a \in DOMAIN from : from[a].trigger \in ActiveTriggers /\ from[a].softcore \in BOOLEAN
  PROVE  /\ Restored(s, from) \in [Achievements -> Achievement]
         /\ Playable(Restored(s, from))
         /\ Active(Restored(s, from)) = Active(s)
         /\ \A a \in Achievements :
              /\ Restored(s, from)[a].unlocked = s[a].unlocked
              /\ Restored(s, from)[a].pending = s[a].pending
              /\ hardcore /\ ~s[a].softcore => ~Restored(s, from)[a].softcore
<1> DEFINE r == Restored(s, from)
<1>1. ASSUME NEW a \in Achievements
      PROVE  /\ r[a] \in Achievement /\ r[a].public = s[a].public
             /\ s[a].trigger \in ActiveTriggers => r[a].trigger \in ActiveTriggers
             /\ r[a].unlocked = s[a].unlocked /\ r[a].pending = s[a].pending
             /\ hardcore /\ ~s[a].softcore => ~r[a].softcore
  <2>1. s[a] \in Achievement
    OBVIOUS
  <2>2. CASE a \notin listed \/ s[a].trigger \notin ActiveTriggers
    BY <2>1, <2>2 DEF Restored
  <2>3. CASE a \in listed /\ s[a].trigger \in ActiveTriggers /\ a \in DOMAIN from
    <3> DEFINE left == from[a].softcore /\ ~hardcore
    <3>1. r[a] = [s[a] EXCEPT !.trigger = from[a].trigger, !.softcore = left]
      BY <2>3 DEF Restored
    <3>2. left \in BOOLEAN /\ (hardcore => ~left)
      OBVIOUS
    <3> HIDE DEF left
    <3> QED
      BY <2>1, <2>3, <3>1, <3>2 DEF Achievement
  <2>4. CASE a \in listed /\ s[a].trigger \in ActiveTriggers /\ a \notin DOMAIN from
    <3>1. r[a] = [s[a] EXCEPT !.trigger = "WAITING", !.softcore = FALSE]
      BY <2>4 DEF Restored, ResetTrigger
    <3> QED
      BY <2>1, <3>1 DEF Achievement, ActiveTriggers
  <2> QED
    BY <2>2, <2>3, <2>4
<1>2. r = [a \in Achievements |-> r[a]]
  BY DEF Restored
<1> QED
  BY <1>1, <1>2 DEF Playable, Active

\* The end of a restore only changes what is pending.
LEMMA AfterDeserializeKeeps ==
  ASSUME NEW s \in [Achievements -> Achievement], Playable(s)
  PROVE  /\ AfterDeserialize(s) \in [Achievements -> Achievement]
         /\ Playable(AfterDeserialize(s))
         /\ Active(AfterDeserialize(s)) = Active(s)
         /\ \A a \in Achievements :
              /\ AfterDeserialize(s)[a].unlocked = s[a].unlocked
              /\ "TRIGGERED" \notin s[a].pending => "TRIGGERED" \notin AfterDeserialize(s)[a].pending
              /\ AfterDeserialize(s)[a].softcore = s[a].softcore
<1> DEFINE r == AfterDeserialize(s)
<1>1. ASSUME NEW a \in Achievements
      PROVE  /\ r[a] \in Achievement
             /\ r[a].public = s[a].public /\ r[a].trigger = s[a].trigger
             /\ r[a].unlocked = s[a].unlocked /\ r[a].softcore = s[a].softcore
             /\ "TRIGGERED" \notin s[a].pending => "TRIGGERED" \notin r[a].pending
  <2> DEFINE p == CASE Primed(s[a]) /\ "HIDE" \in s[a].pending    -> s[a].pending \ {"HIDE"}
                    [] Primed(s[a]) /\ "HIDE" \notin s[a].pending -> s[a].pending \cup {"SHOW"}
                    [] OTHER                                      -> s[a].pending
  <2>1. s[a] \in Achievement
    OBVIOUS
  <2>2. /\ p \in SUBSET {"SHOW", "HIDE", "TRIGGERED"}
        /\ "TRIGGERED" \notin s[a].pending => "TRIGGERED" \notin p
    BY <2>1 DEF Achievement
  <2>3. r[a] = [s[a] EXCEPT !.pending = p]
    BY DEF AfterDeserialize
  <2> HIDE DEF p
  <2> QED
    BY <2>1, <2>2, <2>3 DEF Achievement
<1>2. r = [a \in Achievements |-> r[a]]
  BY DEF AfterDeserialize
<1> QED
  BY <1>1, <1>2 DEF Playable, Active

\* Addresses that turn out to be unreadable end achievements for good.
LEMMA InvalidatedKeeps ==
  ASSUME ach \in [Achievements -> Settled], Playable(ach), NEW failing
  PROVE  /\ Invalidated(failing) \in [Achievements -> Settled]
         /\ Playable(Invalidated(failing))
         /\ failing = {} => Invalidated(failing) = ach
         /\ \A a \in Achievements : Invalidated(failing)[a].public = "ACTIVE" =>
              Invalidated(failing)[a] = ach[a]
<1> DEFINE r == Invalidated(failing)
<1>1. ASSUME NEW a \in Achievements
      PROVE  /\ r[a] \in Settled /\ (r[a].public = "ACTIVE" => r[a] = ach[a])
             /\ failing = {} => r[a] = ach[a]
  <2>1. ach[a] \in Settled
    OBVIOUS
  <2>2. CASE a \in failing /\ ach[a].public # "DISABLED"
    <3>1. r[a] = [ach[a] EXCEPT !.public = "DISABLED", !.trigger = "DISABLED"]
      BY <2>2 DEF Invalidated
    <3> QED
      BY <2>1, <2>2, <3>1 DEF Settled, Achievement
  <2>3. CASE ~(a \in failing /\ ach[a].public # "DISABLED")
    BY <2>1, <2>3 DEF Invalidated
  <2> QED
    BY <2>2, <2>3
<1>2. r = [a \in Achievements |-> r[a]]
  BY DEF Invalidated
<1> QED
  BY <1>1, <1>2 DEF Playable

\* A frame fires what becomes TRIGGERED, and counts in softcore only there.
LEMMA ProcessedKeeps ==
  ASSUME NEW x \in Settled, NEW next \in Evaluated(x), hardcore \in BOOLEAN,
         x.public = "ACTIVE" => x.trigger \in ActiveTriggers
  PROVE  /\ Processed(x, next) \in Achievement
         /\ Processed(x, next).public = x.public /\ Processed(x, next).unlocked = x.unlocked
         /\ x.public = "ACTIVE" /\ "TRIGGERED" \notin Processed(x, next).pending =>
              Processed(x, next).trigger \in ActiveTriggers
         /\ hardcore /\ ~x.softcore => ~Processed(x, next).softcore
<1>1. CASE x.public # "ACTIVE"
  BY <1>1 DEF Processed, Settled
<1>2. CASE x.public = "ACTIVE"
  <2> DEFINE counted == IF next = "WAITING" THEN FALSE ELSE x.softcore \/ ~hardcore
             p == CASE next = x.trigger                           -> {}
                    [] next = "PRIMED" /\ next # x.trigger        -> {"SHOW"}
                    [] next = "TRIGGERED" /\ x.trigger = "PRIMED" -> {"HIDE", "TRIGGERED"}
                    [] next = "TRIGGERED" /\ x.trigger # "PRIMED" -> {"TRIGGERED"}
                    [] next = "ACTIVE" /\ x.trigger = "PRIMED"    -> {"HIDE"}
                    [] OTHER                                      -> {}
  <2>1. Processed(x, next) = [x EXCEPT !.trigger = next, !.softcore = counted, !.pending = p]
    BY <1>2 DEF Processed
  <2>2. next \in ActiveTriggers \/ (next = "TRIGGERED" /\ next # x.trigger)
    BY <1>2 DEF Evaluated, ActiveTriggers
  <2>3. p \in SUBSET {"SHOW", "HIDE", "TRIGGERED"} /\ ("TRIGGERED" \notin p => next \in ActiveTriggers)
    BY <1>2, <2>2 DEF ActiveTriggers
  <2>4. counted \in BOOLEAN /\ (hardcore /\ ~x.softcore => ~counted)
    BY DEF Settled, Achievement
  <2> HIDE DEF counted, p
  <2> QED
    BY <1>2, <2>1, <2>2, <2>3, <2>4 DEF Settled, Achievement
<1> QED
  BY <1>1, <1>2

-----------------------------------------------------------------------------
(* The invariant                                                            *)

\* The types of the state between two calls, in the terms of the lemmas.
LEMMA SettledType ==
  /\ Settled = [public : {"INACTIVE", "ACTIVE", "UNLOCKED", "DISABLED"}, unlocked : Unlocks,
                trigger : ActiveTriggers \cup {"TRIGGERED", "DISABLED"},
                pending : {{}}, softcore : BOOLEAN]
  /\ \A t : t \in [action : {"NONE"}, timer : Off .. HideDelay, queued : BOOLEAN,
                   pending : {FALSE}]
            <=> t \in Tracker /\ t.action = "NONE" /\ t.pending = FALSE
BY DEF Settled, Achievement, Tracker

\* The inductive invariant has the properties of the runs.
LEMMA IInvIsEnough == IInv => ListedAreActive /\ HardcoreFromReset /\ HideIsScheduled
<1> SUFFICES ASSUME IInv PROVE ListedAreActive /\ HardcoreFromReset /\ HideIsScheduled
  OBVIOUS
<1>1. TypeOK
  BY SettledType DEF IInv, AchievementsOK, TrackerOK, OthersOK, TypeOK, Sound
<1>2. ListedAreActive
  BY <1>1 DEF IInv, AchievementsOK, OthersOK, ListedAreActive, Playable, Active
<1> QED
  BY <1>1, <1>2 DEF IInv, TrackerOK, OthersOK, HideIsScheduled, Sound

\* It holds before a game is loaded.
LEMMA InitIInv == Init => IInv
<1> SUFFICES ASSUME Init PROVE IInv
  OBVIOUS
<1>1. ASSUME NEW a \in Achievements PROVE ach[a] \in Settled /\ ach[a].public = "INACTIVE"
  BY DEF Init, NewAchievement, Settled, Achievement, Unlocks, ActiveTriggers
<1>2. AchievementsOK
  BY <1>1 DEF Init, AchievementsOK, Playable, Active
<1>3. TrackerOK
  BY TimerRange DEF Init, TrackerOK, NoTracker, Sound, Tracker
<1>4. OthersOK /\ HardcoreFromReset
  BY DEF Init, OthersOK, SavesAreOfActive, EncoreIsRemembered, HardcoreFromReset
<1> QED
  BY <1>2, <1>3, <1>4 DEF IInv

\* A frame
LEMMA DoFrameIInv ==
  ASSUME IInv, DoFrame
  PROVE  IInv'
<1> USE DEF IInv
<1>1. PICK failing \in SUBSET Achievements,
           next \in [Achievements -> ActiveTriggers \cup {"TRIGGERED", "DISABLED"}],
           progress \in BOOLEAN :
        /\ \A a \in Achievements : next[a] \in Evaluated(Invalidated(failing)[a])
        /\ RaisePendingEvents(
             [ach |-> [a \in Achievements |-> Processed(Invalidated(failing)[a], next[a])],
              tracker |-> IF progress THEN UpdateTracker(tracker) ELSE tracker],
             <<>>, IF failing = {} THEN listed ELSE Active(Invalidated(failing)), TRUE)
  BY DEF DoFrame
<1> DEFINE before == Invalidated(failing)
           after == [a \in Achievements |-> Processed(before[a], next[a])]
           t == IF progress THEN UpdateTracker(tracker) ELSE tracker
           list == IF failing = {} THEN listed ELSE Active(before)
<1>2. /\ before \in [Achievements -> Settled] /\ Playable(before)
      /\ failing = {} => before = ach
      /\ \A a \in Achievements : before[a].public = "ACTIVE" => before[a] = ach[a]
  BY InvalidatedKeeps DEF AchievementsOK
<1>3. ASSUME NEW a \in Achievements
      PROVE  /\ after[a] \in Achievement
             /\ after[a].public = before[a].public /\ after[a].unlocked = before[a].unlocked
             /\ after[a].public = "ACTIVE" /\ "TRIGGERED" \notin after[a].pending =>
                  after[a].trigger \in ActiveTriggers
             /\ hardcore /\ ~before[a].softcore => ~after[a].softcore
  <2>1. before[a] \in Settled /\ next[a] \in Evaluated(before[a]) /\ hardcore \in BOOLEAN
        /\ (before[a].public = "ACTIVE" => before[a].trigger \in ActiveTriggers)
    BY <1>1, <1>2 DEF OthersOK, Playable
  <2>2. after[a] = Processed(before[a], next[a])
    OBVIOUS
  <2> HIDE DEF before, after
  <2> QED
    BY <2>1, <2>2, ProcessedKeeps
<1>4. after \in [Achievements -> Achievement] /\ Fireable(after)
  BY <1>3 DEF Fireable
<1>5. Sound(t) /\ (t.pending \/ t.action = "NONE")
  BY UpdateTrackerSound DEF TrackerOK
<1>6. loaded /\ ~waiting_for_reset
      /\ UNCHANGED <<loaded, hardcore, encore, waiting_for_reset, saved, encored, crashed>>
  BY DEF DoFrame, settings
<1>7. list = Active(after)
  BY <1>2, <1>3, <1>6 DEF AchievementsOK, Active
<1>8. RaisePendingEvents([ach |-> after, tracker |-> t], <<>>, list, TRUE)
  BY <1>1
<1> HIDE DEF before, after, t, list
<1>9. /\ ach' \in [Achievements -> Settled]
      /\ Sound(tracker') /\ tracker'.action = "NONE" /\ tracker'.pending = FALSE
      /\ listed' = Active(ach')
      /\ mastery' \in {"NONE", "PENDING", "SHOWN"} /\ inflight' \subseteq Achievements
      /\ \A a \in Achievements : ach'[a].public = "ACTIVE" =>
           /\ after[a].public = "ACTIVE" /\ ach'[a].trigger \in ActiveTriggers
           /\ ach'[a].unlocked = after[a].unlocked /\ ach'[a].softcore = after[a].softcore
  BY <1>4, <1>5, <1>7, <1>8, RaisePendingKeeps
<1>10. AchievementsOK'
  BY <1>2, <1>3, <1>6, <1>9 DEF AchievementsOK, Playable, Active
<1>11. TrackerOK' /\ OthersOK'
  BY <1>6, <1>9 DEF TrackerOK, OthersOK, SavesAreOfActive, EncoreIsRemembered, Active
<1>12. HardcoreFromReset'
  BY <1>2, <1>3, <1>6, <1>9 DEF HardcoreFromReset, Active
<1> QED
  BY <1>10, <1>11, <1>12

\* Every call that only raises what it did to the achievements: it may leave
\* active only what was active, as it was or better.
LEMMA RaisingIInv ==
  ASSUME IInv, NEW s \in [Achievements -> Achievement], Fireable(s),
         NEW t, Sound(t), t.pending \/ t.action = "NONE",
         NEW before, NEW list, list = Active(s),
         RaisePendingEvents([ach |-> s, tracker |-> t], before, list, FALSE),
         UNCHANGED <<saved, encored, encore, crashed>>,
         {loaded, hardcore, waiting_for_reset}' \subseteq BOOLEAN,
         loaded' => loaded,
         t.timer # Off => loaded',
         loaded' /\ ~encored => \A a \in Active(s) : Mode(hardcore') \notin s[a].unlocked,
         loaded' /\ hardcore' /\ ~waiting_for_reset' => \A a \in Active(s) : ~s[a].softcore
  PROVE  IInv'
<1>1. /\ ach' \in [Achievements -> Settled]
      /\ Sound(tracker') /\ tracker'.action = "NONE" /\ tracker'.pending = FALSE
      /\ tracker'.timer = t.timer /\ listed' = Active(ach')
      /\ mastery' \in {"NONE", "PENDING", "SHOWN"} /\ inflight' \subseteq Achievements
      /\ \A a \in Achievements : ach'[a].public = "ACTIVE" =>
           /\ s[a].public = "ACTIVE" /\ ach'[a].trigger \in ActiveTriggers
           /\ ach'[a].unlocked = s[a].unlocked /\ ach'[a].softcore = s[a].softcore
  BY RaisePendingKeeps DEF IInv
<1>2. AchievementsOK'
  BY <1>1 DEF AchievementsOK, Playable, Active
<1>3. TrackerOK'
  BY <1>1 DEF TrackerOK
<1>4. OthersOK'
  BY <1>1 DEF IInv, OthersOK, SavesAreOfActive, EncoreIsRemembered, Active
<1>5. HardcoreFromReset'
  BY <1>1 DEF HardcoreFromReset, Active
<1> QED
  BY <1>2, <1>3, <1>4, <1>5 DEF IInv

\* Unloading
LEMMA UnloadIInv ==
  ASSUME IInv, Unload
  PROVE  IInv'
<1> DEFINE s == [a \in Achievements |->
                   [ach[a] EXCEPT !.pending = IF Primed(ach[a]) THEN {"HIDE"} ELSE {}]]
           t == HideTracker(tracker)
<1>1. ASSUME NEW a \in Achievements
      PROVE  /\ s[a] \in Achievement /\ s[a].public = ach[a].public
             /\ s[a].public = "ACTIVE" => s[a].trigger \in ActiveTriggers
  <2>1. ach[a] \in Achievement /\ (ach[a].public = "ACTIVE" => ach[a].trigger \in ActiveTriggers)
    BY DEF IInv, AchievementsOK, Playable, Settled
  <2> QED
    BY <2>1 DEF Achievement
<1>2. s \in [Achievements -> Achievement] /\ Fireable(s)
  BY <1>1 DEF Fireable
<1>3. Sound(t) /\ (t.pending \/ t.action = "NONE") /\ t.timer = Off
  BY HideTrackerSound DEF IInv, TrackerOK
<1>4. listed = Active(s)
  BY <1>1 DEF IInv, AchievementsOK, Active, Unload
<1>5. /\ RaisePendingEvents([ach |-> s, tracker |-> t], <<>>, listed, FALSE)
      /\ loaded' = FALSE
      /\ UNCHANGED <<saved, encored, encore, crashed, hardcore, waiting_for_reset>>
  BY DEF Unload
<1>6. {loaded, hardcore, waiting_for_reset}' \subseteq BOOLEAN
  BY <1>5 DEF IInv, OthersOK
<1> HIDE DEF s, t
<1> QED
  BY <1>2, <1>3, <1>4, <1>5, <1>6, RaisingIInv

\* A reset
LEMMA ResetIInv ==
  ASSUME IInv, Reset
  PROVE  IInv'
<1> DEFINE s == ResetAchievements(ach)
           t == HideTracker(tracker)
<1>1. ach \in [Achievements -> Achievement] /\ Playable(ach)
      /\ \A a \in Achievements : "TRIGGERED" \notin ach[a].pending
  BY DEF IInv, AchievementsOK, Settled
<1>2. /\ s \in [Achievements -> Achievement] /\ Fireable(s) /\ Active(s) = Active(ach)
      /\ \A a \in Active(s) : s[a].unlocked = ach[a].unlocked /\ ~s[a].softcore
  BY <1>1, ResetKeeps DEF Fireable, Playable, Active
<1>3. Sound(t) /\ (t.pending \/ t.action = "NONE") /\ t.timer = Off
  BY HideTrackerSound DEF IInv, TrackerOK
<1>4. /\ RaisePendingEvents([ach |-> s, tracker |-> t], <<>>, listed, FALSE)
      /\ loaded /\ waiting_for_reset' = FALSE
      /\ UNCHANGED <<saved, encored, encore, crashed, hardcore, loaded>>
  BY DEF Reset
<1>5. listed = Active(s)
  BY <1>2, <1>4 DEF IInv, AchievementsOK
<1>6. {loaded, hardcore, waiting_for_reset}' \subseteq BOOLEAN
  BY <1>4 DEF IInv, OthersOK
<1>7. loaded' /\ ~encored => \A a \in Active(s) : Mode(hardcore') \notin s[a].unlocked
  BY <1>2, <1>4 DEF IInv, AchievementsOK
<1> HIDE DEF s, t
<1> QED
  BY <1>2, <1>3, <1>4, <1>5, <1>6, <1>7, RaisingIInv

\* Leaving hardcore
LEMMA DisableHardcoreIInv ==
  ASSUME IInv, DisableHardcore
  PROVE  IInv'
<1> DEFINE s == Toggled(ach, "SOFTCORE")
<1>1. hardcore' = FALSE /\ UNCHANGED <<saved, encored, encore, crashed, loaded, waiting_for_reset>>
  BY DEF DisableHardcore
<1>2. CASE loaded
  <2>1. /\ s \in [Achievements -> Settled] /\ Playable(s)
        /\ ~encore => \A a \in Active(s) : "SOFTCORE" \notin s[a].unlocked
    BY ToggledKeeps DEF IInv, AchievementsOK, Active
  <2>2. s \in [Achievements -> Achievement] /\ Fireable(s)
    BY <2>1 DEF Settled, Fireable, Playable
  <2>3. RaisePendingEvents([ach |-> s, tracker |-> tracker], ToggleEvents(ach, "SOFTCORE"),
                           Active(s), FALSE)
    BY <1>2 DEF DisableHardcore
  <2>4. loaded' /\ ~encored => \A a \in Active(s) : Mode(hardcore') \notin s[a].unlocked
    BY <1>1, <2>1 DEF IInv, OthersOK, EncoreIsRemembered, Mode
  <2>5. Sound(tracker) /\ tracker.action = "NONE" /\ (tracker.timer # Off => loaded')
    BY <1>1, <1>2 DEF IInv, TrackerOK
  <2>6. {loaded, hardcore, waiting_for_reset}' \subseteq BOOLEAN
    BY <1>1 DEF IInv, OthersOK
  <2> HIDE DEF s
  <2> QED
    BY <1>1, <2>2, <2>3, <2>4, <2>5, <2>6, RaisingIInv
<1>3. CASE ~loaded
  <2>1. UNCHANGED <<ach, tracker, listed, mastery, inflight>>
    BY <1>3 DEF DisableHardcore
  <2> QED
    BY <1>1, <1>3, <2>1 DEF IInv, AchievementsOK, TrackerOK, OthersOK, SavesAreOfActive,
      EncoreIsRemembered, HardcoreFromReset, Playable, Active
<1> QED
  BY <1>2, <1>3

\* Entering hardcore, before the reset
LEMMA EnableHardcoreIInv ==
  ASSUME IInv, EnableHardcore
  PROVE  IInv'
<1>1. /\ hardcore' = TRUE /\ waiting_for_reset' = loaded
      /\ UNCHANGED <<saved, encored, encore, crashed, loaded, tracker, mastery, inflight>>
  BY DEF EnableHardcore
<1>2. CASE loaded
  <2>1. ach' = Toggled(ach, "HARDCORE") /\ listed' = Active(ach')
    BY <1>2 DEF EnableHardcore
  <2>2. /\ ach' \in [Achievements -> Settled] /\ Playable(ach')
        /\ ~encore => \A a \in Active(ach') : "HARDCORE" \notin ach'[a].unlocked
    BY <2>1, ToggledKeeps DEF IInv, AchievementsOK, Active
  <2> QED
    BY <1>1, <1>2, <2>1, <2>2 DEF IInv, AchievementsOK, TrackerOK, OthersOK, SavesAreOfActive,
      EncoreIsRemembered, HardcoreFromReset, Playable, Active, Mode
<1>3. CASE ~loaded
  <2>1. UNCHANGED <<ach, listed>>
    BY <1>3 DEF EnableHardcore
  <2> QED
    BY <1>1, <1>3, <2>1 DEF IInv, AchievementsOK, TrackerOK, OthersOK, SavesAreOfActive,
      EncoreIsRemembered, HardcoreFromReset, Playable, Active
<1> QED
  BY <1>2, <1>3

\* Loading
LEMMA LoadGameIInv ==
  ASSUME IInv, LoadGame
  PROVE  IInv'
<1>1. PICK unlocked \in [Achievements -> IF host.submits THEN Unlocks ELSE {{}}] :
        ach' = Toggled([a \in Achievements |-> NewAchievement(unlocked[a])],
                       IF encore THEN "NONE" ELSE Mode(hardcore))
  BY DEF LoadGame
<1> DEFINE new == [a \in Achievements |-> NewAchievement(unlocked[a])]
           bit == IF encore THEN "NONE" ELSE Mode(hardcore)
<1>2. /\ listed' = Active(ach') /\ loaded' = TRUE /\ encored' = encore
      /\ waiting_for_reset' = FALSE /\ mastery' = "NONE"
      /\ UNCHANGED <<hardcore, encore, saved, tracker, inflight, crashed>>
  BY DEF LoadGame
<1>3. ASSUME NEW a \in Achievements PROVE new[a] \in Settled /\ new[a].public = "INACTIVE"
  <2>1. unlocked[a] \in Unlocks
    BY DEF Unlocks
  <2> QED
    BY <2>1 DEF NewAchievement, Settled, Achievement, ActiveTriggers
<1>4. new \in [Achievements -> Settled] /\ Playable(new)
  BY <1>3 DEF Playable
<1>5. ach' = Toggled(new, bit)
  BY <1>1
<1> HIDE DEF new
<1>6. /\ ach' \in [Achievements -> Settled] /\ Playable(ach')
      /\ \A a \in Active(ach') : ~ach'[a].softcore /\ (~encore => bit \notin ach'[a].unlocked)
  BY <1>3, <1>4, <1>5, ToggledKeeps DEF Active
<1> QED
  BY <1>2, <1>6 DEF IInv, AchievementsOK, TrackerOK, OthersOK, SavesAreOfActive,
    EncoreIsRemembered, HardcoreFromReset, Active

\* Restoring progress
LEMMA DeserializeIInv ==
  ASSUME IInv, Deserialize
  PROVE  IInv'
<1> DEFINE b == BeforeDeserialize(ach)
           t == HideTracker(tracker)
<1>1. loaded /\ UNCHANGED settings /\ UNCHANGED crashed
  BY DEF Deserialize
<1>2. PICK s : /\ \/ s = ResetAchievements(b)
                  \/ \E from \in saved \cup {<<>>} : s = Restored(b, from)
               /\ RaisePendingEvents([ach |-> AfterDeserialize(s), tracker |-> t], <<>>,
                                     listed, FALSE)
  BY DEF Deserialize
<1>3. /\ b \in [Achievements -> Achievement] /\ Playable(b) /\ Active(b) = Active(ach)
      /\ \A a \in Achievements :
           /\ b[a].unlocked = ach[a].unlocked /\ "TRIGGERED" \notin b[a].pending
           /\ b[a].softcore = ach[a].softcore
  BY BeforeDeserializeKeeps DEF IInv, AchievementsOK
<1> HIDE DEF b
<1> DEFINE Kept ==
             /\ s \in [Achievements -> Achievement] /\ Playable(s) /\ Active(s) = Active(b)
             /\ \A a \in Active(s) :
                  /\ s[a].unlocked = b[a].unlocked
                  /\ hardcore /\ ~b[a].softcore => ~s[a].softcore
             /\ \A a \in Achievements : "TRIGGERED" \notin s[a].pending
<1>4. Kept
  <2>1. CASE s = ResetAchievements(b)
    BY <1>3, <2>1, ResetKeeps DEF Active
  <2>2. ASSUME NEW from \in saved \cup {<<>>}, s = Restored(b, from)
        PROVE  Kept
    <3>1. \A a \in DOMAIN from : from[a].trigger \in ActiveTriggers /\ from[a].softcore \in BOOLEAN
      BY DEF IInv, OthersOK, SavesAreOfActive
    <3> QED
      BY <1>3, <2>2, <3>1, RestoredKeeps DEF Active
  <2> QED
    BY <1>2, <2>1, <2>2
<1> DEFINE r == AfterDeserialize(s)
<1>5. /\ r \in [Achievements -> Achievement] /\ Fireable(r) /\ Active(r) = Active(ach)
      /\ \A a \in Active(r) :
           /\ r[a].unlocked = ach[a].unlocked
           /\ hardcore /\ ~ach[a].softcore => ~r[a].softcore
  BY <1>3, <1>4, AfterDeserializeKeeps DEF Fireable, Playable, Active
<1> HIDE DEF r
<1>6. Sound(t) /\ (t.pending \/ t.action = "NONE") /\ t.timer = Off
  BY HideTrackerSound DEF IInv, TrackerOK
<1> HIDE DEF t
<1>7. RaisePendingEvents([ach |-> r, tracker |-> t], <<>>, listed, FALSE)
  BY <1>2 DEF r, t
<1>8. listed = Active(r)
  BY <1>1, <1>5 DEF IInv, AchievementsOK
<1>9. /\ {loaded, hardcore, waiting_for_reset}' \subseteq BOOLEAN
      /\ UNCHANGED <<saved, encored, encore, crashed>>
      /\ loaded' /\ ~encored => \A a \in Active(r) : Mode(hardcore') \notin r[a].unlocked
      /\ loaded' /\ hardcore' /\ ~waiting_for_reset' => \A a \in Active(r) : ~r[a].softcore
  BY <1>1, <1>5 DEF IInv, AchievementsOK, OthersOK, HardcoreFromReset, settings
<1> QED
  BY <1>1, <1>5, <1>6, <1>7, <1>8, <1>9, RaisingIInv

\* Every step preserves the invariant.
LEMMA NextIInv == IInv /\ [Next]_vars => IInv'
<1> SUFFICES ASSUME IInv, [Next]_vars PROVE IInv'
  OBVIOUS
<1> USE DEF IInv, AchievementsOK, TrackerOK, OthersOK, HardcoreFromReset, SavesAreOfActive,
            EncoreIsRemembered, Playable, Active
<1>1. CASE DoFrame
  BY <1>1, DoFrameIInv
<1>2. CASE Idle
  <2>1. tracker' = Elapsed(tracker) /\ loaded
    BY <1>2 DEF Idle
  <2>2. Sound(tracker') /\ tracker'.action = "NONE" /\ tracker'.pending = FALSE
    BY <2>1, ElapsedSound
  <2> QED
    BY <1>2, <2>1, <2>2 DEF Idle, settings
<1>3. CASE Tick
  <2>1. tracker.queued /\ tracker.timer > 0 /\ tracker' = [tracker EXCEPT !.timer = @ - 1]
    BY <1>3 DEF Tick
  <2>2. tracker.timer \in Off .. HideDelay /\ tracker.timer - 1 \in Off .. HideDelay
        /\ tracker.timer - 1 # Off /\ loaded
    BY <2>1, HideDelayAssumption DEF Sound, Tracker, Off
  <2>3. Sound(tracker') /\ tracker'.action = "NONE" /\ tracker'.pending = FALSE
    BY <2>1, <2>2 DEF Sound, Tracker
  <2> QED
    BY <1>3, <2>2, <2>3 DEF Tick, settings
<1>4. CASE Handled
  BY <1>4 DEF Handled, settings
<1>5. CASE LoadGame
  BY <1>5, LoadGameIInv
<1>6. CASE Unload
  BY <1>6, UnloadIInv
<1>7. CASE Reset
  BY <1>7, ResetIInv
<1>8. CASE EnableHardcore
  BY <1>8, EnableHardcoreIInv
<1>9. CASE DisableHardcore
  BY <1>9, DisableHardcoreIInv
<1>10. CASE SetEncore
  BY <1>10 DEF SetEncore
<1>11. CASE Serialize
  <2>1. \A a \in {l \in listed : ach[l].trigger \in ActiveTriggers} :
          ach[a].trigger \in ActiveTriggers /\ ach[a].softcore \in BOOLEAN
    BY DEF Settled, Achievement
  <2>2. SavesAreOfActive'
    BY <1>11, <2>1 DEF Serialize
  <2> QED
    BY <1>11, <2>2 DEF Serialize
<1>12. CASE Deserialize
  BY <1>12, DeserializeIInv
<1>13. ASSUME NEW a \in Achievements, Answered(a) PROVE IInv'
  BY <1>13 DEF Answered, settings
<1>14. ASSUME NEW a \in Achievements, AnsweredLast(a) PROVE IInv'
  BY <1>14 DEF AnsweredLast, settings
<1>15. CASE UNCHANGED vars
  BY <1>15 DEF vars, settings
<1> QED
  BY <1>1, <1>2, <1>3, <1>4, <1>5, <1>6, <1>7, <1>8, <1>9, <1>10, <1>11, <1>12, <1>13,
     <1>14, <1>15 DEF Next

-----------------------------------------------------------------------------
(* Folds, as in RcTriggerProofs.                                             *)

\* A set of numbers that has 0, and with each number the next, has them all.
LEMMA Induction ==
  ASSUME NEW S, 0 \in S, \A n \in Nat : n \in S => n + 1 \in S
  PROVE  Nat \subseteq S
<1> DEFINE W == {1 .. n : n \in Nat \ S}
           R == StrictSubsetOrdering(Nat)
<1> SUFFICES ASSUME NEW k \in Nat \ S PROVE FALSE
  OBVIOUS
<1>1. W \subseteq FiniteSubsetsOf(Nat)
  <2> SUFFICES ASSUME NEW n \in Nat PROVE 1 .. n \in FiniteSubsetsOf(Nat)
    OBVIOUS
  <2>1. IsFiniteSet(1 .. n)
    BY FS_Interval
  <2> QED BY <2>1 DEF FiniteSubsetsOf
<1>2. IsWellFoundedOn(R, FiniteSubsetsOf(Nat))
  BY FS_StrictSubsetOrderingWellFounded
<1>3. W # {}
  OBVIOUS
<1>4. PICK x \in W : \A y \in W : ~(<<y, x>> \in R)
  <2> HIDE DEF W, R
  <2> QED BY <1>1, <1>2, <1>3, WFMin
<1>5. PICK n \in Nat \ S : x = 1 .. n
  OBVIOUS
<1>6. n - 1 \in Nat \ S
  <2>1. n # 0 /\ n - 1 \in Nat
    BY <1>5
  <2>2. n - 1 \in S => n - 1 + 1 \in S
    BY <2>1
  <2> QED BY <2>1, <2>2, <1>5
<1>7. <<1 .. (n - 1), 1 .. n>> \in R
  <2>1. n \in 1 .. n /\ n \notin 1 .. (n - 1) /\ 1 .. (n - 1) \subseteq 1 .. n
    BY <1>6
  <2>2. 1 .. n \in SUBSET Nat /\ 1 .. (n - 1) \in SUBSET Nat
    OBVIOUS
  <2>3. 1 .. n # 1 .. (n - 1)
    BY <2>1
  <2> QED BY <2>1, <2>2, <2>3 DEF StrictSubsetOrdering
<1>8. 1 .. (n - 1) \in W
  BY <1>6
<1> QED BY <1>4, <1>5, <1>7, <1>8

\* A set of numbers up to n has a largest one.
LEMMA MaxFacts ==
  ASSUME NEW n \in Nat, NEW s \in SUBSET (1 .. n), s # {}
  PROVE  Max(s) \in s /\ \A y \in s : Max(s) >= y
<1> DEFINE Has(k) == \A t \in SUBSET (1 .. k) :
                       t # {} => \E x \in t : \A y \in t : x >= y
           S == {k \in Nat : Has(k)}
<1>1. 0 \in S
  <2>1. 1 .. 0 = {}
    OBVIOUS
  <2> QED BY <2>1
<1>2. ASSUME NEW k \in Nat, k \in S PROVE k + 1 \in S
  <2> SUFFICES ASSUME NEW t \in SUBSET (1 .. (k + 1)), t # {}
               PROVE  \E x \in t : \A y \in t : x >= y
    OBVIOUS
  <2>1. CASE k + 1 \in t
    BY <2>1
  <2>2. CASE k + 1 \notin t
    <3>1. t \in SUBSET (1 .. k)
      BY <2>2
    <3> QED BY <3>1, <1>2
  <2> QED BY <2>1, <2>2
<1>3. Nat \subseteq S
  <2> HIDE DEF S
  <2> QED BY <1>1, <1>2, Induction
<1> QED BY <1>3 DEF Max

\* The largest number up to k is k, and without it there are those up to k - 1.
LEMMA MaxOfTurns ==
  ASSUME NEW k \in Nat \ {0}
  PROVE  /\ 1 .. k # {}
         /\ Max(1 .. k) = k
         /\ (1 .. k) \ {k} = 1 .. (k - 1)
<1>1. 1 .. k # {} /\ k \in 1 .. k
  OBVIOUS
<1>2. Max(1 .. k) \in 1 .. k /\ Max(1 .. k) >= k
  BY <1>1, MaxFacts
<1> QED BY <1>1, <1>2

\* A solution of the recursion of a fold over n turns, F being what a turn does.
FoldSolution(it, n, Good, base, F) ==
  /\ it \in [SUBSET (1 .. n) -> Good]
  /\ \A s \in SUBSET (1 .. n) :
       it[s] = IF s = {} THEN base ELSE F[<<Max(s), it[s \ {Max(s)}]>>]

\* There is one.
LEMMA FoldExists ==
  ASSUME NEW n \in Nat, NEW Good, NEW base \in Good,
         NEW F \in [(1 .. n) \X Good -> Good]
  PROVE  \E it : FoldSolution(it, n, Good, base, F)
<1> DEFINE Turn(it, s) == IF s = {} THEN base ELSE F[<<Max(s), it[s \ {Max(s)}]>>]
           Done(k) == \E it \in [SUBSET (1 .. k) -> Good] :
                        \A s \in SUBSET (1 .. k) : it[s] = Turn(it, s)
           S == {k \in Nat : k <= n => Done(k)}
<1>1. 0 \in S
  <2> DEFINE it == [s \in SUBSET (1 .. 0) |-> base]
  <2>1. it \in [SUBSET (1 .. 0) -> Good]
    OBVIOUS
  <2>2. ASSUME NEW s \in SUBSET (1 .. 0) PROVE it[s] = Turn(it, s)
    OBVIOUS
  <2> QED BY <2>1, <2>2
<1>2. ASSUME NEW k \in Nat, k \in S PROVE k + 1 \in S
  <2> SUFFICES ASSUME k + 1 <= n PROVE Done(k + 1)
    <3> HIDE DEF Done
    <3> QED OBVIOUS
  <2> k <= n
    OBVIOUS
  <2>0. Done(k)
    <3> HIDE DEF Done
    <3> QED BY <1>2
  <2>1. PICK it \in [SUBSET (1 .. k) -> Good] :
          \A s \in SUBSET (1 .. k) : it[s] = Turn(it, s)
    BY <2>0
  <2> DEFINE more == [s \in SUBSET (1 .. (k + 1)) |->
                        IF k + 1 \in s THEN F[<<k + 1, it[s \ {k + 1}]>>] ELSE it[s]]
  <2>2. ASSUME NEW s \in SUBSET (1 .. (k + 1))
        PROVE  more[s] \in Good /\ more[s] = Turn(more, s)
    <3>1. CASE k + 1 \in s
      <4>1. Max(s) = k + 1
        <5>1. Max(s) \in s /\ Max(s) >= k + 1
          BY <3>1, MaxFacts, k + 1 \in Nat
        <5>2. Max(s) \in 1 .. (k + 1)
          BY <5>1
        <5> QED BY <5>1, <5>2
      <4>2. s \ {k + 1} \in SUBSET (1 .. k)
        OBVIOUS
      <4>3. more[s \ {k + 1}] = it[s \ {k + 1}] /\ it[s \ {k + 1}] \in Good
        BY <4>2
      <4>4. more[s] = F[<<k + 1, it[s \ {k + 1}]>>]
        BY <3>1
      <4>5. <<k + 1, it[s \ {k + 1}]>> \in (1 .. n) \X Good
        BY <4>3
      <4> HIDE DEF more
      <4> QED BY <3>1, <4>1, <4>3, <4>4, <4>5
    <3>2. CASE k + 1 \notin s
      <4>1. s \in SUBSET (1 .. k)
        BY <3>2
      <4>2. more[s] = it[s] /\ it[s] \in Good /\ it[s] = Turn(it, s)
        BY <3>2, <4>1, <2>1
      <4>3. CASE s = {}
        BY <4>2, <4>3
      <4>4. CASE s # {}
        <5>1. s \ {Max(s)} \in SUBSET (1 .. k) /\ k + 1 \notin s \ {Max(s)}
          BY <4>1, <3>2
        <5>2. more[s \ {Max(s)}] = it[s \ {Max(s)}]
          BY <5>1
        <5> HIDE DEF more
        <5> QED BY <4>2, <4>4, <5>2
      <4> QED BY <4>3, <4>4
    <3> QED BY <3>1, <3>2
  <2>3. more \in [SUBSET (1 .. (k + 1)) -> Good]
    BY <2>2
  <2> HIDE DEF more
  <2> QED BY <2>2, <2>3
<1>3. Nat \subseteq S
  <2> HIDE DEF S
  <2> QED BY <1>1, <1>2, Induction
<1>4. Done(n)
  <2> HIDE DEF Done
  <2> QED BY <1>3
<1> QED BY <1>4 DEF FoldSolution

\* The values h of a fold over n turns, after each of them, the last being r.
FoldRunTo(h, n, Good, base, F, r) ==
  /\ h \in [0 .. n -> Good]
  /\ h[0] = base
  /\ \A k \in 1 .. n : h[k] = F[<<k, h[k - 1]>>]
  /\ h[n] = r

\* What does the turns in order on the sets 1 .. k leaves such values.
LEMMA FoldRuns ==
  ASSUME NEW n \in Nat, NEW Good, NEW base \in Good,
         NEW F \in [(1 .. n) \X Good -> Good], NEW it, it[{}] = base,
         \A k \in 1 .. n : it[1 .. (k - 1)] \in Good
                            => it[1 .. k] = F[<<k, it[1 .. (k - 1)]>>]
  PROVE  \E h : FoldRunTo(h, n, Good, base, F, it[1 .. n])
<1> DEFINE S == {k \in Nat : k <= n => it[1 .. k] \in Good}
           h == [k \in 0 .. n |-> it[1 .. k]]
<1>1. it[1 .. 0] = base
  <2>1. 1 .. 0 = {}
    OBVIOUS
  <2> QED BY <2>1
<1>2. 0 \in S
  BY <1>1
<1>3. ASSUME NEW k \in Nat, k \in S PROVE k + 1 \in S
  <2> SUFFICES ASSUME k + 1 <= n PROVE it[1 .. (k + 1)] \in Good
    OBVIOUS
  <2>1. k + 1 \in 1 .. n /\ (k + 1) - 1 = k
    OBVIOUS
  <2>2. it[1 .. k] \in Good
    BY <1>3
  <2>3. it[1 .. (k + 1)] = F[<<k + 1, it[1 .. k]>>]
    BY <2>1, <2>2
  <2> QED BY <2>1, <2>2, <2>3
<1>4. Nat \subseteq S
  <2> HIDE DEF S
  <2> QED BY <1>2, <1>3, Induction
<1>5. ASSUME NEW k \in 0 .. n PROVE it[1 .. k] \in Good
  <2>1. k \in Nat /\ k <= n
    OBVIOUS
  <2>2. k \in S
    <3> HIDE DEF S
    <3> QED BY <2>1, <1>4
  <2> QED BY <2>1, <2>2
<1>6. h \in [0 .. n -> Good] /\ h[0] = base /\ h[n] = it[1 .. n]
  BY <1>1, <1>5
<1>7. ASSUME NEW k \in 1 .. n PROVE h[k] = F[<<k, h[k - 1]>>]
  <2>1. k \in 0 .. n /\ k - 1 \in 0 .. n
    OBVIOUS
  <2>2. h[k] = it[1 .. k] /\ h[k - 1] = it[1 .. (k - 1)]
    BY <2>1
  <2> HIDE DEF h
  <2> QED BY <2>1, <2>2, <1>5
<1> HIDE DEF h
<1> QED BY <1>6, <1>7 DEF FoldRunTo

-----------------------------------------------------------------------------
(* Events in order.                                                          *)

\* The events of an overlay, with elements of any set.
EventsOf(Ids) == [type : {"SHOW", "HIDE", "UPDATE"}, id : Ids]

\* What may be drawn.
Pictures(Ids) == SUBSET Ids

\* What one event makes of what is drawn.
Draw(drawn, e) ==
  CASE e.type = "SHOW"   -> drawn \cup {e.id}
    [] e.type = "HIDE"   -> drawn \ {e.id}
    [] e.type = "UPDATE" -> drawn

\* Each of the pictures h follows from the one before by one event.
PlayRun(h, before, events, Ids) ==
  /\ h \in [0 .. Len(events) -> SUBSET Ids]
  /\ h[0] = before
  /\ \A k \in 1 .. Len(events) : h[k] = Draw(h[k - 1], events[k])
  /\ h[Len(events)] = Indicators!Played(before, events)

\* Events are played one by one.
LEMMA PlayedRuns ==
  ASSUME NEW Ids, NEW before \in SUBSET Ids, NEW events \in Seq(EventsOf(Ids))
  PROVE  \E h : PlayRun(h, before, events, Ids)
<1> DEFINE n == Len(events)
           Good == SUBSET Ids
           P(f) == f = [r \in SUBSET (DOMAIN events) |->
                          IF r = {} THEN before
                          ELSE Draw(f[r \ {Max(r)}], events[Max(r)])]
           it == CHOOSE f : P(f)
           played == Indicators!Played(before, events)
<1>1. n \in Nat /\ DOMAIN events = 1 .. n /\ \A k \in 1 .. n : events[k] \in EventsOf(Ids)
  OBVIOUS
<1>2. played = it[1 .. n]
  <2> HIDE DEF n
  <2> QED BY <1>1 DEF Indicators!Played, Indicators!FoldLeft, Indicators!MapThenFoldSet,
                    Indicators!Max, Max, Draw
<1>3. ASSUME NEW x \in Good, NEW i \in 1 .. n PROVE Draw(x, events[i]) \in Good
  <2>1. events[i] \in EventsOf(Ids)
    BY <1>1
  <2> QED BY <2>1 DEF Draw, EventsOf
<1> DEFINE F == [p \in (1 .. n) \X Good |-> Draw(p[2], events[p[1]])]
<1>5. F \in [(1 .. n) \X Good -> Good]
  <2> HIDE DEF Good
  <2> QED BY <1>3
<1>6. ASSUME NEW i \in 1 .. n, NEW x \in Good PROVE F[<<i, x>>] = Draw(x, events[i])
  OBVIOUS
<1>0. before \in Good
  OBVIOUS
<1> HIDE DEF F, n, Good, played
<1>7. PICK f : FoldSolution(f, n, Good, before, F)
  BY <1>0, <1>1, <1>5, FoldExists
<1>8. ASSUME NEW r \in SUBSET (1 .. n), r # {}
      PROVE  Max(r) \in 1 .. n /\ f[r \ {Max(r)}] \in Good
  <2>1. Max(r) \in r
    BY <1>1, <1>8, MaxFacts
  <2> QED BY <2>1, <1>7 DEF FoldSolution
<1>9. P(f)
  <2>1. ASSUME NEW r \in SUBSET (1 .. n)
        PROVE  f[r] = IF r = {} THEN before ELSE Draw(f[r \ {Max(r)}], events[Max(r)])
    BY <1>6, <1>7, <1>8 DEF FoldSolution
  <2>2. f = [r \in SUBSET (1 .. n) |->
               IF r = {} THEN before ELSE Draw(f[r \ {Max(r)}], events[Max(r)])]
    BY <2>1, <1>7 DEF FoldSolution
  <2> QED BY <2>2, <1>1
<1>10. P(it)
  BY <1>9
<1>11. \A r \in SUBSET (1 .. n) :
         it[r] = IF r = {} THEN before ELSE Draw(it[r \ {Max(r)}], events[Max(r)])
  BY <1>10, <1>1
<1> HIDE DEF it
<1>12. it[{}] = before
  BY <1>11
<1>13. ASSUME NEW k \in 1 .. n, it[1 .. (k - 1)] \in Good
       PROVE  it[1 .. k] = F[<<k, it[1 .. (k - 1)]>>]
  <2>1. 1 .. k # {} /\ Max(1 .. k) = k /\ (1 .. k) \ {k} = 1 .. (k - 1)
    BY <1>1, k \in Nat \ {0}, MaxOfTurns
  <2>2. 1 .. k \in SUBSET (1 .. n)
    BY <1>1
  <2>3. it[1 .. k] = Draw(it[1 .. (k - 1)], events[k])
    BY <2>1, <2>2, <1>11
  <2> QED BY <2>3, <1>6, <1>13
<1>14. PICK h : FoldRunTo(h, n, Good, before, F, it[1 .. n])
  BY <1>0, <1>1, <1>5, <1>12, <1>13, FoldRuns
<1>15. /\ h \in [0 .. n -> Good] /\ h[0] = before /\ h[n] = played
       /\ \A k \in 1 .. n : h[k] = Draw(h[k - 1], events[k])
  <2>1. \A k \in 1 .. n : k - 1 \in 0 .. n
    BY <1>1
  <2> QED BY <2>1, <1>2, <1>6, <1>14 DEF FoldRunTo
<1> QED BY <1>15 DEF PlayRun, n, Good, played

\* Nothing is changed by no event.
LEMMA PlayedNothing ==
  ASSUME NEW Ids, NEW before \in SUBSET Ids
  PROVE  Indicators!Played(before, <<>>) = before
<1>1. PICK h : PlayRun(h, before, <<>>, Ids)
  <2>1. <<>> \in Seq(EventsOf(Ids))
    OBVIOUS
  <2> QED BY <2>1, PlayedRuns
<1> QED BY <1>1 DEF PlayRun

\* One event more is played on what the others have drawn.
LEMMA PlayedMore ==
  ASSUME NEW Ids, NEW before \in Pictures(Ids), NEW events \in Seq(EventsOf(Ids)),
         NEW e \in EventsOf(Ids)
  PROVE  /\ Indicators!Played(before, events) \in Pictures(Ids)
         /\ Indicators!Played(before, Append(events, e))
              = Draw(Indicators!Played(before, events), e)
<1> USE DEF Pictures
<1> DEFINE n == Len(events)
           more == Append(events, e)
<1>1. n \in Nat /\ more \in Seq(EventsOf(Ids)) /\ Len(more) = n + 1 /\ more[n + 1] = e
      /\ \A k \in 1 .. n : more[k] = events[k]
  OBVIOUS
<1>2. PICK h : PlayRun(h, before, events, Ids)
  BY PlayedRuns
<1>3. PICK g : PlayRun(g, before, more, Ids)
  BY <1>1, PlayedRuns
<1> HIDE DEF more
<1>4. /\ h[0] = before /\ h[n] = Indicators!Played(before, events) /\ h[n] \in SUBSET Ids
      /\ \A k \in 1 .. n : h[k] = Draw(h[k - 1], events[k])
  BY <1>1, <1>2 DEF PlayRun
<1>5. /\ g[0] = before /\ g[n + 1] = Indicators!Played(before, more)
      /\ g[n + 1] = Draw(g[n], e)
      /\ \A k \in 1 .. n : g[k] = Draw(g[k - 1], events[k])
  <2>1. n + 1 \in 1 .. (n + 1) /\ (n + 1) - 1 = n /\ \A k \in 1 .. n : k \in 1 .. (n + 1)
    BY <1>1
  <2> QED BY <2>1, <1>1, <1>3 DEF PlayRun
<1> DEFINE S == {k \in Nat : k <= n => g[k] = h[k]}
<1>6. 0 \in S
  BY <1>4, <1>5
<1>7. ASSUME NEW k \in Nat, k \in S PROVE k + 1 \in S
  <2> SUFFICES ASSUME k + 1 <= n PROVE g[k + 1] = h[k + 1]
    OBVIOUS
  <2>1. k + 1 \in 1 .. n /\ (k + 1) - 1 = k /\ g[k] = h[k]
    BY <1>1, <1>7
  <2> QED BY <2>1, <1>4, <1>5
<1>8. Nat \subseteq S
  <2> HIDE DEF S
  <2> QED BY <1>6, <1>7, Induction
<1>9. g[n] = h[n]
  BY <1>1, <1>8
<1> QED BY <1>4, <1>5, <1>9 DEF more

\* Whether events may be raised in this order, one event more included.
LEMMA LegalMore ==
  ASSUME NEW Ids, NEW before, NEW events \in Seq(EventsOf(Ids)), NEW e \in EventsOf(Ids)
  PROVE  Indicators!Legal(before, Append(events, e)) <=>
           /\ Indicators!Legal(before, events)
           /\ e.type = "SHOW" <=> e.id \notin Indicators!Played(before, events)
<1> DEFINE n == Len(events)
           more == Append(events, e)
           P(es) == Indicators!Played(before, es)
<1>1. /\ n \in Nat /\ DOMAIN events = 1 .. n /\ DOMAIN more = 1 .. (n + 1)
      /\ more[n + 1] = e /\ \A k \in 1 .. n : more[k] = events[k]
  OBVIOUS
<1>2. ASSUME NEW i \in 1 .. n PROVE SubSeq(more, 1, i - 1) = SubSeq(events, 1, i - 1)
  BY <1>1
<1>3. SubSeq(more, 1, (n + 1) - 1) = events
  BY <1>1
<1> HIDE DEF more, n, P
<1>4. Indicators!Legal(before, more) <=>
        \A i \in 1 .. (n + 1) :
          more[i].type = "SHOW" <=> more[i].id \notin P(SubSeq(more, 1, i - 1))
  BY <1>1 DEF Indicators!Legal, P
<1>5. Indicators!Legal(before, events) <=>
        \A i \in 1 .. n :
          events[i].type = "SHOW" <=> events[i].id \notin P(SubSeq(events, 1, i - 1))
  BY <1>1 DEF Indicators!Legal, P
<1>6. \A i : i \in 1 .. (n + 1) <=> i \in 1 .. n \/ i = n + 1
  BY <1>1
<1>7. \A i \in 1 .. n :
        (more[i].type = "SHOW" <=> more[i].id \notin P(SubSeq(more, 1, i - 1))) <=>
        (events[i].type = "SHOW" <=> events[i].id \notin P(SubSeq(events, 1, i - 1)))
  BY <1>1, <1>2
<1>8. (more[n + 1].type = "SHOW" <=> more[n + 1].id \notin P(SubSeq(more, 1, (n + 1) - 1))) <=>
        (e.type = "SHOW" <=> e.id \notin P(events))
  BY <1>1, <1>3
<1>9. Indicators!Legal(before, more) <=>
        /\ \A i \in 1 .. n :
             events[i].type = "SHOW" <=> events[i].id \notin P(SubSeq(events, 1, i - 1))
        /\ e.type = "SHOW" <=> e.id \notin P(events)
  BY <1>4, <1>6, <1>7, <1>8
<1> QED BY <1>5, <1>9 DEF more, P

\* No event is in order.
LEMMA LegalNothing ==
  ASSUME NEW before
  PROVE  Indicators!Legal(before, <<>>)
BY DEF Indicators!Legal

\* At most one event for each achievement.
Kinds == [Achievements -> {"none", "SHOW", "HIDE"}]

\* Each of the sequences h has what the one before has, and the event of the next.
OrderRun(h, kinds) ==
  /\ h \in [0 .. Count -> Seq(EventsOf(Achievements))]
  /\ h[0] = <<>>
  /\ \A k \in 1 .. Count :
       h[k] = IF kinds[k] = "none" THEN h[k - 1]
              ELSE Append(h[k - 1], [type |-> kinds[k], id |-> k])
  /\ h[Count] = InOrder(kinds)

\* There are such sequences.
LEMMA InOrderRuns ==
  ASSUME NEW kinds \in Kinds
  PROVE  \E h : OrderRun(h, kinds)
<1> DEFINE n == Count
           Good == Seq(EventsOf(Achievements))
           Op(x, a) == IF kinds[a] = "none" THEN x
                       ELSE Append(x, [type |-> kinds[a], id |-> a])
           ids == [i \in DOMAIN kinds |-> i]
           P(f) == f = [r \in SUBSET (DOMAIN ids) |->
                          IF r = {} THEN <<>> ELSE Op(f[r \ {Max(r)}], ids[Max(r)])]
           it == CHOOSE f : P(f)
<1>1. n \in Nat /\ DOMAIN ids = 1 .. n /\ \A i \in 1 .. n : ids[i] = i
  BY AchievementAssumption DEF Kinds, Achievements
<1>2. InOrder(kinds) = it[1 .. n]
  <2> HIDE DEF n
  <2> QED BY <1>1 DEF InOrder, FoldLeftDomain, FoldLeft, MapThenFoldSet
<1>3. ASSUME NEW x \in Good, NEW i \in 1 .. n PROVE Op(x, i) \in Good
  <2>1. kinds[i] \in {"none", "SHOW", "HIDE"} /\ i \in Achievements
    BY DEF Kinds, Achievements
  <2>2. kinds[i] # "none" => [type |-> kinds[i], id |-> i] \in EventsOf(Achievements)
    BY <2>1 DEF EventsOf
  <2> QED BY <2>2
<1> DEFINE F == [p \in (1 .. n) \X Good |-> Op(p[2], p[1])]
<1>0. <<>> \in Good
  OBVIOUS
<1> HIDE DEF n, Good, Op
<1>5. F \in [(1 .. n) \X Good -> Good]
  BY <1>3
<1>6. ASSUME NEW i \in 1 .. n, NEW x \in Good PROVE F[<<i, x>>] = Op(x, i)
  OBVIOUS
<1> HIDE DEF F
<1>7. PICK f : FoldSolution(f, n, Good, <<>>, F)
  BY <1>0, <1>1, <1>5, FoldExists
<1>8. ASSUME NEW r \in SUBSET (1 .. n), r # {}
      PROVE  Max(r) \in 1 .. n /\ f[r \ {Max(r)}] \in Good
  <2>1. Max(r) \in r
    BY <1>1, <1>8, MaxFacts
  <2> QED BY <2>1, <1>7 DEF FoldSolution
<1>9. P(f)
  <2>1. ASSUME NEW r \in SUBSET (1 .. n)
        PROVE  f[r] = IF r = {} THEN <<>> ELSE Op(f[r \ {Max(r)}], ids[Max(r)])
    BY <1>1, <1>6, <1>7, <1>8 DEF FoldSolution
  <2>2. f = [r \in SUBSET (1 .. n) |->
               IF r = {} THEN <<>> ELSE Op(f[r \ {Max(r)}], ids[Max(r)])]
    BY <2>1, <1>7 DEF FoldSolution
  <2> QED BY <2>2, <1>1
<1>10. P(it)
  BY <1>9
<1>11. \A r \in SUBSET (1 .. n) :
         it[r] = IF r = {} THEN <<>> ELSE Op(it[r \ {Max(r)}], ids[Max(r)])
  BY <1>10, <1>1
<1> HIDE DEF it, ids
<1>12. it[{}] = <<>>
  BY <1>11
<1>13. ASSUME NEW k \in 1 .. n, it[1 .. (k - 1)] \in Good
       PROVE  it[1 .. k] = F[<<k, it[1 .. (k - 1)]>>]
  <2>1. 1 .. k # {} /\ Max(1 .. k) = k /\ (1 .. k) \ {k} = 1 .. (k - 1)
    BY <1>1, k \in Nat \ {0}, MaxOfTurns
  <2>2. 1 .. k \in SUBSET (1 .. n)
    BY <1>1
  <2>3. it[1 .. k] = Op(it[1 .. (k - 1)], ids[k])
    BY <2>1, <2>2, <1>11
  <2> QED BY <2>3, <1>1, <1>6, <1>13
<1>14. PICK h : FoldRunTo(h, n, Good, <<>>, F, it[1 .. n])
  BY <1>0, <1>1, <1>5, <1>12, <1>13, FoldRuns
<1>15. /\ h \in [0 .. n -> Good] /\ h[0] = <<>> /\ h[n] = InOrder(kinds)
       /\ \A k \in 1 .. n : h[k] = Op(h[k - 1], k)
  <2>1. \A k \in 1 .. n : k - 1 \in 0 .. n
    BY <1>1
  <2> QED BY <2>1, <1>2, <1>6, <1>14 DEF FoldRunTo
<1> QED BY <1>15 DEF OrderRun, n, Good, Op

\* If what is shown was hidden and what is hidden was shown, the events are legal,
\* and draw what they say.
LEMMA InOrderDraws ==
  ASSUME NEW kinds \in Kinds, NEW before \in SUBSET Achievements,
         \A a \in Achievements : /\ kinds[a] = "SHOW" => a \notin before
                                 /\ kinds[a] = "HIDE" => a \in before
  PROVE  /\ InOrder(kinds) \in Seq(EventsOf(Achievements))
         /\ Indicators!Legal(before, InOrder(kinds))
         /\ Indicators!Played(before, InOrder(kinds))
              = {a \in Achievements : kinds[a] = "SHOW" \/ (a \in before /\ kinds[a] # "HIDE")}
<1> DEFINE Drawn(k) ==
             {a \in Achievements : IF a <= k
                                   THEN kinds[a] = "SHOW" \/ (a \in before /\ kinds[a] # "HIDE")
                                   ELSE a \in before}
           P(es) == Indicators!Played(before, es)
<1>1. PICK h : OrderRun(h, kinds)
  BY InOrderRuns
<1>2. Count \in Nat
  BY AchievementAssumption
<1> DEFINE Done(k) == Indicators!Legal(before, h[k]) /\ P(h[k]) = Drawn(k)
           S == {k \in Nat : k <= Count => Done(k)}
<1>3. 0 \in S
  <2>1. Drawn(0) = before
    <3>1. \A a \in Achievements : ~(a <= 0)
      BY <1>2 DEF Achievements
    <3> QED BY <3>1
  <2>2. P(<<>>) = before
    BY PlayedNothing
  <2> QED BY <1>1, <2>1, <2>2, LegalNothing DEF OrderRun
<1>4. ASSUME NEW k \in Nat, k \in S PROVE k + 1 \in S
  <2> SUFFICES ASSUME k + 1 <= Count PROVE Done(k + 1)
    <3> HIDE DEF Done
    <3> QED OBVIOUS
  <2>1. Done(k)
    <3> HIDE DEF Done
    <3> QED BY <1>2, <1>4
  <2> DEFINE a == k + 1
             e == [type |-> kinds[k + 1], id |-> k + 1]
  <2>2. /\ k + 1 \in 1 .. Count /\ k + 1 \in Achievements /\ (k + 1) - 1 = k /\ k \in 0 .. Count
        /\ kinds[k + 1] \in {"none", "SHOW", "HIDE"}
    BY <1>2 DEF Achievements, Kinds
  <2>3. h[k] \in Seq(EventsOf(Achievements))
    BY <2>2, <1>1 DEF OrderRun
  <2>4. k + 1 \in Drawn(k) <=> k + 1 \in before
    BY <2>2
  <2>5. CASE kinds[k + 1] = "none"
    <3>1. h[k + 1] = h[k]
      BY <2>2, <2>5, <1>1 DEF OrderRun
    <3>2. Drawn(k + 1) = Drawn(k)
      BY <2>5, <1>2 DEF Achievements
    <3> HIDE DEF Drawn
    <3> QED BY <2>1, <3>1, <3>2
  <2>6. CASE kinds[k + 1] # "none"
    <3>1. h[k + 1] = Append(h[k], e)
      BY <2>2, <2>6, <1>1 DEF OrderRun
    <3>2. e \in EventsOf(Achievements) /\ e.type = kinds[k + 1] /\ e.id = k + 1
      BY <2>2, <2>6 DEF EventsOf
    <3> HIDE DEF e
    <3>3. P(Append(h[k], e)) = Draw(Drawn(k), e)
      <4>1. P(Append(h[k], e)) = Draw(P(h[k]), e)
        <5> HIDE DEF Drawn
        <5>1. before \in Pictures(Achievements)
          BY DEF Pictures
        <5> HIDE DEF P
        <5>2. Indicators!Played(before, Append(h[k], e))
                = Draw(Indicators!Played(before, h[k]), e)
          BY <2>3, <3>2, <5>1, PlayedMore
        <5> QED BY <5>2 DEF P
      <4> HIDE DEF Drawn, P
      <4> QED BY <2>1, <4>1
    <3>4. Indicators!Legal(before, Append(h[k], e))
      <4>1. e.type = "SHOW" <=> e.id \notin Drawn(k)
        BY <2>2, <2>4, <2>6, <3>2
      <4> HIDE DEF Drawn
      <4> QED BY <2>1, <2>3, <3>2, <4>1, LegalMore
    <3>5. Draw(Drawn(k), e) = Drawn(k + 1)
      <4>1. CASE kinds[k + 1] = "SHOW"
        <5>1. Draw(Drawn(k), e) = Drawn(k) \cup {k + 1}
          BY <3>2, <4>1 DEF Draw
        <5> QED BY <5>1, <2>2, <4>1, <1>2 DEF Achievements
      <4>2. CASE kinds[k + 1] = "HIDE"
        <5>1. Draw(Drawn(k), e) = Drawn(k) \ {k + 1}
          BY <3>2, <4>2 DEF Draw
        <5> QED BY <5>1, <2>2, <4>2, <1>2 DEF Achievements
      <4> QED BY <4>1, <4>2, <2>2, <2>6
    <3> HIDE DEF Drawn
    <3> QED BY <3>1, <3>3, <3>4, <3>5
  <2> QED BY <2>5, <2>6
<1>5. Nat \subseteq S
  <2> HIDE DEF S
  <2> QED BY <1>3, <1>4, Induction
<1>6. Done(Count)
  <2> HIDE DEF Done
  <2> QED BY <1>2, <1>5
<1>7. Drawn(Count) = {a \in Achievements : kinds[a] = "SHOW" \/ (a \in before /\ kinds[a] # "HIDE")}
  BY <1>2 DEF Achievements
<1>8. h[Count] = InOrder(kinds) /\ h[Count] \in Seq(EventsOf(Achievements))
  BY <1>1, <1>2 DEF OrderRun
<1> HIDE DEF Drawn
<1> QED BY <1>6, <1>7, <1>8

\* Where nothing is to be told there are no events.
LEMMA InOrderNothing ==
  ASSUME NEW kinds \in Kinds, \A a \in Achievements : kinds[a] = "none"
  PROVE  InOrder(kinds) = <<>>
<1>1. PICK h : OrderRun(h, kinds)
  BY InOrderRuns
<1>2. Count \in Nat
  BY AchievementAssumption
<1> DEFINE S == {k \in Nat : k <= Count => h[k] = <<>>}
<1>3. 0 \in S
  BY <1>1 DEF OrderRun
<1>4. ASSUME NEW k \in Nat, k \in S PROVE k + 1 \in S
  <2> SUFFICES ASSUME k + 1 <= Count PROVE h[k + 1] = <<>>
    OBVIOUS
  <2>1. k + 1 \in 1 .. Count /\ (k + 1) - 1 = k /\ k + 1 \in Achievements /\ h[k] = <<>>
    BY <1>2, <1>4 DEF Achievements
  <2> QED BY <2>1, <1>1 DEF OrderRun
<1>5. Nat \subseteq S
  <2> HIDE DEF S
  <2> QED BY <1>3, <1>4, Induction
<1> QED BY <1>1, <1>2, <1>5 DEF OrderRun

-----------------------------------------------------------------------------
(* The challenge indicators are what their events say.                       *)

\* What is on screen.
Lit == IF host.fails \/ ~loaded THEN {} ELSE {a \in Achievements : Primed(ach[a])}

\* The event for what is pending.
Kind(p) ==
  CASE "HIDE" \in p                    -> "HIDE"
    [] "HIDE" \notin p /\ "SHOW" \in p -> "SHOW"
    [] OTHER                           -> "none"

\* What is pending for y tells how x, as it was before the call, has changed.
Tells(x, y) ==
  /\ Kind(y.pending) = "SHOW" => ~Primed(x)
  /\ Kind(y.pending) = "HIDE" => Primed(x)
  /\ Primed(y) /\ "TRIGGERED" \notin y.pending <=>
       Kind(y.pending) = "SHOW" \/ (Primed(x) /\ Kind(y.pending) # "HIDE")

\* A call that raises one event for each achievement of which the indicator changes.
LEMMA IndicatorsCall ==
  ASSUME ~host.fails, UNCHANGED host, raised = <<>>, NEW kinds \in Kinds,
         raised' = InOrder(kinds),
         \A a \in Achievements :
           /\ kinds[a] = "SHOW" => a \notin Lit
           /\ kinds[a] = "HIDE" => a \in Lit
           /\ a \in Lit' <=> kinds[a] = "SHOW" \/ (a \in Lit /\ kinds[a] # "HIDE")
  PROVE  Indicators!Call
<1>1. Lit \in SUBSET Achievements /\ Lit' \subseteq Achievements
  BY DEF Lit
<1>2. /\ InOrder(kinds) \in Seq(EventsOf(Achievements))
      /\ Indicators!Legal(Lit, InOrder(kinds))
      /\ Indicators!Played(Lit, InOrder(kinds))
           = {a \in Achievements : kinds[a] = "SHOW" \/ (a \in Lit /\ kinds[a] # "HIDE")}
  <2> HIDE DEF Lit
  <2> QED BY <1>1, InOrderDraws
<1>3. Lit' = Indicators!Played(Lit, InOrder(kinds))
  <2> HIDE DEF Lit
  <2> QED BY <1>1, <1>2
<1>4. Indicators!Events = EventsOf(Achievements)
  BY DEF Indicators!Events, EventsOf
<1>5. ~host'.fails
  OBVIOUS
<1>6. (IF host.fails THEN <<>> ELSE raised) = <<>>
      /\ (IF host.fails THEN <<>> ELSE raised)' = InOrder(kinds)
  BY <1>5
<1> QED BY <1>2, <1>3, <1>4, <1>6 DEF Indicators!Call, Lit

\* What raises the events of a call shows and hides what it should, if what is
\* pending tells how the achievements have changed.
LEMMA RaisesIndicators ==
  ASSUME ~host.fails, UNCHANGED host, raised = <<>>, hardcore \in BOOLEAN,
         loaded, loaded' = TRUE,
         NEW s \in [Achievements -> Achievement], NEW t, NEW list, NEW idles \in BOOLEAN,
         RaisePendingEvents([ach |-> s, tracker |-> t], <<>>, list, idles),
         \A a \in Achievements : Tells(ach[a], s[a])
  PROVE  Indicators!Call
<1> DEFINE kinds == [a \in Achievements |-> Kind(s[a].pending)]
<1>1. kinds \in Kinds
  BY DEF Kind, Kinds
<1>2. raised' = InOrder(kinds)
  <2>1. IndicatorEvents([ach |-> s, tracker |-> t]) = InOrder(kinds)
    BY DEF IndicatorEvents, Kind
  <2>2. InOrder(kinds) \in Seq(EventsOf(Achievements))
    <3> HIDE DEF kinds
    <3>1. PICK h : OrderRun(h, kinds)
      BY <1>1, InOrderRuns
    <3> QED BY <3>1, AchievementAssumption DEF OrderRun
  <2>3. raised' = <<>> \o InOrder(kinds)
    BY <2>1 DEF RaisePendingEvents
  <2> HIDE DEF kinds
  <2> QED BY <2>2, <2>3
<1>3. /\ ach' = Raised([ach |-> s, tracker |-> t])
      /\ \A a \in Achievements :
           /\ ach'[a].trigger = s[a].trigger
           /\ ach'[a].public = IF "TRIGGERED" \in s[a].pending THEN "UNLOCKED" ELSE s[a].public
  <2>1. ach' = Raised([ach |-> s, tracker |-> t])
    BY DEF RaisePendingEvents
  <2> QED BY <2>1, RaisedSettles
<1>4. ASSUME NEW a \in Achievements
      PROVE  /\ a \in Lit <=> Primed(ach[a])
             /\ a \in Lit' <=> Primed(s[a]) /\ "TRIGGERED" \notin s[a].pending
  <2>1. a \in Lit <=> Primed(ach[a])
    BY DEF Lit
  <2>2. a \in Lit' <=> Primed(ach'[a])
    BY DEF Lit, Primed
  <2>3. Primed(ach'[a]) <=> Primed(s[a]) /\ "TRIGGERED" \notin s[a].pending
    BY <1>3 DEF Primed
  <2> QED BY <2>1, <2>2, <2>3
<1>5. ASSUME NEW a \in Achievements
      PROVE  /\ kinds[a] = "SHOW" => a \notin Lit
             /\ kinds[a] = "HIDE" => a \in Lit
             /\ a \in Lit' <=> kinds[a] = "SHOW" \/ (a \in Lit /\ kinds[a] # "HIDE")
  <2>1. Tells(ach[a], s[a]) /\ kinds[a] = Kind(s[a].pending)
    OBVIOUS
  <2> HIDE DEF kinds
  <2> QED BY <2>1, <1>4 DEF Tells
<1> HIDE DEF kinds
<1> QED BY <1>1, <1>2, <1>5, IndicatorsCall

\* A frame tells which achievements were primed and are no longer, and the reverse.
LEMMA ProcessedTells ==
  ASSUME NEW x \in Settled, NEW next \in Evaluated(x), hardcore \in BOOLEAN,
         x.public = "ACTIVE" => x.trigger \in ActiveTriggers
  PROVE  Tells(x, Processed(x, next))
<1>1. x \in Achievement /\ x.pending = {}
  BY DEF Settled
<1>2. CASE x.public # "ACTIVE"
  BY <1>1, <1>2 DEF Processed, Tells, Kind, Primed
<1>3. CASE x.public = "ACTIVE"
  <2> DEFINE counted == IF next = "WAITING" THEN FALSE ELSE x.softcore \/ ~hardcore
             p == CASE next = x.trigger                           -> {}
                    [] next = "PRIMED" /\ next # x.trigger        -> {"SHOW"}
                    [] next = "TRIGGERED" /\ x.trigger = "PRIMED" -> {"HIDE", "TRIGGERED"}
                    [] next = "TRIGGERED" /\ x.trigger # "PRIMED" -> {"TRIGGERED"}
                    [] next = "ACTIVE" /\ x.trigger = "PRIMED"    -> {"HIDE"}
                    [] OTHER                                      -> {}
             y == Processed(x, next)
  <2>1. y = [x EXCEPT !.trigger = next, !.softcore = counted, !.pending = p]
    BY <1>3 DEF Processed
  <2>2. counted \in BOOLEAN
    BY <1>1 DEF Achievement
  <2>3. /\ x.trigger \in ActiveTriggers
        /\ next \in ActiveTriggers \cup {"TRIGGERED"}
        /\ next = "WAITING" => x.trigger = "WAITING"
    BY <1>3 DEF Evaluated, ActiveTriggers
  <2>4. /\ p \in SUBSET {"SHOW", "HIDE", "TRIGGERED"}
        /\ "HIDE" \in p <=> x.trigger = "PRIMED" /\ next # "PRIMED"
        /\ "SHOW" \in p <=> x.trigger # "PRIMED" /\ next = "PRIMED"
        /\ "TRIGGERED" \in p => next = "TRIGGERED"
    BY <2>3 DEF ActiveTriggers
  <2> HIDE DEF counted, p
  <2>5. y.public = x.public /\ y.trigger = next /\ y.pending = p
    BY <1>1, <2>1, <2>2 DEF Achievement
  <2>6. /\ Kind(p) = "HIDE" <=> "HIDE" \in p
        /\ Kind(p) = "SHOW" <=> "SHOW" \in p /\ "HIDE" \notin p
    BY DEF Kind
  <2> HIDE DEF y
  <2>7. Kind(y.pending) = Kind(p) /\ ("TRIGGERED" \in y.pending => next = "TRIGGERED")
    BY <2>4, <2>5
  <2>8. (Primed(x) <=> x.trigger = "PRIMED") /\ (Primed(y) <=> next = "PRIMED")
    BY <1>3, <2>5 DEF Primed
  <2>9. /\ Kind(y.pending) = "HIDE" <=> x.trigger = "PRIMED" /\ next # "PRIMED"
        /\ Kind(y.pending) = "SHOW" <=> x.trigger # "PRIMED" /\ next = "PRIMED"
    BY <2>4, <2>6, <2>7
  <2>10. Tells(x, y)
    BY <2>7, <2>8, <2>9 DEF Tells
  <2> QED BY <2>10 DEF y
<1> QED BY <1>2, <1>3

\* A reset hides what is primed.
LEMMA ResetTells ==
  ASSUME NEW s \in [Achievements -> Achievement], NEW a \in Achievements,
         s[a].pending = {}
  PROVE  Tells(s[a], ResetAchievements(s)[a])
<1> DEFINE x == s[a]
           y == ResetAchievements(s)[a]
<1>1. x \in Achievement
  OBVIOUS
<1>2. CASE Primed(x)
  <2>1. y = [[x EXCEPT !.trigger = "WAITING", !.softcore = FALSE] EXCEPT !.pending = @ \cup {"HIDE"}]
    BY <1>2 DEF ResetAchievements, ResetTrigger
  <2> HIDE DEF x, y
  <2>2. y.trigger = "WAITING" /\ "HIDE" \in y.pending
    BY <1>1, <2>1 DEF Achievement
  <2> QED BY <1>2, <2>2 DEF Tells, Primed, Kind, x, y
<1>3. CASE ~Primed(x)
  <2>1. y = x \/ y = [x EXCEPT !.trigger = "WAITING", !.softcore = FALSE]
    BY <1>3 DEF ResetAchievements, ResetTrigger
  <2>2. x.pending = {}
    OBVIOUS
  <2> HIDE DEF x, y
  <2>3. ~Primed(y) /\ y.pending = {}
    BY <1>1, <1>3, <2>1, <2>2 DEF Achievement, Primed
  <2> QED BY <1>3, <2>3 DEF Tells, Primed, Kind, x, y
<1> QED BY <1>2, <1>3

\* A restore tells what has changed between its start and its end, whatever it does
\* to the trigger in between, as long as nothing more becomes pending than a reset of
\* what is primed.
LEMMA RestoreTells ==
  ASSUME NEW s \in [Achievements -> Settled], NEW z \in [Achievements -> Achievement],
         NEW a \in Achievements,
         z[a].public = s[a].public,
         z[a].pending = IF Primed(s[a]) THEN {"HIDE"} ELSE {}
  PROVE  Tells(s[a], AfterDeserialize(z)[a])
<1> DEFINE x == s[a]
           q == z[a]
           y == AfterDeserialize(z)[a]
           p == CASE Primed(q) /\ "HIDE" \in q.pending    -> q.pending \ {"HIDE"}
                  [] Primed(q) /\ "HIDE" \notin q.pending -> q.pending \cup {"SHOW"}
                  [] OTHER                                -> q.pending
<1>1. x \in Settled /\ q \in Achievement /\ q.pending = IF Primed(x) THEN {"HIDE"} ELSE {}
  OBVIOUS
<1>2. y = [q EXCEPT !.pending = p]
  BY DEF AfterDeserialize
<1>3. p = CASE Primed(q) /\ Primed(x)   -> {}
            [] Primed(q) /\ ~Primed(x)  -> {"SHOW"}
            [] ~Primed(q) /\ Primed(x)  -> {"HIDE"}
            [] ~Primed(q) /\ ~Primed(x) -> {}
  <2>1. p \in SUBSET {"SHOW", "HIDE", "TRIGGERED"}
    BY <1>1 DEF Achievement
  <2> QED BY <1>1
<1> HIDE DEF x, q, y, p
<1>4. y.pending = p /\ y.public = q.public /\ y.trigger = q.trigger
  BY <1>1, <1>2 DEF Achievement
<1>5. Primed(y) <=> Primed(q)
  BY <1>4 DEF Primed
<1>6. /\ Kind(p) = "HIDE" <=> "HIDE" \in p
      /\ Kind(p) = "SHOW" <=> "SHOW" \in p /\ "HIDE" \notin p
  BY DEF Kind
<1>7. /\ "HIDE" \in p <=> ~Primed(q) /\ Primed(x)
      /\ "SHOW" \in p <=> Primed(q) /\ ~Primed(x)
      /\ "TRIGGERED" \notin p
  BY <1>3
<1>8. Tells(x, y)
  BY <1>4, <1>5, <1>6, <1>7 DEF Tells
<1> QED BY <1>8 DEF x, y

\* No change of mode makes an achievement primed.
LEMMA SwitchedNeverPrimes ==
  ASSUME NEW x \in Achievement, NEW bit, NEW enc
  PROVE  Primed(Switched(x, bit, enc)) => Primed(x)
<1> DEFINE y == Switched(x, bit, enc)
<1>1. CASE bit \notin x.unlocked /\ x.public \in {"UNLOCKED", "INACTIVE"}
  <2>1. y = [x EXCEPT !.trigger = "WAITING", !.softcore = FALSE, !.public = "ACTIVE"]
    BY <1>1 DEF Switched, ResetTrigger
  <2>2. y.trigger = "WAITING"
    <3> HIDE DEF y
    <3> QED BY <2>1 DEF Achievement
  <2> QED BY <2>2 DEF Primed
<1>2. CASE bit \in x.unlocked /\ x.public \in {"ACTIVE", "INACTIVE"} /\ ~enc
  <2>1. y = [x EXCEPT !.public = "UNLOCKED",
                      !.trigger = IF @ \in ActiveTriggers THEN "TRIGGERED" ELSE @]
    BY <1>2 DEF Switched
  <2>2. y.public = "UNLOCKED"
    <3> HIDE DEF y
    <3> QED BY <2>1 DEF Achievement
  <2> QED BY <2>2 DEF Primed
<1>3. CASE /\ ~(bit \notin x.unlocked /\ x.public \in {"UNLOCKED", "INACTIVE"})
           /\ ~(bit \in x.unlocked /\ x.public \in {"ACTIVE", "INACTIVE"} /\ ~enc)
  BY <1>3 DEF Switched
<1> QED BY <1>1, <1>2, <1>3

\* To clear what is pending changes nothing where nothing is.
LEMMA NothingPending ==
  ASSUME NEW x \in Settled
  PROVE  [x EXCEPT !.pending = {}] = x
<1>1. x \in Achievement /\ x.pending = {}
  BY DEF Settled
<1>2. x = [public |-> x.public, unlocked |-> x.unlocked, trigger |-> x.trigger,
           pending |-> x.pending, softcore |-> x.softcore]
  BY <1>1 DEF Achievement
<1> QED BY <1>1, <1>2

\* Each call shows and hides the indicators of the achievements it changes.
LEMMA IndicatorsStep ==
  ASSUME IInv, [Next]_vars
  PROVE  [Indicators!Next]_(Indicators!vars)
<1> DEFINE told == IF host.fails THEN <<>> ELSE raised
           Stutter == Lit' = Lit /\ told' = told
<1>1. Stutter => [Indicators!Next]_(Indicators!vars)
  BY DEF Indicators!vars, Lit
<1>2. Indicators!Call => [Indicators!Next]_(Indicators!vars)
  BY DEF Indicators!Next
<1>3. /\ hardcore \in BOOLEAN /\ ach \in [Achievements -> Settled]
      /\ ach \in [Achievements -> Achievement] /\ Playable(ach)
      /\ \A a \in Achievements : ach[a].pending = {}
  BY DEF IInv, OthersOK, AchievementsOK, Settled
<1>4. host' = host
  BY DEF Next, vars, settings, DoFrame, Idle, Tick, Handled, LoadGame, Unload, Reset,
         EnableHardcore, DisableHardcore, SetEncore, Serialize, Deserialize, Answered,
         AnsweredLast
<1>5. CASE host.fails
  <2>1. Stutter
    BY <1>4, <1>5 DEF Lit
  <2> QED BY <2>1, <1>1
<1>6. CASE ~host.fails
  <2>1. CASE UNCHANGED <<ach, loaded, raised>>
    <3>1. Stutter
      BY <1>4, <2>1 DEF Lit
    <3> QED BY <3>1, <1>1
  <2>2. CASE Handled
    <3>1. /\ (IF host.fails THEN <<>> ELSE raised)' = <<>>
          /\ Lit' = Lit
      BY <1>4, <1>6, <2>2 DEF Handled, settings, Lit
    <3>2. Indicators!Handled
      BY <3>1 DEF Indicators!Handled, Lit
    <3> QED BY <3>2 DEF Indicators!Next
  <2>3. CASE DoFrame
    <3>1. PICK next \in [Achievements -> ActiveTriggers \cup {"TRIGGERED", "DISABLED"}],
               progress \in BOOLEAN :
            /\ \A a \in Achievements : next[a] \in Evaluated(Invalidated({})[a])
            /\ RaisePendingEvents(
                 [ach |-> [a \in Achievements |-> Processed(Invalidated({})[a], next[a])],
                  tracker |-> IF progress THEN UpdateTracker(tracker) ELSE tracker],
                 <<>>, listed, TRUE)
      BY <1>6, <2>3 DEF DoFrame
    <3>2. Invalidated({}) = ach
      BY <1>3, InvalidatedKeeps
    <3> DEFINE after == [a \in Achievements |-> Processed(ach[a], next[a])]
               t == IF progress THEN UpdateTracker(tracker) ELSE tracker
    <3>3. ASSUME NEW a \in Achievements
          PROVE  after[a] \in Achievement /\ Tells(ach[a], after[a])
      <4>1. /\ ach[a] \in Settled /\ next[a] \in Evaluated(ach[a])
            /\ ach[a].public = "ACTIVE" => ach[a].trigger \in ActiveTriggers
        BY <1>3, <3>1, <3>2 DEF Playable
      <4> QED BY <1>3, <4>1, ProcessedKeeps, ProcessedTells
    <3>4. after \in [Achievements -> Achievement]
      BY <3>3
    <3>5. RaisePendingEvents([ach |-> after, tracker |-> t], <<>>, listed, TRUE)
      BY <3>1, <3>2
    <3>6. raised = <<>> /\ loaded /\ loaded' = TRUE
      BY <2>3 DEF DoFrame, Ready, settings, IInv, OthersOK
    <3> HIDE DEF after, t
    <3>7. Indicators!Call
      BY <1>3, <1>4, <1>6, <3>3, <3>4, <3>5, <3>6, RaisesIndicators
    <3> QED BY <1>2, <3>7
  <2>4. CASE Reset
    <3> DEFINE s == ResetAchievements(ach)
               t == HideTracker(tracker)
    <3>1. s \in [Achievements -> Achievement]
      BY <1>3, ResetKeeps
    <3>2. \A a \in Achievements : Tells(ach[a], s[a])
      BY <1>3, ResetTells
    <3>3. /\ RaisePendingEvents([ach |-> s, tracker |-> t], <<>>, listed, FALSE)
          /\ raised = <<>> /\ loaded /\ loaded' = TRUE
      BY <2>4 DEF Reset, Ready, IInv, OthersOK
    <3> HIDE DEF s, t
    <3>4. Indicators!Call
      BY <1>3, <1>4, <1>6, <3>1, <3>2, <3>3, RaisesIndicators
    <3> QED BY <1>2, <3>4
  <2>5. CASE Deserialize
    <3> DEFINE b == BeforeDeserialize(ach)
               t == HideTracker(tracker)
    <3>1. PICK z : /\ \/ z = ResetAchievements(b)
                      \/ \E from \in saved \cup {<<>>} : z = Restored(b, from)
                   /\ RaisePendingEvents([ach |-> AfterDeserialize(z), tracker |-> t], <<>>,
                                         listed, FALSE)
      BY <2>5 DEF Deserialize
    <3>2. b \in [Achievements -> Achievement] /\ Playable(b)
      BY <1>3, BeforeDeserializeKeeps
    <3>3. ASSUME NEW a \in Achievements
          PROVE  /\ b[a].public = ach[a].public /\ (Primed(b[a]) <=> Primed(ach[a]))
                 /\ b[a].pending = IF Primed(ach[a]) THEN {"HIDE"} ELSE {}
      <4>1. b[a] = [ach[a] EXCEPT !.pending = IF Primed(ach[a]) THEN {} \cup {"HIDE"} ELSE {}]
        BY <1>3 DEF BeforeDeserialize
      <4>2. ach[a] \in Achievement
        BY <1>3
      <4> HIDE DEF b
      <4> QED BY <4>1, <4>2 DEF Achievement, Primed
    <3> HIDE DEF b
    <3>4. /\ z \in [Achievements -> Achievement] /\ Playable(z)
          /\ \A a \in Achievements : /\ z[a].public = ach[a].public
                                     /\ z[a].pending = b[a].pending
      <4>1. CASE z = ResetAchievements(b)
        <5>1. z \in [Achievements -> Achievement] /\ Playable(z)
          BY <3>2, <4>1, ResetKeeps
        <5>2. ASSUME NEW a \in Achievements
              PROVE  z[a].public = ach[a].public /\ z[a].pending = b[a].pending
          <6>1. b[a] \in Achievement
            BY <3>2
          <6>2. CASE Primed(b[a])
            <7>1. z[a] = [[b[a] EXCEPT !.trigger = "WAITING", !.softcore = FALSE]
                           EXCEPT !.pending = @ \cup {"HIDE"}]
              BY <4>1, <6>2 DEF ResetAchievements, ResetTrigger
            <7>2. b[a].pending = {"HIDE"}
              BY <3>3, <6>2
            <7>3. z[a].public = b[a].public /\ z[a].pending = b[a].pending \cup {"HIDE"}
              BY <6>1, <7>1 DEF Achievement
            <7> QED BY <3>3, <7>2, <7>3
          <6>3. CASE ~Primed(b[a])
            <7>1. \/ z[a] = [b[a] EXCEPT !.trigger = "WAITING", !.softcore = FALSE]
                  \/ z[a] = b[a]
              BY <4>1, <6>3 DEF ResetAchievements, ResetTrigger
            <7>2. z[a].public = b[a].public /\ z[a].pending = b[a].pending
              BY <6>1, <7>1 DEF Achievement
            <7> QED BY <3>3, <7>2
          <6> QED BY <6>2, <6>3
        <5> QED BY <5>1, <5>2
      <4>2. ASSUME NEW from \in saved \cup {<<>>}, z = Restored(b, from)
            PROVE  /\ z \in [Achievements -> Achievement] /\ Playable(z)
                   /\ \A a \in Achievements : /\ z[a].public = ach[a].public
                                              /\ z[a].pending = b[a].pending
        <5>1. \A a \in DOMAIN from : from[a].trigger \in ActiveTriggers /\ from[a].softcore \in BOOLEAN
          BY DEF IInv, OthersOK, SavesAreOfActive
        <5>2. /\ z \in [Achievements -> Achievement] /\ Playable(z)
              /\ \A a \in Achievements : z[a].pending = b[a].pending
          BY <3>2, <4>2, <5>1, RestoredKeeps
        <5>3. ASSUME NEW a \in Achievements PROVE z[a].public = b[a].public
          <6>1. b[a] \in Achievement
            BY <3>2
          <6> DEFINE left == from[a].softcore /\ ~hardcore
          <6>2. \/ z[a] = b[a]
                \/ z[a] = [b[a] EXCEPT !.trigger = from[a].trigger, !.softcore = left]
                \/ z[a] = [b[a] EXCEPT !.trigger = "WAITING", !.softcore = FALSE]
            BY <4>2 DEF Restored, ResetTrigger
          <6> HIDE DEF left
          <6> QED BY <6>1, <6>2 DEF Achievement
        <5> QED BY <3>3, <5>2, <5>3
      <4> QED BY <3>1, <4>1, <4>2
    <3> DEFINE r == AfterDeserialize(z)
    <3>5. r \in [Achievements -> Achievement]
      BY <3>4, AfterDeserializeKeeps
    <3>6. \A a \in Achievements : Tells(ach[a], r[a])
      BY <1>3, <3>3, <3>4, RestoreTells
    <3>7. /\ RaisePendingEvents([ach |-> r, tracker |-> t], <<>>, listed, FALSE)
          /\ raised = <<>> /\ loaded /\ loaded' = TRUE
      BY <2>5, <3>1 DEF Deserialize, Ready, settings, IInv, OthersOK
    <3> HIDE DEF r, t
    <3>8. Indicators!Call
      BY <1>3, <1>4, <1>6, <3>5, <3>6, <3>7, RaisesIndicators
    <3> QED BY <1>2, <3>8
  <2>6. CASE Unload
    <3> DEFINE s == [a \in Achievements |->
                       [ach[a] EXCEPT !.pending = IF Primed(ach[a]) THEN {"HIDE"} ELSE {}]]
               c == [ach |-> s, tracker |-> HideTracker(tracker)]
               kinds == [a \in Achievements |-> Kind(s[a].pending)]
    <3>1. ASSUME NEW a \in Achievements
          PROVE  kinds[a] = IF Primed(ach[a]) THEN "HIDE" ELSE "none"
      <4>1. s[a].pending = IF Primed(ach[a]) THEN {"HIDE"} ELSE {}
        BY <1>3 DEF Achievement
      <4> HIDE DEF s
      <4> QED BY <4>1 DEF Kind
    <3>2. IndicatorEvents(c) = InOrder(kinds)
      BY DEF IndicatorEvents, Kind
    <3>3. kinds \in Kinds
      BY <3>1 DEF Kinds
    <3>4. /\ raised' = <<>> \o IndicatorEvents(c)
          /\ loaded' = FALSE /\ loaded /\ raised = <<>>
      BY <2>6 DEF Unload, RaisePendingEvents, Ready
    <3> HIDE DEF s, c, kinds
    <3>5. raised' = InOrder(kinds)
      <4>1. PICK h : OrderRun(h, kinds)
        BY <3>3, InOrderRuns
      <4>2. InOrder(kinds) \in Seq(EventsOf(Achievements))
        BY <4>1, AchievementAssumption DEF OrderRun
      <4> QED BY <3>2, <3>4, <4>2
    <3>6. ASSUME NEW a \in Achievements
          PROVE  /\ kinds[a] = "SHOW" => a \notin Lit
                 /\ kinds[a] = "HIDE" => a \in Lit
                 /\ a \in Lit' <=> kinds[a] = "SHOW" \/ (a \in Lit /\ kinds[a] # "HIDE")
      BY <1>6, <3>1, <3>4 DEF Lit
    <3>7. Indicators!Call
      BY <1>4, <1>6, <3>3, <3>4, <3>5, <3>6, IndicatorsCall
    <3> QED BY <1>2, <3>7
  <2>7. CASE LoadGame
    <3>1. PICK unlocked \in [Achievements -> IF host.submits THEN Unlocks ELSE {{}}] :
            ach' = Toggled([a \in Achievements |-> NewAchievement(unlocked[a])],
                           IF encore THEN "NONE" ELSE Mode(hardcore))
      BY <2>7 DEF LoadGame
    <3> DEFINE new == [a \in Achievements |-> NewAchievement(unlocked[a])]
               bit == IF encore THEN "NONE" ELSE Mode(hardcore)
    <3>2. ASSUME NEW a \in Achievements PROVE ~Primed(ach'[a])
      <4>1. new[a] \in Achievement /\ ~Primed(new[a])
        <5>1. unlocked[a] \in Unlocks
          BY DEF Unlocks
        <5> QED BY <5>1 DEF NewAchievement, Achievement, ActiveTriggers, Primed
      <4>2. ach'[a] = Switched(new[a], bit, encore)
        BY <3>1 DEF Toggled
      <4> HIDE DEF new, bit
      <4> QED BY <4>1, <4>2, SwitchedNeverPrimes
    <3>3. /\ ~loaded /\ UNCHANGED raised
      BY <2>7 DEF LoadGame
    <3>4. Lit = {} /\ Lit' = {}
      BY <3>2, <3>3 DEF Lit
    <3>5. Stutter
      BY <1>4, <3>3, <3>4
    <3> QED BY <1>1, <3>5
  <2>8. ASSUME NEW bit \in Modes, loaded, loaded' = loaded, raised = <<>>,
               ach' = Toggled(ach, bit), raised' = ToggleEvents(ach, bit)
        PROVE  Indicators!Call
    <3> DEFINE kinds == [a \in Achievements |->
                           IF Primed(ach[a]) /\ ~Primed(Toggled(ach, bit)[a])
                           THEN "HIDE" ELSE "none"]
    <3>1. kinds \in Kinds /\ raised' = InOrder(kinds)
      BY <2>8 DEF Kinds, ToggleEvents
    <3>2. ASSUME NEW a \in Achievements
          PROVE  /\ kinds[a] = "SHOW" => a \notin Lit
                 /\ kinds[a] = "HIDE" => a \in Lit
                 /\ a \in Lit' <=> kinds[a] = "SHOW" \/ (a \in Lit /\ kinds[a] # "HIDE")
      <4>1. (a \in Lit <=> Primed(ach[a])) /\ (a \in Lit' <=> Primed(ach'[a]))
        <5>1. a \in Lit' <=> Primed(ach[a])'
          BY <1>4, <1>6, <2>8 DEF Lit
        <5>2. Primed(ach[a])' <=> Primed(ach'[a])
          BY DEF Primed
        <5> QED BY <1>6, <2>8, <5>1, <5>2 DEF Lit
      <4>2. Primed(ach'[a]) => Primed(ach[a])
        <5>1. ach'[a] = Switched(ach[a], bit, encore)
          BY <2>8 DEF Toggled
        <5> QED BY <1>3, <5>1, SwitchedNeverPrimes
      <4>3. kinds[a] = IF Primed(ach[a]) /\ ~Primed(ach'[a]) THEN "HIDE" ELSE "none"
        BY <2>8
      <4> HIDE DEF kinds
      <4> QED BY <4>1, <4>2, <4>3
    <3> HIDE DEF kinds
    <3> QED BY <1>4, <1>6, <2>8, <3>1, <3>2, IndicatorsCall
  <2>9. CASE EnableHardcore
    <3>1. loaded' = loaded /\ raised = <<>>
      BY <2>9 DEF EnableHardcore, Ready
    <3>2. CASE loaded
      <4>1. ach' = Toggled(ach, "HARDCORE") /\ raised' = ToggleEvents(ach, "HARDCORE")
        BY <2>9, <3>2 DEF EnableHardcore
      <4>2. Indicators!Call
        BY <2>8, <3>1, <3>2, <4>1 DEF Modes
      <4> QED BY <1>2, <4>2
    <3>3. CASE ~loaded
      BY <2>1, <2>9, <3>1, <3>3 DEF EnableHardcore
    <3> QED BY <3>2, <3>3
  <2>10. CASE DisableHardcore
    <3>1. loaded' = loaded /\ raised = <<>>
      BY <2>10 DEF DisableHardcore, Ready
    <3>2. CASE loaded
      <4> DEFINE s == Toggled(ach, "SOFTCORE")
                 c == [ach |-> s, tracker |-> tracker]
                 kinds == [a \in Achievements |-> Kind(s[a].pending)]
      <4>1. /\ raised' = ToggleEvents(ach, "SOFTCORE") \o IndicatorEvents(c)
            /\ ach' = Raised(c)
        BY <2>10, <3>2 DEF DisableHardcore, RaisePendingEvents
      <4>2. s \in [Achievements -> Settled]
        BY <1>3, ToggledKeeps
      <4>3. ASSUME NEW a \in Achievements PROVE s[a].pending = {} /\ s[a] \in Achievement
        BY <4>2 DEF Settled
      <4>4. IndicatorEvents(c) = <<>>
        <5>1. IndicatorEvents(c) = InOrder(kinds)
          BY DEF IndicatorEvents, Kind
        <5>2. \A a \in Achievements : kinds[a] = "none"
          BY <4>3 DEF Kind
        <5>3. kinds \in Kinds
          BY <5>2 DEF Kinds
        <5> HIDE DEF kinds, c
        <5> QED BY <5>1, <5>2, <5>3, InOrderNothing
      <4>5. ach' = s
        <5>1. Fired(c) = {}
          BY <4>3 DEF Fired
        <5>2. ASSUME NEW a \in Achievements PROVE Raised(c)[a] = s[a]
          <6>1. Raised(c)[a] = [s[a] EXCEPT !.pending = {}]
            BY <5>1 DEF Raised
          <6>2. s[a] \in Settled
            BY <4>2
          <6> HIDE DEF s, c
          <6> QED BY <6>1, <6>2, NothingPending
        <5>3. Raised(c) = [a \in Achievements |-> Raised(c)[a]]
          BY DEF Raised
        <5> HIDE DEF c, s
        <5> QED BY <4>1, <4>2, <5>2, <5>3
      <4>6. ToggleEvents(ach, "SOFTCORE") \in Seq(EventsOf(Achievements))
        <5> DEFINE hidden == [a \in Achievements |->
                                IF Primed(ach[a]) /\ ~Primed(s[a]) THEN "HIDE" ELSE "none"]
        <5>1. hidden \in Kinds /\ ToggleEvents(ach, "SOFTCORE") = InOrder(hidden)
          BY DEF Kinds, ToggleEvents
        <5> HIDE DEF hidden
        <5>2. PICK h : OrderRun(h, hidden)
          BY <5>1, InOrderRuns
        <5> QED BY <5>1, <5>2, AchievementAssumption DEF OrderRun
      <4> HIDE DEF c
      <4>7. raised' = ToggleEvents(ach, "SOFTCORE")
        BY <4>1, <4>4, <4>6
      <4>8. Indicators!Call
        BY <2>8, <3>1, <3>2, <4>5, <4>7 DEF Modes
      <4> QED BY <1>2, <4>8
    <3>3. CASE ~loaded
      BY <2>1, <2>10, <3>1, <3>3 DEF DisableHardcore
    <3> QED BY <3>2, <3>3
  <2>11. CASE Idle \/ Tick \/ SetEncore \/ Serialize
    BY <2>1, <2>11 DEF Idle, Tick, SetEncore, Serialize, settings
  <2>12. ASSUME NEW a \in Achievements, Answered(a) \/ AnsweredLast(a)
         PROVE  [Indicators!Next]_(Indicators!vars)
    BY <2>1, <2>12 DEF Answered, AnsweredLast, settings
  <2>13. CASE UNCHANGED vars
    BY <2>1, <2>13 DEF vars, settings
  <2> QED
    BY <2>2, <2>3, <2>4, <2>5, <2>6, <2>7, <2>9, <2>10, <2>11, <2>12, <2>13 DEF Next
<1> QED BY <1>5, <1>6

-----------------------------------------------------------------------------
(* The progress indicator is what its events say.                            *)

\* What is on screen while a tracker is t.
On(t) == IF t.timer = Off THEN {} ELSE {"progress"}

\* The events that may take a host from t to u: none, or the one that says so.
Follows(events, t, u) ==
  \/ events = <<>> /\ On(u) = On(t)
  \/ events = Event("SHOW") /\ On(t) = {} /\ On(u) = {"progress"}
  \/ events = Event("UPDATE") /\ On(t) = {"progress"} /\ On(u) = {"progress"}
  \/ events = Event("HIDE") /\ On(t) = {"progress"} /\ On(u) = {}

\* The events bring the overlay from `before' to `after'.
Plays(before, events, after) ==
  /\ events \in Seq(EventsOf({"progress"}))
  /\ Indicators!Legal(before, events)
  /\ Indicators!Played(before, events) = after

\* These are events of the progress indicator.
LEMMA FollowsType ==
  ASSUME NEW events, NEW t, NEW u, Follows(events, t, u)
  PROVE  events \in Seq(EventsOf({"progress"}))
<1>1. ASSUME NEW type \in {"SHOW", "UPDATE", "HIDE"}, events = Event(type)
      PROVE  events \in Seq(EventsOf({"progress"}))
  <2> DEFINE e == [type |-> type, id |-> "progress"]
  <2>1. e \in EventsOf({"progress"}) /\ events = <<e>>
    BY <1>1 DEF EventsOf, Event
  <2> HIDE DEF e
  <2> QED BY <2>1
<1>2. \/ events = <<>>
      \/ events = Event("SHOW") \/ events = Event("UPDATE") \/ events = Event("HIDE")
  BY DEF Follows
<1>3. <<>> \in Seq(EventsOf({"progress"}))
  OBVIOUS
<1> QED BY <1>1, <1>2, <1>3

\* It is shown or not.
LEMMA OnPictures == \A t : On(t) \in Pictures({"progress"})
BY DEF On, Pictures

\* One more event of the progress indicator.
LEMMA FollowsPlays ==
  ASSUME NEW before \in Pictures({"progress"}), NEW first, NEW events, NEW t, NEW u,
         Plays(before, first, On(t)), Follows(events, t, u)
  PROVE  Plays(before, first \o events, On(u))
<1>1. first \in Seq(EventsOf({"progress"})) /\ Indicators!Legal(before, first)
      /\ Indicators!Played(before, first) = On(t)
  BY DEF Plays
<1>2. CASE events = <<>> /\ On(u) = On(t)
  <2>1. first \o <<>> = first
    BY <1>1
  <2> QED BY <1>2, <2>1
<1>3. ASSUME NEW type \in {"SHOW", "UPDATE", "HIDE"}, events = Event(type),
             type = "SHOW" <=> On(t) = {}, On(t) = {} \/ On(t) = {"progress"},
             On(u) = IF type = "HIDE" THEN {} ELSE {"progress"}
      PROVE  Plays(before, first \o events, On(u))
  <2> DEFINE e == [type |-> type, id |-> "progress"]
  <2>1. e \in EventsOf({"progress"}) /\ e.type = type /\ e.id = "progress"
    BY DEF EventsOf
  <2>2. first \o events = Append(first, e)
    <3>1. events = <<e>>
      BY <1>3 DEF Event
    <3> HIDE DEF e
    <3> QED BY <1>1, <2>1, <3>1
  <2> HIDE DEF e
  <2>3. Append(first, e) \in Seq(EventsOf({"progress"}))
    BY <1>1, <2>1
  <2>4. Indicators!Played(before, Append(first, e)) = Draw(On(t), e)
    <3>1. Indicators!Played(before, Append(first, e)) = Draw(Indicators!Played(before, first), e)
      BY <1>1, <2>1, PlayedMore
    <3> QED BY <1>1, <3>1
  <2>5. Draw(On(t), e) = On(u)
    BY <1>3, <2>1 DEF Draw
  <2>6. e.type = "SHOW" <=> e.id \notin Indicators!Played(before, first)
    BY <1>1, <1>3, <2>1
  <2>7. Indicators!Legal(before, Append(first, e))
    BY <1>1, <2>1, <2>6, LegalMore
  <2> QED BY <2>2, <2>3, <2>4, <2>5, <2>7 DEF Plays
<1>4. CASE events = Event("SHOW") /\ On(t) = {} /\ On(u) = {"progress"}
  BY <1>3, <1>4
<1>5. CASE events = Event("UPDATE") /\ On(t) = {"progress"} /\ On(u) = {"progress"}
  BY <1>3, <1>5
<1>6. CASE events = Event("HIDE") /\ On(t) = {"progress"} /\ On(u) = {}
  BY <1>3, <1>6
<1> QED BY <1>2, <1>4, <1>5, <1>6 DEF Follows

\* What a call raises after it has changed the tracker says how.
LEMMA ChangedFollows ==
  ASSUME NEW t, Sound(t), t.action = "NONE", t.pending = FALSE,
         NEW u \in {t, UpdateTracker(t), HideTracker(t)}
  PROVE  Follows(TrackerEvents(u), t, u)
<1>1. CASE u = t
  BY <1>1 DEF Follows, TrackerEvents
<1>2. CASE u = UpdateTracker(t)
  <2> DEFINE w == [t EXCEPT !.timer = HideDelay, !.queued = TRUE]
  <2>1. w \in Tracker /\ w.timer # Off
    BY TimerRange DEF Sound, Tracker
  <2>2. UpdateTracker(t) = [w EXCEPT !.action = IF t.timer = Off THEN "SHOW" ELSE "UPDATE",
                                     !.pending = TRUE]
    BY RescheduleLater, TimerRange DEF UpdateTracker, Sound
  <2> HIDE DEF w
  <2>3. /\ u.timer # Off /\ u.pending = TRUE
        /\ u.action = IF t.timer = Off THEN "SHOW" ELSE "UPDATE"
    BY <1>2, <2>1, <2>2 DEF Tracker
  <2>4. CASE t.timer = Off
    <3>1. TrackerEvents(u) = Event("SHOW") /\ On(t) = {} /\ On(u) = {"progress"}
      BY <2>3, <2>4 DEF TrackerEvents, On
    <3> QED BY <3>1 DEF Follows
  <2>5. CASE t.timer # Off
    <3>1. TrackerEvents(u) = Event("UPDATE") /\ On(t) = {"progress"} /\ On(u) = {"progress"}
      BY <2>3, <2>5 DEF TrackerEvents, On
    <3> QED BY <3>1 DEF Follows
  <2> QED BY <2>4, <2>5
<1>3. CASE u = HideTracker(t) /\ u # t
  <2>1. t.timer # Off
    BY <1>3 DEF HideTracker
  <2> DEFINE w == [t EXCEPT !.timer = Off, !.queued = ~@]
  <2>2. HideTracker(t) = [w EXCEPT !.action = "HIDE", !.pending = TRUE]
    BY <2>1, RescheduleOff DEF HideTracker, Sound
  <2>3. w \in Tracker /\ w.timer = Off
    BY TimerRange DEF Sound, Tracker
  <2> HIDE DEF w
  <2>4. u.timer = Off /\ u.pending = TRUE /\ u.action = "HIDE"
    BY <1>3, <2>2, <2>3 DEF Tracker
  <2>5. TrackerEvents(u) = Event("HIDE") /\ On(t) = {"progress"} /\ On(u) = {}
    BY <2>1, <2>4 DEF TrackerEvents, On
  <2> QED BY <2>5 DEF Follows
<1> QED BY <1>1, <1>2, <1>3

\* The callback that hides the indicator says so.
LEMMA ElapsedFollows ==
  ASSUME NEW t, Sound(t), t.action = "NONE"
  PROVE  Follows(ElapsedEvents(t), t, Elapsed(t))
<1>1. CASE IsDue(t)
  <2>1. Elapsed(t) = [t EXCEPT !.queued = FALSE, !.timer = Off]
    BY <1>1 DEF Elapsed
  <2>2. t \in Tracker /\ t.queued /\ t.timer # Off
    BY <1>1 DEF IsDue, Sound
  <2>3. Elapsed(t).timer = Off
    BY <2>1, <2>2 DEF Tracker
  <2>4. ElapsedEvents(t) = Event("HIDE")
    BY <1>1 DEF ElapsedEvents
  <2> QED BY <2>2, <2>3, <2>4 DEF Follows, On
<1>2. CASE ~IsDue(t)
  BY <1>2 DEF Elapsed, ElapsedEvents, Follows
<1> QED BY <1>1, <1>2

\* The overlay of the progress indicator is described as that of the achievements.
LEMMA PopupCall ==
  ASSUME popup = <<>>, Plays(On(tracker), popup', On(tracker'))
  PROVE  Popup!Call
<1>1. \A b, es : Popup!Played(b, es) = Indicators!Played(b, es)
  BY DEF Popup!Played, Indicators!Played, Popup!FoldLeft, Indicators!FoldLeft,
         Popup!MapThenFoldSet, Indicators!MapThenFoldSet, Popup!Max, Indicators!Max
<1>2. \A b, es : Popup!Legal(b, es) <=> Indicators!Legal(b, es)
  BY <1>1 DEF Popup!Legal, Indicators!Legal
<1>3. Popup!Events = EventsOf({"progress"})
  BY DEF Popup!Events, EventsOf
<1>4. On(tracker)' = On(tracker')
  BY DEF On
<1>5. /\ popup' \in Seq(EventsOf({"progress"})) /\ Indicators!Legal(On(tracker), popup')
      /\ Indicators!Played(On(tracker), popup') = On(tracker)'
  BY <1>4 DEF Plays
<1> QED BY <1>1, <1>2, <1>3, <1>5 DEF Popup!Call, On

\* No event changes nothing.
LEMMA PlaysNothing ==
  ASSUME NEW t
  PROVE  Plays(On(t), <<>>, On(t))
<1>1. On(t) \in SUBSET {"progress"}
  BY DEF On
<1>2. <<>> \in Seq(EventsOf({"progress"}))
  OBVIOUS
<1> HIDE DEF On
<1> QED BY <1>1, <1>2, PlayedNothing, LegalNothing DEF Plays

\* What a call says of the progress indicator, after what it did to the tracker.
LEMMA RaisesPopup ==
  ASSUME TrackerOK, popup = <<>>,
         NEW t \in {tracker, UpdateTracker(tracker), HideTracker(tracker)},
         NEW s, NEW before, NEW list, NEW idles \in BOOLEAN,
         RaisePendingEvents([ach |-> s, tracker |-> t], before, list, idles)
  PROVE  Popup!Call
<1> DEFINE first == TrackerEvents(t)
           u == TrackerRaised(t)
           more == ElapsedEvents(u)
<1>1. Sound(t) /\ (t.pending \/ t.action = "NONE")
  BY UpdateTrackerSound, HideTrackerSound DEF TrackerOK
<1>2. Sound(u) /\ u.action = "NONE" /\ u.timer = t.timer
  BY <1>1, TrackerRaisedSound
<1>3. Follows(first, tracker, u)
  <2>1. Follows(first, tracker, t)
    BY ChangedFollows DEF TrackerOK
  <2>2. On(u) = On(t)
    BY <1>2 DEF On
  <2> HIDE DEF first, u
  <2> QED BY <2>1, <2>2 DEF Follows
<1>4. Follows(more, u, Elapsed(u))
  BY <1>2, ElapsedFollows
<1>5. /\ popup' = first \o (IF idles THEN more ELSE <<>>)
      /\ tracker' = IF idles THEN Elapsed(u) ELSE u
  BY DEF RaisePendingEvents
<1> HIDE DEF first, u, more
<1>6. On(tracker) \in Pictures({"progress"}) /\ Plays(On(tracker), <<>>, On(tracker))
  BY OnPictures, PlaysNothing
<1>7. Plays(On(tracker), <<>> \o first, On(u))
  BY <1>3, <1>6, FollowsPlays
<1>8. <<>> \o first = first
  <2>1. first \in Seq(EventsOf({"progress"}))
    BY <1>3, FollowsType
  <2> QED BY <2>1
<1>9. Plays(On(tracker), first, On(u))
  BY <1>7, <1>8
<1>10. CASE idles
  <2>1. Plays(On(tracker), first \o more, On(Elapsed(u)))
    BY <1>4, <1>6, <1>9, FollowsPlays
  <2>2. Plays(On(tracker), popup', On(tracker'))
    BY <1>5, <1>10, <2>1
  <2> QED BY <2>2, PopupCall
<1>11. CASE ~idles
  <2>1. first \o <<>> = first
    BY <1>9 DEF Plays
  <2>2. Plays(On(tracker), popup', On(tracker'))
    BY <1>5, <1>9, <1>11, <2>1
  <2> QED BY <2>2, PopupCall
<1> QED BY <1>10, <1>11

\* Each call shows, updates and hides the progress indicator as it uses it.
LEMMA PopupStep ==
  ASSUME IInv, [Next]_vars
  PROVE  [Popup!Next]_(Popup!vars)
<1>1. UNCHANGED popup /\ On(tracker)' = On(tracker) => [Popup!Next]_(Popup!vars)
  BY DEF Popup!vars, On
<1>2. Popup!Call => [Popup!Next]_(Popup!vars)
  BY DEF Popup!Next
<1>3. TrackerOK
  BY DEF IInv
<1>4. UNCHANGED <<popup, tracker>> => [Popup!Next]_(Popup!vars)
  BY <1>1 DEF On
<1>5. CASE DoFrame
  <2>1. PICK failing \in SUBSET Achievements,
             next \in [Achievements -> ActiveTriggers \cup {"TRIGGERED", "DISABLED"}],
             progress \in BOOLEAN :
          RaisePendingEvents(
            [ach |-> [a \in Achievements |-> Processed(Invalidated(failing)[a], next[a])],
             tracker |-> IF progress THEN UpdateTracker(tracker) ELSE tracker],
            <<>>, IF failing = {} THEN listed ELSE Active(Invalidated(failing)), TRUE)
    BY <1>5 DEF DoFrame
  <2> DEFINE t == IF progress THEN UpdateTracker(tracker) ELSE tracker
             s == [a \in Achievements |-> Processed(Invalidated(failing)[a], next[a])]
             list == IF failing = {} THEN listed ELSE Active(Invalidated(failing))
  <2>2. /\ t \in {tracker, UpdateTracker(tracker), HideTracker(tracker)}
        /\ RaisePendingEvents([ach |-> s, tracker |-> t], <<>>, list, TRUE)
        /\ popup = <<>>
    BY <1>5, <2>1 DEF DoFrame, Ready
  <2> HIDE DEF t, s, list
  <2> QED BY <1>2, <1>3, <2>2, RaisesPopup
<1>6. CASE Unload \/ Reset \/ Deserialize
  <2> DEFINE t == HideTracker(tracker)
  <2>1. popup = <<>> /\ \E s : RaisePendingEvents([ach |-> s, tracker |-> t], <<>>, listed, FALSE)
    <3>1. CASE Unload
      BY <3>1 DEF Unload, Ready
    <3>2. CASE Reset
      BY <3>2 DEF Reset, Ready
    <3>3. CASE Deserialize
      BY <3>3 DEF Deserialize, Ready
    <3> QED BY <1>6, <3>1, <3>2, <3>3
  <2>2. PICK s : RaisePendingEvents([ach |-> s, tracker |-> t], <<>>, listed, FALSE)
    BY <2>1
  <2>3. t \in {tracker, UpdateTracker(tracker), HideTracker(tracker)}
    OBVIOUS
  <2> HIDE DEF t
  <2> QED BY <1>2, <1>3, <2>1, <2>2, <2>3, RaisesPopup
<1>7. CASE DisableHardcore
  <2>1. CASE loaded
    <3>1. /\ popup = <<>>
          /\ RaisePendingEvents([ach |-> Toggled(ach, "SOFTCORE"), tracker |-> tracker],
                                ToggleEvents(ach, "SOFTCORE"),
                                Active(Toggled(ach, "SOFTCORE")), FALSE)
      BY <1>7, <2>1 DEF DisableHardcore, Ready
    <3> QED BY <1>2, <1>3, <3>1, RaisesPopup
  <2>2. CASE ~loaded
    BY <1>4, <1>7, <2>2 DEF DisableHardcore
  <2> QED BY <2>1, <2>2
<1>8. CASE Idle
  <2>1. popup = <<>> /\ popup' = ElapsedEvents(tracker) /\ tracker' = Elapsed(tracker)
    BY <1>8 DEF Idle, Ready
  <2>2. Follows(popup', tracker, tracker')
    BY <1>3, <2>1, ElapsedFollows DEF TrackerOK
  <2>3. Plays(On(tracker), <<>> \o popup', On(tracker'))
    BY <2>2, OnPictures, PlaysNothing, FollowsPlays
  <2>4. <<>> \o popup' = popup'
    <3>1. popup' \in Seq(EventsOf({"progress"}))
      BY <2>2, FollowsType
    <3> QED BY <3>1
  <2>5. Plays(On(tracker), popup', On(tracker'))
    BY <2>3, <2>4
  <2> QED BY <1>2, <2>1, <2>5, PopupCall
<1>9. CASE Tick
  <2>1. /\ tracker.timer > 0 /\ tracker' = [tracker EXCEPT !.timer = @ - 1] /\ UNCHANGED popup
    BY <1>9 DEF Tick
  <2>2. tracker.timer \in Off .. HideDelay /\ tracker \in Tracker
    BY <1>3 DEF TrackerOK, Sound, Tracker
  <2>3. tracker.timer # Off /\ tracker'.timer # Off
    BY <2>1, <2>2, HideDelayAssumption DEF Off, Tracker
  <2>4. On(tracker)' = On(tracker)
    BY <2>3 DEF On
  <2> QED BY <1>1, <2>1, <2>4
<1>10. CASE Handled
  <2>1. popup' = <<>> /\ tracker' = tracker
    BY <1>10 DEF Handled
  <2>2. Popup!Handled
    BY <2>1 DEF Popup!Handled
  <2> QED BY <2>2 DEF Popup!Next
<1>11. CASE LoadGame \/ EnableHardcore \/ SetEncore \/ Serialize
  BY <1>4, <1>11 DEF LoadGame, EnableHardcore, SetEncore, Serialize
<1>12. ASSUME NEW a \in Achievements, Answered(a) \/ AnsweredLast(a)
       PROVE  [Popup!Next]_(Popup!vars)
  BY <1>4, <1>12 DEF Answered, AnsweredLast
<1>13. CASE UNCHANGED vars
  BY <1>4, <1>13 DEF vars
<1> QED
  BY <1>5, <1>6, <1>7, <1>8, <1>9, <1>10, <1>11, <1>12, <1>13 DEF Next

\* Nothing is on screen before a game is loaded.
LEMMA OverlaysInit == Init => Indicators!Init /\ Popup!Init
BY DEF Init, Indicators!Init, Popup!Init, NoTracker

-----------------------------------------------------------------------------
(* The theorems.                                                            *)

\* The inductive invariant holds for every set of achievements.
THEOREM AchievementsInvariant == Spec => []IInv
BY InitIInv, NextIInv, PTL DEF Spec

\* After any calls the list of the runtime is that of the active achievements, which
\* have a trigger that is evaluated and are not unlocked in the current mode.
THEOREM ListedAreActiveAlways == Spec => []ListedAreActive
BY AchievementsInvariant, IInvIsEnough, PTL

\* After the reset that enabling hardcore asks for, no hit of softcore is left.
THEOREM HardcoreStartsFromReset == Spec => []HardcoreFromReset
BY AchievementsInvariant, IInvIsEnough, PTL

\* The callback that hides the progress indicator is queued exactly while it is
\* shown, and never without a game.
THEOREM HideAlwaysScheduled == Spec => []HideIsScheduled
BY AchievementsInvariant, IInvIsEnough, PTL

\* A host that draws what the events say shows the challenge indicators of the
\* achievements that are primed, and the progress indicator while its timer runs.
THEOREM ImplementsOverlay == Spec => RefinesOverlay
<1>1. IInv /\ [Next]_vars => [Indicators!Next]_(Indicators!vars) /\ [Popup!Next]_(Popup!vars)
  BY IndicatorsStep, PopupStep
<1> QED BY <1>1, OverlaysInit, AchievementsInvariant, PTL
        DEF Spec, RefinesOverlay, Indicators!Spec, Popup!Spec
=============================================================================
