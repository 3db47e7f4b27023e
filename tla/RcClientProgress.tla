--------------------------- MODULE RcClientProgress ---------------------------
(***************************************************************************)
(* The progress indicator of a loaded game (progress_tracker): shown when  *)
(* the measured value of an achievement changes, updated while it is       *)
(* shown, and hidden by a scheduled callback when nothing has changed for  *)
(* two seconds, or at once when the game is reset, restored or unloaded.   *)
(***************************************************************************)
EXTENDS Integers

CONSTANT HideDelay     \* 2000 milliseconds in the code

ASSUME HideDelayAssumption == HideDelay \in Nat

\* hide_callback->when is 0; otherwise the time that is left.
Off == -1

NoTracker == [action |-> "NONE", timer |-> Off, queued |-> FALSE, pending |-> FALSE]

\* rc_client_reschedule_callback, of which the position among other entries of the
\* queue is left out; a callback that is not queued cannot be unscheduled, and is
\* added to the end of the queue instead.
Reschedule(t, left) ==
  [t EXCEPT !.timer = left, !.queued = IF left = Off THEN ~@ ELSE TRUE]

\* Mutant: the callback stays in the queue.
HideTrackerQueued(t) ==
  IF t.timer # Off /\ t.action = "NONE"
  THEN [t EXCEPT !.timer = Off, !.action = "HIDE", !.pending = TRUE]
  ELSE t

\* rc_client_hide_progress_tracker
HideTracker(t) ==
  IF t.timer # Off /\ t.action = "NONE"
  THEN [Reschedule(t, Off) EXCEPT !.action = "HIDE", !.pending = TRUE]
  ELSE t

\* rc_client_do_frame_update_progress_tracker
UpdateTracker(t) ==
  [Reschedule(t, HideDelay) EXCEPT
     !.action = IF t.timer = Off THEN "SHOW" ELSE "UPDATE", !.pending = TRUE]

Event(type) == <<[type |-> type, id |-> "progress"]>>

\* rc_client_raise_progress_tracker_events
TrackerEvents(t) ==
  CASE ~t.pending                                      -> <<>>
    [] t.pending /\ t.action \in {"SHOW", "HIDE"}      -> Event(t.action)
    [] t.pending /\ t.action \notin {"SHOW", "HIDE"}   -> Event("UPDATE")

TrackerRaised(t) ==
  IF t.pending THEN [t EXCEPT !.action = "NONE", !.pending = FALSE] ELSE t

\* rc_client_idle has taken the callback from the queue:
\* rc_client_progress_tracker_timer_elapsed.
IsDue(t) == t.queued /\ t.timer <= 0

Elapsed(t) ==
  CASE IsDue(t) /\ t.action = "NONE" -> [t EXCEPT !.queued = FALSE, !.timer = Off]
    [] IsDue(t) /\ t.action # "NONE" -> [t EXCEPT !.queued = FALSE]
    [] ~IsDue(t)                     -> t

ElapsedEvents(t) ==
  IF IsDue(t) /\ t.action = "NONE" THEN Event("HIDE") ELSE <<>>
=============================================================================
