------------------------------ MODULE RcLboard ------------------------------
(***************************************************************************)
(* A leaderboard (rc_lboard_t): the state it moves to in a frame, given    *)
(* which of its start, cancel and submit triggers are true.                *)
(***************************************************************************)

LboardStates ==
  {"INACTIVE", "WAITING", "ACTIVE", "STARTED", "CANCELED", "TRIGGERED", "DISABLED"}

\* rc_lboard_state_active
LboardActive(state) == state \notin {"INACTIVE", "DISABLED"}

Resting == {"WAITING", "TRIGGERED", "CANCELED"}

\* A new attempt begins, or begins and ends in the same frame.
Starts(state, true) ==
  state = "ACTIVE" /\ "start" \in true /\ "cancel" \notin true

\* Mutant: a leaderboard that rests may start at once.
EvaluatedAtOnce(state, true, noStart) ==
  CASE state \in Resting \cup {"ACTIVE"} ->
         IF "start" \in true /\ "cancel" \notin true THEN "STARTED" ELSE "ACTIVE"
    [] state = "STARTED" /\ "cancel" \in true    -> "CANCELED"
    [] state = "STARTED" /\ "cancel" \notin true ->
         IF "submit" \in true THEN "TRIGGERED" ELSE "STARTED"

\* The state after rc_evaluate_lboard; an empty start trigger (a leaderboard in
\* development) starts nothing.
Evaluated(state, true, noStart) ==
  CASE state \in Resting ->
         IF "start" \in true THEN state ELSE "ACTIVE"
    [] Starts(state, true) ->
         IF "submit" \in true THEN "TRIGGERED"
         ELSE IF noStart THEN "ACTIVE" ELSE "STARTED"
    [] state = "ACTIVE" /\ ~Starts(state, true) -> "ACTIVE"
    [] state = "STARTED" /\ "cancel" \in true   -> "CANCELED"
    [] state = "STARTED" /\ "cancel" \notin true ->
         IF "submit" \in true THEN "TRIGGERED" ELSE "STARTED"

\* What rc_evaluate_lboard returns.
Returned(state, true, noStart) ==
  IF state \in Resting /\ "start" \in true
  THEN "INACTIVE" ELSE Evaluated(state, true, noStart)
=============================================================================
